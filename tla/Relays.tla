------------------------------- MODULE Relays -------------------------------
(***************************************************************************)
(* The relay controller, src/src/relays.c, with the web command that sets  *)
(* its flags (src/src/http.c, "3Fhvac").  Once per pass of the main loop   *)
(* control_relays compares the measured temperature with the setpoint,     *)
(* counts passes spent outside the comfort band, raises a heating or a     *)
(* cooling demand when the count is complete, and drives the relay pins    *)
(* of port C.                                                              *)
(*                                                                         *)
(* Temperatures are integers, Click units to a tenth of a degree.  The     *)
(* measured temperature and the setpoint belong to other components: here  *)
(* they move freely over Temps and Setpoints.                              *)
(***************************************************************************)
EXTENDS Integers

CONSTANTS cnt0end,    \* passes outside the band before a demand is raised
          WordMod,    \* 2^16, the range of the WORD relays_cnt0
          Click,      \* a tenth of a degree, one click of the dial
          Temps,      \* the temperatures the sensor may publish
          Setpoints   \* the setpoints the dial and the web page may choose

Degree == 10 * Click

ASSUME RelaysAssumption ==
  /\ cnt0end \in Nat \ {0}
  /\ WordMod \in Nat
  /\ cnt0end < WordMod
  /\ Click \in Nat \ {0}
  /\ Temps \subseteq Int
  /\ Setpoints \subseteq Int
  /\ 20 * Degree \in Setpoints

VARIABLES adc0_valid,          \* a first average has been published
          adc0_temp,           \* the measured temperature
          desired_temp,        \* the setpoint
          rot_enc_change,      \* the setpoint is being adjusted
          hvac_flag_sys,       \* master switch
          hvac_flag_auto,      \* automatic (1) or manual (0)
          hvac_flag_heat_src,  \* primary (1) or secondary (2) heating
          hvac_heat_flag,      \* the three component switches
          hvac_ac_flag,
          hvac_vent_flag,
          relays_cnt0,         \* passes counted outside the band
          hvac_heat,           \* the three demands
          hvac_ac,
          hvac_vent,
          PORTC,               \* the relay pins driven high
          h_since,             \* history: passes outside the band since a
                               \* demand was last raised, up to cnt0end
          h_wrong,             \* history: consecutive evaluations that left
                               \* relays on against the temperature
          h_commanded          \* history: a switch command has come since
                               \* the temperature was last evaluated

inputs  == <<adc0_valid, adc0_temp, desired_temp, rot_enc_change>>
flags   == <<hvac_flag_sys, hvac_flag_auto, hvac_flag_heat_src,
             hvac_heat_flag, hvac_ac_flag, hvac_vent_flag>>
demands == <<hvac_heat, hvac_ac, hvac_vent>>
control == <<relays_cnt0, demands, PORTC, h_since, h_wrong>>
relays  == <<control, h_commanded>>
vars    == <<inputs, flags, relays>>

(* Pin 0 drives the secondary heater, 1 the primary heater, 6 the cooling  *)
(* relay and 7 the fan.  main.c sets the data direction of bits 0, 1, 7    *)
(* and 8; the register has eight bits.                                     *)
RelayPins == {0, 1, 6, 7}
DDRC == {b \in {0, 1, 7, 8} : b < 8}

TypeOK ==
  /\ adc0_valid \in {0, 1}
  /\ adc0_temp \in Temps \cup {0}
  /\ desired_temp \in Setpoints
  /\ rot_enc_change \in {0, 1}
  /\ hvac_flag_sys \in {0, 1}
  /\ hvac_flag_auto \in {0, 1}
  /\ hvac_flag_heat_src \in {1, 2}
  /\ hvac_heat_flag \in {0, 1}
  /\ hvac_ac_flag \in {0, 1}
  /\ hvac_vent_flag \in {0, 1}
  /\ relays_cnt0 \in 0 .. WordMod - 1
  /\ hvac_heat \in {0, 1}
  /\ hvac_ac \in {0, 1}
  /\ hvac_vent \in {0, 1}
  /\ PORTC \subseteq RelayPins
  /\ h_since \in 0 .. cnt0end
  /\ h_wrong \in Nat
  /\ h_commanded \in {0, 1}

InitInputs ==
  /\ adc0_valid = 0
  /\ adc0_temp = 0
  /\ desired_temp = 20 * Degree
  /\ rot_enc_change = 0

InitFlags ==
  /\ hvac_flag_sys = 1
  /\ hvac_flag_auto = 1
  /\ hvac_flag_heat_src = 1
  /\ hvac_heat_flag = 1
  /\ hvac_ac_flag = 1
  /\ hvac_vent_flag = 1

(* The count starts one short of cnt0end, so that the first average taken  *)
(* after power-up can start the equipment at once.                         *)
InitRelays ==
  /\ relays_cnt0 = cnt0end - 1
  /\ hvac_heat = 0
  /\ hvac_ac = 0
  /\ hvac_vent = 0
  /\ PORTC = {}
  /\ h_since = cnt0end - 1
  /\ h_wrong = 0
  /\ h_commanded = 0

Init == InitInputs /\ InitFlags /\ InitRelays
-----------------------------------------------------------------------------
(* control_relays.                                                         *)

temp_difference == adc0_temp - desired_temp
TooCold == temp_difference <= -Degree
TooWarm == temp_difference >= 5 * Degree

(* Faulty variant: raises the pins of one component and lowers no other.   *)
Drive_NoClear(clear, set) == PORTC' = PORTC \cup set

(* The single writes to the register, each of one bit, are taken together: *)
(* between two of them, less than a microsecond apart, pins may overlap    *)
(* (relays.c:75-78 raises bit 0 before it lowers the others).              *)
Drive(clear, set) == PORTC' = (PORTC \ clear) \cup set

(* Faulty variant: a count that is not restarted.                          *)
CountTowards_NoReset(heat, ac) ==
  LET n == (relays_cnt0 + 1) % WordMod IN
  /\ relays_cnt0' = n
  /\ hvac_heat' = IF n = cnt0end THEN heat ELSE hvac_heat
  /\ hvac_ac' = IF n = cnt0end THEN ac ELSE hvac_ac
  /\ UNCHANGED hvac_vent

(* One more pass outside the band: the demand changes only when the count  *)
(* is complete.                                                            *)
CountTowards(heat, ac) ==
  LET n == (relays_cnt0 + 1) % WordMod IN
  \/ /\ n = cnt0end
     /\ relays_cnt0' = 0
     /\ hvac_heat' = heat
     /\ hvac_ac' = ac
     /\ hvac_vent' = 0
  \/ /\ n # cnt0end
     /\ relays_cnt0' = n
     /\ UNCHANGED demands

(* Faulty variant: back in the band the demand stands.                     *)
UpdateDemand_Sticky ==
  \/ TooCold /\ CountTowards(1, 0)
  \/ TooWarm /\ CountTowards(0, 1)
  \/ ~TooCold /\ ~TooWarm /\ UNCHANGED <<relays_cnt0, demands>>

UpdateDemand ==
  \/ TooCold /\ CountTowards(1, 0)
  \/ TooWarm /\ CountTowards(0, 1)
  \/ /\ ~TooCold
     /\ ~TooWarm
     /\ hvac_heat' = 0
     /\ hvac_ac' = 0
     /\ hvac_vent' = 0
     /\ UNCHANGED relays_cnt0

Wanted(flag, demand) == flag = 1 /\ (demand = 1 \/ hvac_flag_auto = 0)

(* The first component that is wanted, in the order heating, cooling and   *)
(* ventilation, takes the pins.                                            *)
DrivePins ==
  LET heat == Wanted(hvac_heat_flag, hvac_heat')
      ac   == Wanted(hvac_ac_flag, hvac_ac')
      vent == Wanted(hvac_vent_flag, hvac_vent')
  IN  \/ heat /\ hvac_flag_heat_src = 1 /\ Drive({0, 6}, {1, 7})
      \/ heat /\ hvac_flag_heat_src = 2 /\ Drive({1, 6, 7}, {0})
      \/ ~heat /\ ac /\ Drive({0, 1}, {6, 7})
      \/ ~heat /\ ~ac /\ vent /\ Drive({0, 1, 6}, {7})
      \/ ~heat /\ ~ac /\ ~vent /\ Drive({0, 1, 6, 7}, {})

DemandRaised == \/ hvac_heat = 0 /\ hvac_heat' = 1
                \/ hvac_ac = 0 /\ hvac_ac' = 1

(* In automatic mode the relays cool a room that is too cold or heat one   *)
(* that is too warm.                                                       *)
Opposed == /\ hvac_flag_auto = 1
           /\ \/ TooCold /\ 6 \in PORTC'
              \/ TooWarm /\ PORTC' \cap {0, 1} # {}

RecordHistory ==
  /\ h_commanded' = 0
  /\ h_wrong' = IF Opposed THEN h_wrong + 1 ELSE 0
  /\ h_since' = IF DemandRaised THEN 0
                ELSE IF (TooCold \/ TooWarm) /\ h_since < cnt0end
                     THEN h_since + 1
                     ELSE h_since

NotReady ==
  /\ adc0_valid = 0
  /\ UNCHANGED vars

(* Faulty variants: the count preloaded as it is at power-up, and the hold *)
(* of the dial tested first.                                               *)
SystemOff_Preload ==
  /\ adc0_valid # 0
  /\ hvac_flag_sys = 0
  /\ Drive(RelayPins, {})
  /\ relays_cnt0' = cnt0end - 1
  /\ h_wrong' = 0
  /\ UNCHANGED <<inputs, flags, demands, h_since, h_commanded>>

SystemOff_AfterHold ==
  /\ adc0_valid # 0
  /\ hvac_flag_sys = 0
  /\ IF rot_enc_change = 1
     THEN UNCHANGED <<relays_cnt0, PORTC, h_wrong>>
     ELSE Drive(RelayPins, {}) /\ relays_cnt0' = 0 /\ h_wrong' = 0
  /\ UNCHANGED <<inputs, flags, demands, h_since, h_commanded>>

(* The relays go off, which ends every run against the temperature.  The   *)
(* count is thrown away and the demand is kept: switched on again, the     *)
(* system obeys it, and counts from nothing.                               *)
SystemOff ==
  /\ adc0_valid # 0
  /\ hvac_flag_sys = 0
  /\ Drive(RelayPins, {})
  /\ relays_cnt0' = 0
  /\ h_wrong' = 0
  /\ UNCHANGED <<inputs, flags, demands, h_since, h_commanded>>

(* Faulty variant: the count starts again whenever the dial is used.       *)
HoldForDial_Restart ==
  /\ adc0_valid # 0
  /\ hvac_flag_sys # 0
  /\ rot_enc_change = 1
  /\ relays_cnt0' = 0
  /\ UNCHANGED <<inputs, flags, demands, PORTC, h_since, h_wrong,
                 h_commanded>>

HoldForDial ==
  /\ adc0_valid # 0
  /\ hvac_flag_sys # 0
  /\ rot_enc_change = 1
  /\ UNCHANGED vars

Evaluate ==
  /\ adc0_valid # 0
  /\ hvac_flag_sys # 0
  /\ rot_enc_change # 1
  /\ UpdateDemand
  /\ DrivePins
  /\ RecordHistory
  /\ UNCHANGED <<inputs, flags>>

ControlRelays == NotReady \/ SystemOff \/ HoldForDial \/ Evaluate
-----------------------------------------------------------------------------
(* The web command "3Fhvac".  Any other character changes nothing.         *)

(* Faulty variant: the flag is counted up instead of inverted.             *)
ToggleSystem_Increment ==
  /\ hvac_flag_sys' = hvac_flag_sys + 1
  /\ UNCHANGED <<hvac_flag_auto, hvac_flag_heat_src,
                 hvac_heat_flag, hvac_ac_flag, hvac_vent_flag>>

ToggleSystem ==
  /\ hvac_flag_sys' = 1 - hvac_flag_sys
  /\ UNCHANGED <<hvac_flag_auto, hvac_flag_heat_src,
                 hvac_heat_flag, hvac_ac_flag, hvac_vent_flag>>

ToggleComponent(v) ==
  /\ \/ /\ v = "1"
        /\ hvac_heat_flag' = 1 - hvac_heat_flag
        /\ UNCHANGED <<hvac_ac_flag, hvac_vent_flag>>
     \/ /\ v = "2"
        /\ hvac_vent_flag' = 1 - hvac_vent_flag
        /\ UNCHANGED <<hvac_heat_flag, hvac_ac_flag>>
     \/ /\ v = "3"
        /\ hvac_ac_flag' = 1 - hvac_ac_flag
        /\ UNCHANGED <<hvac_heat_flag, hvac_vent_flag>>
  /\ UNCHANGED <<hvac_flag_sys, hvac_flag_auto, hvac_flag_heat_src>>

ChooseSource(src) ==
  /\ hvac_flag_heat_src' = src
  /\ UNCHANGED <<hvac_flag_sys, hvac_flag_auto,
                 hvac_heat_flag, hvac_ac_flag, hvac_vent_flag>>

(* Automatic mode switches the three components on, manual mode off.       *)
ChooseMode(auto) ==
  /\ hvac_flag_auto' = auto
  /\ hvac_heat_flag' = auto
  /\ hvac_ac_flag' = auto
  /\ hvac_vent_flag' = auto
  /\ UNCHANGED <<hvac_flag_sys, hvac_flag_heat_src>>

HvacPost ==
  /\ \/ ToggleSystem
     \/ \E v \in {"1", "2", "3"} : ToggleComponent(v)
     \/ \E src \in {1, 2} : ChooseSource(src)
     \/ \E auto \in {0, 1} : ChooseMode(auto)
  /\ h_commanded' = 1
  /\ UNCHANGED <<inputs, control>>
-----------------------------------------------------------------------------
(* The components this one reads from.                                     *)

SensorPublish ==
  /\ adc0_valid' = 1
  /\ adc0_temp' \in Temps
  /\ UNCHANGED <<desired_temp, rot_enc_change, flags, relays>>

AdjustSetpoint ==
  /\ desired_temp' \in Setpoints
  /\ rot_enc_change' \in {0, 1}
  /\ UNCHANGED <<adc0_valid, adc0_temp, flags, relays>>

Next == ControlRelays \/ HvacPost \/ SensorPublish \/ AdjustSetpoint

Spec == Init /\ [][Next]_vars

(* The main loop calls control_relays on every pass.                       *)
FairSpec == Spec /\ WF_vars(ControlRelays)
-----------------------------------------------------------------------------
(* The pins never ask for heating and cooling together, the cooling coil   *)
(* and the primary heater never run without the fan, and the secondary     *)
(* heater never with it (relays.c:64-104).                                 *)
Interlock ==
  /\ 6 \in PORTC => PORTC \cap {0, 1} = {}
  /\ PORTC \cap {1, 6} # {} => 7 \in PORTC
  /\ 0 \in PORTC => PORTC = {0}

(* The equality test on relays_cnt0 is never stepped over: were the count  *)
(* ever at or past cnt0end it would have to wrap round the WORD before a   *)
(* demand could change again (relays.c:41-42, 51-52).                      *)
CountBelowEnd == relays_cnt0 < cnt0end

(* In automatic mode the relays never work against the temperature, cool a *)
(* room that is too cold or heat one that is too warm, for as many as      *)
(* cnt0end evaluations on end; holds of the dial do not interrupt the      *)
(* count (relays.c:38-58).  Switching the system off ends such a run, and  *)
(* throws away the count but not the demand (relays.c:26-33): switched on  *)
(* again, the relays may begin another run of the same length.             *)
WrongWayBounded == h_wrong < cnt0end

(* By itself the controller starts no equipment early: unless a command    *)
(* has changed a switch since the last evaluation, a relay is only raised  *)
(* when cnt0end passes have been spent outside the band since a demand was *)
(* last raised, whatever the dial, earlier commands and the system switch  *)
(* have done to the count (relays.c:31, 41-57).  A command restarts        *)
(* equipment at once: switching the system, a component, the mode or the   *)
(* source off and on obeys the demand that was kept.                       *)
Raised == PORTC' \ PORTC # {}
StartsSpaced ==
  [][Raised => h_commanded = 1 \/ h_since + 1 >= cnt0end]_vars

(* For a room that stays too cold heating is in the end demanded, for one  *)
(* that stays too warm cooling, and for a room that stays in the band      *)
(* nothing (relays.c:40-62).  Whether the demand reaches a relay is for    *)
(* the switches to say.                                                    *)
Regulating == adc0_valid = 1 /\ hvac_flag_sys = 1 /\ rot_enc_change = 0
DemandServed ==
  /\ <>[](Regulating /\ TooCold) => <>[](hvac_heat = 1 /\ hvac_ac = 0)
  /\ <>[](Regulating /\ TooWarm) => <>[](hvac_ac = 1 /\ hvac_heat = 0)
  /\ <>[](Regulating /\ ~TooCold /\ ~TooWarm) => <>[](hvac_heat + hvac_ac = 0)

(* Every relay pin that control_relays raises is an output of the port, as *)
(* the four relay interfaces of the technical report require (main.c:98).  *)
RelayPinsAreOutputs == PORTC \subseteq DDRC
=============================================================================
