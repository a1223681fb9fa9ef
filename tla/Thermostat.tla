----------------------------- MODULE Thermostat -----------------------------
(***************************************************************************)
(* The control side of the thermostat: the main loop of src/src/main.c,    *)
(* which serves at most one web request, takes a temperature reading,      *)
(* refreshes the display, checks the dial and controls the relays, in this *)
(* order and without end, while the dial interrupts it at any point.       *)
(*                                                                         *)
(* The dial is the one of RotaryEncoder, turned at any speed, and the      *)
(* relay controller the one of Relays; they share the setpoint and the     *)
(* flag that holds the relays while the setpoint is being adjusted.        *)
(***************************************************************************)
EXTENDS Integers

CONSTANTS cnt0end, WordMod, Click, Temps, Setpoints,
          T0Debounce, T0Mod, T1Window, T1Mod, MinLoop, MaxLoop,
          MaxInputs,
          MaxPosts     \* bound: switch commands considered

VARIABLES adc0_valid, adc0_temp, desired_temp, rot_enc_change,
          hvac_flag_sys, hvac_flag_auto, hvac_flag_heat_src,
          hvac_heat_flag, hvac_ac_flag, hvac_vent_flag,
          relays_cnt0, hvac_heat, hvac_ac, hvac_vent, PORTC,
          h_since, h_wrong, h_commanded,
          rot_enc_flag, TCNT0, TCNT1, elapsed,
          phase, turn, bounce, released,
          h_asked, h_inputs, h_phantoms, h_stale,
          pc,         \* the call the main loop makes next, or where it is
                      \* in check_rotary
          h_posts     \* history: switch commands served

(* Where check_rotary is left by the interrupt or the clock.               *)
InCheckRotary == {"stepUp", "stepDown", "expiry", "clearChange", "clearTimer"}
Calls == {"server_process", "adc0_data", "check_rotary", "control_relays"}

Rel == INSTANCE Relays
Rot == INSTANCE RotaryEncoder
         WITH at <- IF pc \in InCheckRotary THEN pc ELSE "elsewhere"

(* The setpoints that as many clicks and commands as are considered reach. *)
Reach == {20 * Rel!Degree + Click * k : k \in -MaxInputs .. MaxInputs}

ASSUME ThermostatAssumption ==
  /\ Rel!RelaysAssumption
  /\ Rot!RotaryAssumption
  /\ Reach \subseteq Setpoints
  /\ MaxPosts \in Nat

(* What belongs to one component only.                                     *)
sensorOnly == <<adc0_valid, adc0_temp>>
relaysOnly == <<hvac_flag_sys, hvac_flag_auto, hvac_flag_heat_src,
                hvac_heat_flag, hvac_ac_flag, hvac_vent_flag,
                relays_cnt0, hvac_heat, hvac_ac, hvac_vent, PORTC,
                h_since, h_wrong, h_commanded>>
dialOnly   == <<rot_enc_flag, TCNT0, TCNT1, elapsed,
                phase, turn, bounce, released,
                h_asked, h_inputs, h_phantoms, h_stale>>
vars == <<sensorOnly, relaysOnly, dialOnly, desired_temp, rot_enc_change,
          pc, h_posts>>

TypeOK ==
  /\ Rel!TypeOK
  /\ Rot!TypeOK
  /\ pc \in InCheckRotary \cup Calls
  /\ h_posts \in 0 .. MaxPosts

Init ==
  /\ pc = "server_process"
  /\ Rel!Init
  /\ Rot!Init
  /\ h_posts = 0
-----------------------------------------------------------------------------
(* server_process: no request, a command that moves the setpoint, or one   *)
(* that changes the switches.                                              *)
ServeNothing ==
  /\ pc = "server_process"
  /\ pc' = "adc0_data"
  /\ UNCHANGED <<sensorOnly, relaysOnly, dialOnly, desired_temp,
                 rot_enc_change, h_posts>>

(* Faulty variant: a command that moves the setpoint restarts the count of *)
(* the relay controller.                                                   *)
ServeSetpoint_Recount ==
  /\ pc = "server_process"
  /\ pc' = "adc0_data"
  /\ Rot!SubPost
  /\ relays_cnt0' = 0
  /\ UNCHANGED <<sensorOnly, hvac_flag_sys, hvac_flag_auto,
                 hvac_flag_heat_src, hvac_heat_flag, hvac_ac_flag,
                 hvac_vent_flag, hvac_heat, hvac_ac, hvac_vent, PORTC,
                 h_since, h_wrong, h_commanded, h_posts>>

ServeSetpoint ==
  /\ pc = "server_process"
  /\ pc' = "adc0_data"
  /\ Rot!SubPost
  /\ UNCHANGED <<sensorOnly, relaysOnly, h_posts>>

ServeSwitches ==
  /\ pc = "server_process"
  /\ pc' = "adc0_data"
  /\ h_posts < MaxPosts
  /\ h_posts' = h_posts + 1
  /\ Rel!HvacPost
  /\ UNCHANGED dialOnly

(* Faulty variant: a new average takes the setpoint out of view.           *)
Measure_CloseView ==
  /\ pc = "adc0_data"
  /\ pc' = "check_rotary"
  /\ \/ /\ adc0_valid' = 1
        /\ adc0_temp' \in Temps
        /\ rot_enc_change' = 0
     \/ UNCHANGED <<sensorOnly, rot_enc_change>>
  /\ UNCHANGED <<relaysOnly, dialOnly, desired_temp, h_posts>>

(* adc0_data: a reading that completes an average, or one that does not.   *)
Measure ==
  /\ pc = "adc0_data"
  /\ pc' = "check_rotary"
  /\ \/ Rel!SensorPublish
     \/ UNCHANGED <<sensorOnly, relaysOnly, desired_temp, rot_enc_change>>
  /\ UNCHANGED <<dialOnly, h_posts>>

check_rotary ==
  /\ pc \in {"check_rotary"} \cup InCheckRotary
  /\ pc' \in InCheckRotary \cup {"control_relays"}
  /\ Rot!CheckRotary
  /\ UNCHANGED <<sensorOnly, relaysOnly, h_posts>>

control_relays ==
  /\ pc = "control_relays"
  /\ pc' = "server_process"
  /\ Rel!ControlRelays
  /\ UNCHANGED <<dialOnly, h_posts>>

MainLoop == \/ ServeNothing \/ ServeSetpoint \/ ServeSwitches
            \/ Measure \/ check_rotary \/ control_relays

TurnDial == UNCHANGED <<sensorOnly, relaysOnly, pc, h_posts>> /\ Rot!Turn
Tick     == UNCHANGED <<sensorOnly, relaysOnly, pc, h_posts>> /\ Rot!Tick

Next == MainLoop \/ TurnDial \/ Tick

Spec == Init /\ [][Next]_vars

(* The main loop and the clock never stop.                                 *)
FairSpec == Spec /\ WF_vars(MainLoop) /\ WF_vars(Tick)
-----------------------------------------------------------------------------
(* Each component behaves as its own module says, within the freedom that  *)
(* module leaves to the others.                                            *)
DialPart   == Rot!Spec
RelaysPart == Rel!Spec

(* "The HVAC system button will shut down completely all heating, cooling  *)
(* and ventilation": when the main loop comes round to the next request,   *)
(* a system switched off has no relay on, even in the middle of a setpoint *)
(* adjustment, which otherwise holds the relays (relays.c:26-36).          *)
OffWithinPass ==
  pc = "server_process" /\ hvac_flag_sys = 0 => PORTC = {}

(* For a room that stays too cold while the system is on, heating is in    *)
(* the end demanded: when the user leaves the dial and the page alone, the *)
(* view of the setpoint closes and does not hold the relays for ever.      *)
(* Whether the demand reaches a relay is for the switches to say.          *)
ColdRoomHeated ==
  <>[](adc0_valid = 1 /\ hvac_flag_sys = 1 /\ Rel!TooCold)
     => <>[](hvac_heat = 1)
=============================================================================
