-------------------------- MODULE ThermostatProofs --------------------------
(***************************************************************************)
(* Proofs about Thermostat, for every instance its assumption admits: its  *)
(* types, that the relays are off within a pass of the main loop of the    *)
(* system being switched off, and that the composition implements each of  *)
(* the two components it is made of.                                       *)
(***************************************************************************)
EXTENDS Thermostat, TLAPS

LEMMA Constants ==
  /\ Click \in Nat /\ MaxInputs \in Nat /\ MaxLoop \in Nat
  /\ T0Mod \in Nat \ {0} /\ T1Mod \in Nat \ {0} /\ WordMod \in Nat \ {0}
  /\ cnt0end \in Nat \ {0}
  /\ Reach \subseteq Setpoints
BY ThermostatAssumption DEF Rel!RelaysAssumption, Rot!RotaryAssumption

(* The setpoint is as many clicks away from 20 degrees as clicks and       *)
(* commands have been taken, at most.                                      *)
SetpointInv ==
  \E k \in -(h_inputs - rot_enc_flag) .. (h_inputs - rot_enc_flag) :
    desired_temp = 20 * Rel!Degree + Click * k

(* A click that is being taken still waits.                                *)
StepInv == pc \in {"stepUp", "stepDown"} => rot_enc_flag = 1

(* No relay is on before the first average, and none is on at the start of *)
(* a pass when the system is off.                                          *)
OffInv ==
  /\ adc0_valid = 0 => PORTC = {}
  /\ OffWithinPass

IInv == TypeOK /\ SetpointInv /\ StepInv /\ OffInv
-----------------------------------------------------------------------------
(* The dial.                                                               *)

LEMMA ModType ==
  ASSUME NEW n \in Nat, NEW m \in Nat \ {0}
  PROVE  n % m \in 0 .. m - 1
OBVIOUS

(* One click more or less, for one input more.                             *)
LEMMA OneMoreClick ==
  ASSUME Rot!TypeOK, SetpointInv, NEW d \in {1, -1},
         desired_temp' = desired_temp + d * Click,
         h_inputs' - rot_enc_flag' = h_inputs - rot_enc_flag + 1
  PROVE  SetpointInv'
<1> DEFINE n == h_inputs - rot_enc_flag
<1>1. n \in Int
  BY DEF Rot!TypeOK
<1>2. PICK k \in -n .. n : desired_temp = 20 * Rel!Degree + Click * k
  BY DEF SetpointInv
<1>3. k + d \in -(n + 1) .. (n + 1)
  BY <1>1
<1>4. Click * (k + d) = Click * k + d * Click
  BY Constants
<1>5. Click * k \in Int /\ d * Click \in Int /\ 20 * Rel!Degree \in Int
  BY Constants DEF Rel!Degree
<1>6. desired_temp' = 20 * Rel!Degree + Click * (k + d)
  BY <1>2, <1>4, <1>5
<1>7. QED BY <1>3, <1>6 DEF SetpointInv

LEMMA SetpointUnchanged ==
  ASSUME SetpointInv, UNCHANGED desired_temp,
         h_inputs' - rot_enc_flag' = h_inputs - rot_enc_flag
  PROVE  SetpointInv'
BY DEF SetpointInv

LEMMA CheckRotaryDial ==
  ASSUME Rot!TypeOK, SetpointInv, StepInv, Rot!CheckRotary
  PROVE  Rot!TypeOK' /\ SetpointInv' /\ StepInv'
<1> USE DEF Rot!TypeOK, Rot!Labels, Rot!timers, Rot!dial, Rot!contact,
            Rot!history, Rot!asked, StepInv, InCheckRotary
<1>1. CASE Rot!Sample
  <2>1. Rot!TypeOK' /\ StepInv'
    BY <1>1, Constants DEF Rot!Sample, Rot!Readable
  <2>2. QED BY <1>1, <2>1, SetpointUnchanged DEF Rot!Sample
<1>2. CASE Rot!Step
  <2>1. PICK d \in {1, -1} : desired_temp' = desired_temp + d * Click
    BY <1>2, Constants DEF Rot!Step
  <2>2. rot_enc_flag = 1 /\ rot_enc_flag' = 0 /\ h_inputs' = h_inputs
    BY <1>2 DEF Rot!Step
  <2>3. SetpointInv'
    BY <2>1, <2>2, OneMoreClick
  <2>4. Rot!TypeOK' /\ StepInv'
    BY <1>2, <2>1, Constants DEF Rot!Step
  <2>5. QED BY <2>3, <2>4
<1>3. CASE Rot!CheckWindow \/ Rot!ClearChange \/ Rot!ClearTimer
  <2>1. Rot!TypeOK' /\ StepInv'
    BY <1>3, Constants DEF Rot!CheckWindow, Rot!ClearChange, Rot!ClearTimer
  <2>2. QED BY <1>3, <2>1, SetpointUnchanged
            DEF Rot!CheckWindow, Rot!ClearChange, Rot!ClearTimer
<1>4. QED BY <1>1, <1>2, <1>3 DEF Rot!CheckRotary

LEMMA TurnDialDial ==
  ASSUME Rot!TypeOK, SetpointInv, StepInv, TurnDial
  PROVE  Rot!TypeOK' /\ SetpointInv' /\ StepInv'
<1>1. Rot!Turn /\ UNCHANGED pc
  BY DEF TurnDial
<1>2. PICK to \in 0 .. 3 : Rot!Move(to)
  <2>1. CASE phase = 0
    BY <1>1, <2>1 DEF Rot!Turn, Rot!Towards
  <2>2. CASE phase # 0
    <3>1. Rot!Adjacent(phase) \subseteq 0 .. 3
      BY DEF Rot!Adjacent, Rot!TypeOK
    <3>2. QED BY <1>1, <2>2, <3>1 DEF Rot!Turn
  <2>3. QED BY <2>1, <2>2
<1>3. /\ rot_enc_flag' \in {0, 1} /\ rot_enc_change' \in {0, 1}
      /\ TCNT0' \in 0 .. T0Mod - 1 /\ TCNT1' \in 0 .. T1Mod - 1
      /\ rot_enc_flag = 1 => rot_enc_flag' = 1
  BY <1>2, Constants DEF Rot!Move, Rot!ISR, Rot!TypeOK, Rot!timers
<1>4. /\ turn' \in {1, -1} /\ UNCHANGED <<Rot!contact, h_phantoms, h_stale>>
      /\ h_inputs' \in 0 .. MaxInputs /\ h_asked' \in Int
      /\ h_inputs' - rot_enc_flag' = h_inputs - rot_enc_flag
  <2>1. CASE phase = 0
    <3>1. PICK d \in {1, -1} :
            /\ Rot!Move(Rot!Towards(d))
            /\ turn' = d
            /\ IF rot_enc_flag = 0 THEN Rot!Ask(d)
                                  ELSE UNCHANGED Rot!history
      BY <1>1, <2>1 DEF Rot!Turn
    <3>2. rot_enc_flag' = 1 /\ UNCHANGED Rot!contact
      BY <1>1, <1>3, <2>1, <3>1 DEF Rot!Turn, Rot!Move, Rot!ISR, Rot!TypeOK
    <3>3. QED BY <3>1, <3>2, Constants
              DEF Rot!Ask, Rot!history, Rot!asked, Rot!contact, Rot!TypeOK
  <2>2. CASE phase # 0
    BY <1>1, <2>2 DEF Rot!Turn, Rot!Move, Rot!history, Rot!asked, Rot!TypeOK
  <2>3. QED BY <2>1, <2>2
<1>5. Rot!TypeOK' /\ StepInv'
  BY <1>1, <1>2, <1>3, <1>4
     DEF Rot!Move, Rot!TypeOK, Rot!Settled, Rot!contact, StepInv
<1>6. QED BY <1>2, <1>4, <1>5, SetpointUnchanged DEF Rot!Move

LEMMA TickDial ==
  ASSUME Rot!TypeOK, SetpointInv, StepInv, Tick
  PROVE  Rot!TypeOK' /\ SetpointInv' /\ StepInv'
<1>1. /\ (TCNT0 + 1) % T0Mod \in 0 .. T0Mod - 1
      /\ (TCNT1 + 1) % T1Mod \in 0 .. T1Mod - 1
  BY ModType, Constants DEF Rot!TypeOK
<1>2. Rot!TypeOK' /\ StepInv'
  BY <1>1, Constants
     DEF Tick, Rot!Tick, Rot!Advance, Rot!TypeOK, Rot!history, Rot!asked,
         Rot!contact, Rot!Settled, StepInv
<1>3. QED BY <1>2, SetpointUnchanged
          DEF Tick, Rot!Tick, Rot!Advance, Rot!history, Rot!asked

LEMMA SubPostDial ==
  ASSUME Rot!TypeOK, SetpointInv, Rot!SubPost
  PROVE  Rot!TypeOK' /\ SetpointInv'
<1>1. PICK d \in {1, -1} :
        Rot!Ask(d) /\ desired_temp' = desired_temp + d * Click
  BY DEF Rot!SubPost
<1>2. h_inputs' - rot_enc_flag' = h_inputs - rot_enc_flag + 1
  BY <1>1 DEF Rot!SubPost, Rot!Ask, Rot!TypeOK
<1>3. Rot!TypeOK'
  BY <1>1, Constants
     DEF Rot!SubPost, Rot!Ask, Rot!TypeOK, Rot!dial, Rot!contact, Rot!Settled
<1>4. QED BY <1>1, <1>2, <1>3, OneMoreClick

(* The setpoint is always one that the relay controller is made for.       *)
LEMMA SetpointInReach ==
  ASSUME Rot!TypeOK, SetpointInv
  PROVE  desired_temp \in Setpoints
<1>1. PICK k \in -(h_inputs - rot_enc_flag) .. (h_inputs - rot_enc_flag) :
        desired_temp = 20 * Rel!Degree + Click * k
  BY DEF SetpointInv
<1>2. k \in -MaxInputs .. MaxInputs
  BY <1>1, Constants DEF Rot!TypeOK
<1>3. QED BY <1>1, <1>2, Constants DEF Reach
-----------------------------------------------------------------------------
(* The relay controller.                                                   *)

(* What control_relays leaves: demands and count of their types, and pins  *)
(* that stay off before the first average and go off with the system.      *)
LEMMA ControlRelaysPins ==
  ASSUME Rel!TypeOK, OffInv, Rel!ControlRelays
  PROVE  /\ PORTC' \subseteq Rel!RelayPins
         /\ adc0_valid = 0 \/ hvac_flag_sys = 0 => PORTC' = {}
<1>1. CASE Rel!NotReady
  BY <1>1 DEF Rel!NotReady, OffInv, Rel!TypeOK, Rel!vars, Rel!relays,
              Rel!control
<1>2. CASE Rel!SystemOff
  BY <1>2 DEF Rel!SystemOff, Rel!Drive, Rel!TypeOK
<1>3. CASE Rel!HoldForDial
  BY <1>3 DEF Rel!HoldForDial, Rel!TypeOK, Rel!vars, Rel!relays,
              Rel!control
<1>4. CASE Rel!Evaluate
  <2>1. PORTC' \subseteq PORTC \cup {0, 1, 6, 7}
    BY <1>4 DEF Rel!Evaluate, Rel!DrivePins, Rel!Drive
  <2>2. QED BY <1>4, <2>1 DEF Rel!Evaluate, Rel!TypeOK, Rel!RelayPins
<1>5. QED BY <1>1, <1>2, <1>3, <1>4 DEF Rel!ControlRelays

LEMMA EvaluateType ==
  ASSUME Rel!TypeOK, Rel!Evaluate
  PROVE  /\ relays_cnt0' \in 0 .. WordMod - 1
         /\ hvac_heat' \in {0, 1} /\ hvac_ac' \in {0, 1} /\ hvac_vent' \in {0, 1}
         /\ h_since' \in 0 .. cnt0end /\ h_wrong' \in Nat
         /\ h_commanded' \in {0, 1}
<1>1. (relays_cnt0 + 1) % WordMod \in 0 .. WordMod - 1
  BY ModType, Constants DEF Rel!TypeOK
<1>2. Rel!UpdateDemand /\ Rel!RecordHistory
  BY DEF Rel!Evaluate
<1>3. \A heat \in {0, 1}, ac \in {0, 1} :
        Rel!CountTowards(heat, ac)
          => /\ relays_cnt0' \in 0 .. WordMod - 1
             /\ hvac_heat' \in {0, 1} /\ hvac_ac' \in {0, 1}
             /\ hvac_vent' \in {0, 1}
  BY <1>1, Constants DEF Rel!CountTowards, Rel!TypeOK, Rel!demands
<1>4. /\ relays_cnt0' \in 0 .. WordMod - 1
      /\ hvac_heat' \in {0, 1} /\ hvac_ac' \in {0, 1} /\ hvac_vent' \in {0, 1}
  BY <1>2, <1>3 DEF Rel!UpdateDemand, Rel!TypeOK
<1>5. h_since' \in 0 .. cnt0end /\ h_wrong' \in Nat /\ h_commanded' \in {0, 1}
  BY <1>2, Constants DEF Rel!RecordHistory, Rel!TypeOK
<1>6. QED BY <1>4, <1>5

LEMMA ControlRelaysType ==
  ASSUME Rel!TypeOK, OffInv, Rel!ControlRelays
  PROVE  Rel!TypeOK'
<1>1. PORTC' \subseteq Rel!RelayPins
  BY ControlRelaysPins
<1>2. CASE Rel!NotReady \/ Rel!HoldForDial
  BY <1>1, <1>2 DEF Rel!NotReady, Rel!HoldForDial, Rel!TypeOK, Rel!vars,
                    Rel!inputs, Rel!flags, Rel!relays, Rel!control,
                    Rel!demands
<1>3. CASE Rel!SystemOff
  BY <1>1, <1>3, Constants
     DEF Rel!SystemOff, Rel!TypeOK, Rel!inputs, Rel!flags, Rel!demands
<1>4. CASE Rel!Evaluate
  <2>1. UNCHANGED <<Rel!inputs, Rel!flags>>
    BY <1>4 DEF Rel!Evaluate
  <2>2. QED BY <1>1, <1>4, <2>1, EvaluateType
            DEF Rel!TypeOK, Rel!inputs, Rel!flags
<1>5. QED BY <1>2, <1>3, <1>4 DEF Rel!ControlRelays

LEMMA HvacPostType ==
  ASSUME Rel!TypeOK, Rel!HvacPost
  PROVE  Rel!TypeOK'
<1>1. UNCHANGED <<Rel!inputs, Rel!control>> /\ h_commanded' = 1
  BY DEF Rel!HvacPost
<1>2. /\ hvac_flag_sys' \in {0, 1} /\ hvac_flag_auto' \in {0, 1}
      /\ hvac_flag_heat_src' \in {1, 2} /\ hvac_heat_flag' \in {0, 1}
      /\ hvac_ac_flag' \in {0, 1} /\ hvac_vent_flag' \in {0, 1}
  <2>1. CASE Rel!ToggleSystem
    BY <2>1 DEF Rel!ToggleSystem, Rel!TypeOK
  <2>2. CASE \E v \in {"1", "2", "3"} : Rel!ToggleComponent(v)
    BY <2>2 DEF Rel!ToggleComponent, Rel!TypeOK
  <2>3. CASE \E src \in {1, 2} : Rel!ChooseSource(src)
    BY <2>3 DEF Rel!ChooseSource, Rel!TypeOK
  <2>4. CASE \E auto \in {0, 1} : Rel!ChooseMode(auto)
    BY <2>4 DEF Rel!ChooseMode, Rel!TypeOK
  <2>5. QED BY <2>1, <2>2, <2>3, <2>4 DEF Rel!HvacPost
<1>3. QED BY <1>1, <1>2
          DEF Rel!TypeOK, Rel!inputs, Rel!control, Rel!demands
-----------------------------------------------------------------------------
(* The whole: one step of the main loop, the dial or the clock.            *)

(* A step that leaves the sensor and the relays alone.                     *)
LEMMA DialOnlyStep ==
  ASSUME Rel!TypeOK, UNCHANGED <<sensorOnly, relaysOnly>>,
         Rot!TypeOK', SetpointInv'
  PROVE  Rel!TypeOK'
<1>1. desired_temp' \in Setpoints
  <2>1. (Rot!TypeOK /\ SetpointInv => desired_temp \in Setpoints)'
    BY SetpointInReach, PTL
  <2>2. QED BY <2>1
<1>2. rot_enc_change' \in {0, 1}
  BY DEF Rot!TypeOK
<1>3. QED BY <1>1, <1>2 DEF Rel!TypeOK, sensorOnly, relaysOnly

LEMMA InitIInv == Init => IInv
<1> SUFFICES ASSUME Init PROVE IInv
  OBVIOUS
<1>1. Rel!TypeOK
  BY Constants, ThermostatAssumption
     DEF Init, Rel!Init, Rel!InitInputs, Rel!InitFlags, Rel!InitRelays,
         Rel!TypeOK, Rel!RelayPins, Rel!RelaysAssumption, Rel!Degree
<1>2. Rot!TypeOK
  BY Constants, ThermostatAssumption
     DEF Init, Rot!Init, Rot!TypeOK, Rot!Labels, Rot!Settled, Rot!Degree,
         InCheckRotary, Rot!RotaryAssumption
<1>3. SetpointInv
  <2>1. h_inputs = 0 /\ rot_enc_flag = 0
    BY DEF Init, Rot!Init
  <2>2. desired_temp = 20 * Rel!Degree + Click * 0
    BY Constants DEF Init, Rel!Init, Rel!InitInputs, Rel!Degree
  <2>3. QED BY <2>1, <2>2 DEF SetpointInv
<1>4. /\ pc \in InCheckRotary \cup Calls /\ h_posts \in 0 .. MaxPosts
      /\ StepInv /\ OffInv
  BY ThermostatAssumption
     DEF Init, Calls, StepInv, OffInv, OffWithinPass, Rel!Init,
         Rel!InitRelays
<1>5. QED BY <1>1, <1>2, <1>3, <1>4 DEF IInv, TypeOK

LEMMA MainLoopIInv == ASSUME IInv, MainLoop PROVE IInv'
<1> USE DEF IInv, TypeOK, Calls, InCheckRotary
<1>1. CASE ServeNothing
  <2>1. Rel!TypeOK'
    BY <1>1 DEF ServeNothing, Rel!TypeOK, sensorOnly, relaysOnly
  <2>2. Rot!TypeOK'
    BY <1>1 DEF ServeNothing, Rot!TypeOK, Rot!Labels, Rot!Settled, dialOnly
  <2>3. SetpointInv'
    BY <1>1, SetpointUnchanged DEF ServeNothing, dialOnly
  <2>4. QED BY <1>1, <2>1, <2>2, <2>3
            DEF ServeNothing, StepInv, OffInv, OffWithinPass, sensorOnly,
                relaysOnly
<1>2. CASE ServeSetpoint
  <2>1. Rot!TypeOK' /\ SetpointInv'
    BY <1>2, SubPostDial DEF ServeSetpoint
  <2>2. Rel!TypeOK'
    BY <1>2, <2>1, DialOnlyStep DEF ServeSetpoint
  <2>3. QED BY <1>2, <2>1, <2>2
            DEF ServeSetpoint, StepInv, OffInv, OffWithinPass, sensorOnly,
                relaysOnly
<1>3. CASE ServeSwitches
  <2>1. Rel!TypeOK'
    BY <1>3, HvacPostType DEF ServeSwitches
  <2>2. UNCHANGED <<desired_temp, rot_enc_change, adc0_valid, PORTC, dialOnly>>
    BY <1>3 DEF ServeSwitches, Rel!HvacPost, Rel!inputs, Rel!control
  <2>3. Rot!TypeOK'
    BY <1>3, <2>2
       DEF ServeSwitches, Rot!TypeOK, Rot!Labels, Rot!Settled, dialOnly
  <2>4. SetpointInv'
    BY <2>2, SetpointUnchanged DEF dialOnly
  <2>5. h_posts' \in 0 .. MaxPosts
    BY <1>3, ThermostatAssumption DEF ServeSwitches
  <2>6. QED BY <1>3, <2>1, <2>2, <2>3, <2>4, <2>5
            DEF ServeSwitches, StepInv, OffInv, OffWithinPass
<1>4. CASE Measure
  <2>1. UNCHANGED <<relaysOnly, dialOnly, desired_temp, rot_enc_change,
                    h_posts>>
    BY <1>4 DEF Measure, Rel!SensorPublish, Rel!flags, Rel!relays,
                Rel!control, Rel!demands, relaysOnly
  <2>2. \/ adc0_valid' = 1 /\ adc0_temp' \in Temps
        \/ UNCHANGED sensorOnly
    BY <1>4 DEF Measure, Rel!SensorPublish
  <2>3. Rel!TypeOK'
    BY <2>1, <2>2 DEF Rel!TypeOK, relaysOnly, sensorOnly
  <2>4. Rot!TypeOK'
    BY <1>4, <2>1 DEF Measure, Rot!TypeOK, Rot!Labels, Rot!Settled, dialOnly
  <2>5. SetpointInv'
    BY <2>1, SetpointUnchanged DEF dialOnly
  <2>6. QED BY <1>4, <2>1, <2>2, <2>3, <2>4, <2>5
            DEF Measure, StepInv, OffInv, OffWithinPass, relaysOnly, sensorOnly
<1>5. CASE check_rotary
  <2>1. Rot!TypeOK' /\ SetpointInv' /\ StepInv'
    BY <1>5, CheckRotaryDial DEF check_rotary
  <2>2. Rel!TypeOK'
    BY <1>5, <2>1, DialOnlyStep DEF check_rotary
  <2>3. QED BY <1>5, <2>1, <2>2
            DEF check_rotary, OffInv, OffWithinPass, sensorOnly, relaysOnly
<1>6. CASE control_relays
  <2>1. Rel!ControlRelays /\ UNCHANGED <<dialOnly, h_posts>>
    BY <1>6 DEF control_relays
  <2>2. Rel!TypeOK'
    BY <2>1, ControlRelaysType
  <2>3. UNCHANGED <<Rel!inputs, Rel!flags>>
    BY <2>1 DEF Rel!ControlRelays, Rel!NotReady, Rel!SystemOff,
                Rel!HoldForDial, Rel!Evaluate, Rel!vars
  <2>4. Rot!TypeOK'
    BY <1>6, <2>1, <2>3
       DEF control_relays, Rot!TypeOK, Rot!Labels, Rot!Settled, dialOnly,
           Rel!inputs
  <2>5. SetpointInv'
    BY <2>1, <2>3, SetpointUnchanged DEF dialOnly, Rel!inputs
  <2>6. OffInv'
    BY <2>1, <2>3, ControlRelaysPins
       DEF OffInv, OffWithinPass, Rel!inputs, Rel!flags
  <2>7. QED BY <1>6, <2>1, <2>2, <2>4, <2>5, <2>6
            DEF control_relays, StepInv
<1>7. QED BY <1>1, <1>2, <1>3, <1>4, <1>5, <1>6 DEF MainLoop

LEMMA NextIInv == ASSUME IInv, [Next]_vars PROVE IInv'
<1> USE DEF IInv, TypeOK
<1>1. CASE MainLoop
  BY <1>1, MainLoopIInv
<1>2. CASE TurnDial \/ Tick
  <2>1. Rot!TypeOK' /\ SetpointInv' /\ StepInv'
    BY <1>2, TurnDialDial, TickDial
  <2>2. UNCHANGED <<sensorOnly, relaysOnly, pc, h_posts>>
    BY <1>2 DEF TurnDial, Tick
  <2>3. Rel!TypeOK'
    BY <2>1, <2>2, DialOnlyStep
  <2>4. QED BY <2>1, <2>2, <2>3
            DEF OffInv, OffWithinPass, sensorOnly, relaysOnly
<1>3. CASE UNCHANGED vars
  <2>1. UNCHANGED <<sensorOnly, relaysOnly, dialOnly, desired_temp,
                    rot_enc_change, pc, h_posts>>
    BY <1>3 DEF vars
  <2>2. Rel!TypeOK'
    BY <2>1 DEF Rel!TypeOK, sensorOnly, relaysOnly
  <2>3. Rot!TypeOK'
    BY <2>1 DEF Rot!TypeOK, Rot!Labels, Rot!Settled, dialOnly
  <2>4. SetpointInv'
    BY <2>1, SetpointUnchanged DEF dialOnly
  <2>5. QED BY <2>1, <2>2, <2>3, <2>4
            DEF StepInv, OffInv, OffWithinPass, sensorOnly, relaysOnly,
                dialOnly
<1>4. QED BY <1>1, <1>2, <1>3 DEF Next

(* Setpoint, dial and pins agree between any two steps of the main loop.   *)
THEOREM InductiveInvariant == Spec => []IInv
<1>1. IInv /\ [Next]_vars => IInv'
  BY NextIInv
<1>2. QED BY InitIInv, <1>1, PTL DEF Spec

(* The main loop, the dial and the relay controller keep their types; the  *)
(* setpoint stays one that the relay controller is made for.               *)
THEOREM TypeCorrect == Spec => []TypeOK
<1>1. IInv => TypeOK
  BY DEF IInv
<1>2. QED BY <1>1, InductiveInvariant, PTL

(* When the main loop comes round, a system switched off has no relay on.  *)
THEOREM OffWithinOnePass == Spec => []OffWithinPass
<1>1. IInv => OffWithinPass
  BY DEF IInv, OffInv
<1>2. QED BY <1>1, InductiveInvariant, PTL
-----------------------------------------------------------------------------
(* The composition implements its components.                              *)

LEMMA DialStep == ASSUME IInv, [Next]_vars PROVE [Rot!Next]_(Rot!vars)
<1> DEFINE at == IF pc \in InCheckRotary THEN pc ELSE "elsewhere"
<1>1. CASE ServeNothing \/ ServeSwitches \/ Measure \/ control_relays
  <2>1. UNCHANGED <<dialOnly, desired_temp, rot_enc_change>>
    BY <1>1 DEF ServeNothing, ServeSwitches, Measure, control_relays,
                Rel!HvacPost, Rel!SensorPublish, Rel!ControlRelays,
                Rel!NotReady, Rel!SystemOff, Rel!HoldForDial, Rel!Evaluate,
                Rel!inputs, Rel!vars
  <2>2. at = "elsewhere" /\ at' = "elsewhere"
    BY <1>1 DEF ServeNothing, ServeSwitches, Measure, control_relays,
                InCheckRotary
  <2>3. QED BY <2>1, <2>2
            DEF dialOnly, Rot!vars, Rot!timers, Rot!dial, Rot!contact,
                Rot!history, Rot!asked
<1>2. CASE ServeSetpoint
  BY <1>2 DEF ServeSetpoint, Rot!Next
<1>3. CASE check_rotary
  BY <1>3 DEF check_rotary, Rot!Next
<1>4. CASE TurnDial
  BY <1>4 DEF TurnDial, Rot!Next
<1>5. CASE Tick
  BY <1>5 DEF Tick, Rot!Next
<1>6. CASE UNCHANGED vars
  BY <1>6 DEF vars, dialOnly, Rot!vars, Rot!timers, Rot!dial, Rot!contact,
              Rot!history, Rot!asked
<1>7. QED BY <1>1, <1>2, <1>3, <1>4, <1>5, <1>6 DEF Next, MainLoop

(* Between the calls of the main loop the dial of the composition does     *)
(* what the dial of RotaryEncoder does, and nothing else.                  *)
THEOREM ImplementsDial == Spec => DialPart
<1>1. Init => Rot!Init
  BY DEF Init
<1>2. IInv /\ [Next]_vars => [Rot!Next]_(Rot!vars)
  BY DialStep
<1>3. QED BY <1>1, <1>2, InductiveInvariant, PTL DEF Spec, DialPart, Rot!Spec

LEMMA RelaysStep == ASSUME IInv, IInv', [Next]_vars PROVE [Rel!Next]_(Rel!vars)
<1>1. desired_temp' \in Setpoints /\ rot_enc_change' \in {0, 1}
  BY DEF IInv, TypeOK, Rel!TypeOK
<1>2. CASE UNCHANGED <<sensorOnly, relaysOnly>>
  <2>1. Rel!AdjustSetpoint
    BY <1>1, <1>2 DEF Rel!AdjustSetpoint, Rel!flags, Rel!relays, Rel!control, Rel!demands,
                      sensorOnly, relaysOnly
  <2>2. QED BY <2>1 DEF Rel!Next
<1>3. CASE ServeSwitches
  BY <1>3 DEF ServeSwitches, Rel!Next
<1>4. CASE Measure
  <2>1. CASE Rel!SensorPublish
    BY <2>1 DEF Rel!Next
  <2>2. CASE UNCHANGED <<sensorOnly, relaysOnly, desired_temp, rot_enc_change>>
    BY <1>2, <2>2
  <2>3. QED BY <1>4, <2>1, <2>2 DEF Measure
<1>5. CASE control_relays
  BY <1>5 DEF control_relays, Rel!Next
<1>6. QED BY <1>2, <1>3, <1>4, <1>5
          DEF Next, MainLoop, ServeNothing, ServeSetpoint, check_rotary,
              TurnDial, Tick, vars

(* The relays of the composition are driven as Relays says, whatever the   *)
(* dial, the clock and the web commands do to the setpoint.                *)
THEOREM ImplementsRelays == Spec => RelaysPart
<1>1. Init => Rel!Init
  BY DEF Init
<1>2. IInv /\ IInv' /\ [Next]_vars => [Rel!Next]_(Rel!vars)
  BY RelaysStep
<1>3. QED BY <1>1, <1>2, InductiveInvariant, PTL DEF Spec, RelaysPart, Rel!Spec
-----------------------------------------------------------------------------
(* What was proved of each component alone holds of it in the composition. *)
(* The buttons and the hand that those proofs speak of play no part here.  *)
RelP == INSTANCE RelaysProofs
          WITH web_page <- 1, adc0_pwr_src <- 0, mac_filter <- 0, PORTB <- {}
RotP == INSTANCE RotaryProofs
          WITH at <- IF pc \in InCheckRotary THEN pc ELSE "elsewhere",
               hand <- "fast"

LEMMA RelAssumed == RelP!RelaysAssumption
BY ThermostatAssumption
   DEF Rel!RelaysAssumption, RelP!RelaysAssumption, Rel!Degree, RelP!Degree

LEMMA RotAssumed == RotP!RotaryAssumption
BY ThermostatAssumption DEF Rot!RotaryAssumption, RotP!RotaryAssumption

LEMMA RelSameNext == [Rel!Next]_(Rel!vars) => [RelP!Next]_(RelP!vars)
BY DEF
     Rel!inputs, RelP!inputs, Rel!flags, RelP!flags,
     Rel!demands, RelP!demands, Rel!control, RelP!control,
     Rel!relays, RelP!relays, Rel!vars, RelP!vars,
     Rel!RelayPins, RelP!RelayPins, Rel!Degree, RelP!Degree,
     Rel!temp_difference, RelP!temp_difference, Rel!TooCold, RelP!TooCold,
     Rel!TooWarm, RelP!TooWarm, Rel!Drive, RelP!Drive,
     Rel!CountTowards, RelP!CountTowards,
     Rel!UpdateDemand, RelP!UpdateDemand, Rel!Wanted, RelP!Wanted,
     Rel!DrivePins, RelP!DrivePins, Rel!DemandRaised, RelP!DemandRaised,
     Rel!Opposed, RelP!Opposed, Rel!RecordHistory, RelP!RecordHistory,
     Rel!NotReady, RelP!NotReady, Rel!SystemOff, RelP!SystemOff,
     Rel!HoldForDial, RelP!HoldForDial, Rel!Evaluate, RelP!Evaluate,
     Rel!ControlRelays, RelP!ControlRelays,
     Rel!ToggleSystem, RelP!ToggleSystem,
     Rel!ToggleComponent, RelP!ToggleComponent,
     Rel!ChooseSource, RelP!ChooseSource, Rel!ChooseMode, RelP!ChooseMode,
     Rel!HvacPost, RelP!HvacPost, Rel!SensorPublish, RelP!SensorPublish,
     Rel!AdjustSetpoint, RelP!AdjustSetpoint, Rel!Next, RelP!Next

LEMMA RotSameNext == [Rot!Next]_(Rot!vars) => [RotP!Next]_(RotP!vars)
BY DEF
     Rot!timers, RotP!timers, Rot!asked, RotP!asked, Rot!history, RotP!history,
     Rot!contact, RotP!contact, Rot!dial, RotP!dial,
     Rot!vars, RotP!vars, Rot!Settled, RotP!Settled, Rot!Degree, RotP!Degree,
     Rot!PB2Low, RotP!PB2Low, Rot!PB3High, RotP!PB3High,
     Rot!Towards, RotP!Towards, Rot!Advance, RotP!Advance,
     Rot!Tick, RotP!Tick, Rot!Readable, RotP!Readable,
     Rot!Sample, RotP!Sample, Rot!Step, RotP!Step,
     Rot!CheckWindow, RotP!CheckWindow, Rot!ClearChange, RotP!ClearChange,
     Rot!ClearTimer, RotP!ClearTimer, Rot!CheckRotary, RotP!CheckRotary,
     Rot!ISR, RotP!ISR, Rot!Move, RotP!Move, Rot!Adjacent, RotP!Adjacent,
     Rot!Ask, RotP!Ask, Rot!Turn, RotP!Turn, Rot!SubPost, RotP!SubPost,
     Rot!Next, RotP!Next

LEMMA RelaysFollowed == Spec => RelP!Spec
<1>1. Rel!Init => RelP!Init
  BY DEF Rel!Init, Rel!InitInputs, Rel!InitFlags, Rel!InitRelays, RelP!Init,
         RelP!InitInputs, RelP!InitFlags, RelP!InitRelays, Rel!Degree, RelP!Degree
<1>2. QED BY <1>1, RelSameNext, ImplementsRelays, PTL
          DEF RelaysPart, Rel!Spec, RelP!Spec

LEMMA DialFollowed == Spec => RotP!Spec
<1>1. Rot!Init => RotP!Init
  BY DEF Rot!Init, RotP!Init, Rot!Degree, RotP!Degree, Rot!Settled, RotP!Settled
<1>2. QED BY <1>1, RotSameNext, ImplementsDial, PTL
          DEF DialPart, Rot!Spec, RotP!Spec

(* In the whole program, too, the pins never combine wrongly, a stretch of *)
(* relays at work against the temperature ends within one count, and no    *)
(* relay is raised early but by a switch command, whatever the dial and    *)
(* the web commands do to the setpoint in the meantime.                    *)
THEOREM RelaysSafeTogether ==
  Spec => []Rel!Interlock /\ []Rel!WrongWayBounded /\ Rel!StartsSpaced
<1>1. Spec => []Rel!Interlock
  <2>1. RelP!Interlock => Rel!Interlock
    BY DEF Rel!Interlock, RelP!Interlock
  <2>2. QED BY <2>1, RelAssumed, RelaysFollowed, RelP!InterlockHolds, PTL
<1>2. Spec => []Rel!WrongWayBounded
  <2>1. RelP!WrongWayBounded => Rel!WrongWayBounded
    BY DEF Rel!WrongWayBounded, RelP!WrongWayBounded
  <2>2. QED BY <2>1, RelAssumed, RelaysFollowed, RelP!WrongWayIsBounded, PTL
<1>3. Spec => Rel!StartsSpaced
  <2> DEFINE Due == h_commanded = 1 \/ h_since + 1 >= cnt0end
  <2>1. [RelP!Raised => Due]_(RelP!vars) => [Rel!Raised => Due]_(Rel!vars)
    BY DEF Rel!Raised, RelP!Raised, Rel!vars, RelP!vars, Rel!inputs, RelP!inputs,
           Rel!flags, RelP!flags, Rel!relays, RelP!relays,
           Rel!control, RelP!control, Rel!demands, RelP!demands
  <2>2. QED BY <2>1, RelAssumed, RelaysFollowed, RelP!StartsAreSpaced, PTL
            DEF Rel!StartsSpaced, RelP!StartsSpaced
<1>4. QED BY <1>1, <1>2, <1>3

(* In the whole program, too, the setpoint never moves by more than the    *)
(* inputs taken, the window of the view is never stepped over, and the     *)
(* view closes only when it has run out or a click has come in, whatever   *)
(* the other parts of the main loop take of its time.                      *)
THEOREM DialSafeTogether ==
  Spec => []Rot!AtMostOnePerInput /\ []Rot!WindowNotMissed
            /\ Rot!ClearOnlyWhenExpired
<1>1. Spec => []Rot!AtMostOnePerInput
  <2>1. RotP!AtMostOnePerInput => Rot!AtMostOnePerInput
    BY DEF Rot!AtMostOnePerInput, RotP!AtMostOnePerInput, Rot!Degree, RotP!Degree
  <2>2. QED BY <2>1, RotAssumed, DialFollowed, RotP!OnePerInput, PTL
<1>2. Spec => []Rot!WindowNotMissed
  <2>1. RotP!WindowNotMissed => Rot!WindowNotMissed
    BY DEF Rot!WindowNotMissed, RotP!WindowNotMissed
  <2>2. QED BY <2>1, RotAssumed, DialFollowed, RotP!WindowIsNotMissed, PTL
<1>3. Spec => Rot!ClearOnlyWhenExpired
  <2> DEFINE Closes == rot_enc_change = 1 /\ rot_enc_change' = 0
                         => TCNT1 > T1Window \/ rot_enc_flag = 1
  <2>1. [Closes]_(RotP!vars) => [Closes]_(Rot!vars)
    BY DEF Rot!vars, RotP!vars, Rot!timers, RotP!timers, Rot!asked, RotP!asked,
           Rot!history, RotP!history
  <2>2. QED BY <2>1, RotAssumed, DialFollowed, RotP!ViewClosesInTime, PTL
            DEF Rot!ClearOnlyWhenExpired, RotP!ClearOnlyWhenExpired
<1>4. QED BY <1>1, <1>2, <1>3
=============================================================================
