---------------------------- MODULE RelaysProofs ----------------------------
(***************************************************************************)
(* Proofs about Relays and, in the last part, Pages: their type invariants *)
(* and safety properties, for every length of the count, every set of      *)
(* temperatures and every set of setpoints.                                *)
(***************************************************************************)
EXTENDS Pages, TLAPS

USE RelaysAssumption DEF Degree

(* The count never reaches the wrap of its WORD.                           *)
LEMMA CountDoesNotWrap ==
  ASSUME NEW n \in Nat, NEW m \in Nat, n < m
  PROVE  n % m = n
OBVIOUS

(* The pins that switches and demands ask for.                             *)
Driven ==
  IF Wanted(hvac_heat_flag, hvac_heat)
  THEN IF hvac_flag_heat_src = 1 THEN {1, 7} ELSE {0}
  ELSE IF Wanted(hvac_ac_flag, hvac_ac) THEN {6, 7}
  ELSE IF Wanted(hvac_vent_flag, hvac_vent) THEN {7} ELSE {}

(* What each part of the relay state needs of the others: the count is     *)
(* never ahead of the time since a demand was raised, nor behind the time  *)
(* that the relays have worked against the temperature, and the pins are   *)
(* those that switches and demands ask for unless a command has changed    *)
(* the switches since.                                                     *)
CountInv ==
  /\ relays_cnt0 < cnt0end
  /\ relays_cnt0 <= h_since
  /\ h_wrong <= relays_cnt0
  /\ hvac_flag_sys = 0 => h_commanded = 1
  /\ h_commanded = 0 => PORTC = Driven

IInv == TypeOK /\ Interlock /\ CountInv

(* Pins and count are left alone by everything but control_relays.         *)
LEMMA RelaysUnchanged ==
  ASSUME IInv, UNCHANGED control,
         h_commanded' \in {0, 1},
         UNCHANGED <<h_commanded, flags>> \/ h_commanded' = 1,
         adc0_valid' \in {0, 1}, adc0_temp' \in Temps \cup {0},
         desired_temp' \in Setpoints, rot_enc_change' \in {0, 1},
         hvac_flag_sys' \in {0, 1}, hvac_flag_auto' \in {0, 1},
         hvac_flag_heat_src' \in {1, 2}, hvac_heat_flag' \in {0, 1},
         hvac_ac_flag' \in {0, 1}, hvac_vent_flag' \in {0, 1}
  PROVE  IInv'
BY DEF IInv, TypeOK, Interlock, CountInv, control, demands, flags, Driven,
       Wanted

LEMMA InitIInv == Init => IInv
BY DEF Init, InitInputs, InitFlags, InitRelays, IInv, TypeOK, Interlock,
       CountInv, RelayPins, Driven, Wanted

(* An evaluation leaves the pins just as switches and demands ask.         *)
LEMMA EvaluateDrives == ASSUME TypeOK, Evaluate PROVE PORTC' = Driven'
<1>1. /\ PORTC \subseteq {0, 1, 6, 7} /\ hvac_flag_heat_src \in {1, 2}
      /\ DrivePins /\ UNCHANGED flags
  BY DEF TypeOK, RelayPins, Evaluate
<1> DEFINE heat == Wanted(hvac_heat_flag, hvac_heat')
           ac   == Wanted(hvac_ac_flag, hvac_ac')
           vent == Wanted(hvac_vent_flag, hvac_vent')
<1>2. Driven' = IF heat THEN IF hvac_flag_heat_src = 1 THEN {1, 7} ELSE {0}
                ELSE IF ac THEN {6, 7} ELSE IF vent THEN {7} ELSE {}
  BY <1>1 DEF Driven, Wanted, flags
<1>3. /\ heat /\ hvac_flag_heat_src = 1 => PORTC' = {1, 7}
      /\ heat /\ hvac_flag_heat_src = 2 => PORTC' = {0}
      /\ ~heat /\ ac => PORTC' = {6, 7}
      /\ ~heat /\ ~ac /\ vent => PORTC' = {7}
      /\ ~heat /\ ~ac /\ ~vent => PORTC' = {}
  <2> HIDE DEF heat, ac, vent
  <2>1. \/ heat /\ hvac_flag_heat_src = 1 /\ Drive({0, 6}, {1, 7})
        \/ heat /\ hvac_flag_heat_src = 2 /\ Drive({1, 6, 7}, {0})
        \/ ~heat /\ ac /\ Drive({0, 1}, {6, 7})
        \/ ~heat /\ ~ac /\ vent /\ Drive({0, 1, 6}, {7})
        \/ ~heat /\ ~ac /\ ~vent /\ Drive({0, 1, 6, 7}, {})
    BY <1>1 DEF DrivePins, heat, ac, vent
  <2>2. CASE heat /\ hvac_flag_heat_src = 1
    <3>1. Drive({0, 6}, {1, 7})
      BY <2>1, <2>2
    <3>2. PORTC' = {1, 7}
      BY <1>1, <3>1 DEF Drive
    <3>3. QED BY <2>2, <3>2
  <2>3. CASE heat /\ hvac_flag_heat_src = 2
    <3>1. Drive({1, 6, 7}, {0})
      BY <2>1, <2>3
    <3>2. PORTC' = {0}
      BY <1>1, <3>1 DEF Drive
    <3>3. QED BY <2>3, <3>2
  <2>4. CASE ~heat /\ ac
    BY <1>1, <2>1, <2>4 DEF Drive
  <2>5. CASE ~heat /\ ~ac
    BY <1>1, <2>1, <2>5 DEF Drive
  <2>6. QED BY <1>1, <2>2, <2>3, <2>4, <2>5
<1> HIDE DEF heat, ac, vent
<1>4. QED BY <1>1, <1>2, <1>3

(* One pass outside the band.                                              *)
LEMMA CountTowardsIInv ==
  ASSUME IInv, NEW heat \in {0, 1}, NEW ac \in {0, 1}, heat + ac = 1,
         CountTowards(heat, ac)
  PROVE  /\ hvac_heat' \in {0, 1} /\ hvac_ac' \in {0, 1} /\ hvac_vent' \in {0, 1}
         /\ \/ /\ relays_cnt0 + 1 = cnt0end /\ relays_cnt0' = 0
               /\ hvac_heat' = heat /\ hvac_ac' = ac
            \/ /\ relays_cnt0 + 1 < cnt0end /\ relays_cnt0' = relays_cnt0 + 1
               /\ UNCHANGED <<hvac_heat, hvac_ac>>
<1>1. relays_cnt0 \in Nat /\ relays_cnt0 + 1 \in Nat /\ relays_cnt0 + 1 < WordMod
  BY DEF IInv, TypeOK, CountInv
<1>2. (relays_cnt0 + 1) % WordMod = relays_cnt0 + 1
  BY <1>1, CountDoesNotWrap
<1>3. CASE relays_cnt0 + 1 = cnt0end
  BY <1>1, <1>2, <1>3 DEF CountTowards, IInv
<1>4. CASE relays_cnt0 + 1 # cnt0end
  BY <1>1, <1>2, <1>4 DEF CountTowards, IInv, TypeOK, CountInv, demands
<1>5. QED BY <1>3, <1>4

LEMMA EvaluateIInv == ASSUME IInv, Evaluate PROVE IInv'
<1>1. /\ UpdateDemand /\ DrivePins /\ RecordHistory
      /\ UNCHANGED <<inputs, flags>>
  BY DEF Evaluate
<1>2. /\ relays_cnt0 \in Nat /\ h_since \in 0 .. cnt0end /\ h_wrong \in Nat
      /\ relays_cnt0 < cnt0end /\ relays_cnt0 <= h_since
      /\ h_wrong <= relays_cnt0 /\ h_commanded \in {0, 1}
      /\ hvac_flag_sys # 0
  BY DEF IInv, TypeOK, CountInv, Evaluate
<1>9. /\ h_commanded' = 0 /\ PORTC' = Driven' /\ UNCHANGED flags
      /\ hvac_flag_sys' # 0
  BY <1>1, <1>2, EvaluateDrives DEF IInv, RecordHistory, flags
<1>10. /\ Opposed /\ TooCold /\ ~TooWarm => hvac_ac' = 1
       /\ Opposed /\ TooWarm /\ ~TooCold => hvac_heat' = 1
       /\ Opposed => TooCold \/ TooWarm
  BY <1>9 DEF Opposed, Driven, Wanted, flags
<1>3. TooCold => ~TooWarm
  <2>1. temp_difference \in Int
    BY DEF IInv, TypeOK, temp_difference
  <2>2. QED BY <2>1 DEF TooCold, TooWarm
<1>4. /\ hvac_heat' \in {0, 1} /\ hvac_ac' \in {0, 1} /\ hvac_vent' \in {0, 1}
  <2>1. CASE TooCold /\ CountTowards(1, 0)
    BY <2>1, CountTowardsIInv
  <2>2. CASE TooWarm /\ CountTowards(0, 1)
    BY <2>2, CountTowardsIInv
  <2>3. CASE ~TooCold /\ ~TooWarm
    BY <1>1, <2>3 DEF UpdateDemand
  <2>4. QED BY <1>1, <2>1, <2>2, <2>3 DEF UpdateDemand
<1>5. /\ relays_cnt0' \in 0 .. cnt0end - 1
      /\ h_since' \in 0 .. cnt0end
      /\ h_wrong' \in Nat
      /\ CountInv'
  <2>1. CASE TooCold /\ CountTowards(1, 0)
    <3>1. \/ /\ relays_cnt0 + 1 = cnt0end /\ relays_cnt0' = 0
             /\ hvac_heat' = 1 /\ hvac_ac' = 0
          \/ /\ relays_cnt0 + 1 < cnt0end /\ relays_cnt0' = relays_cnt0 + 1
             /\ UNCHANGED <<hvac_heat, hvac_ac>>
      BY <2>1, CountTowardsIInv
    <3>2. QED BY <1>1, <1>2, <1>3, <1>9, <1>10, <2>1, <3>1
            DEF RecordHistory, DemandRaised, CountInv
  <2>2. CASE TooWarm /\ CountTowards(0, 1)
    <3>1. \/ /\ relays_cnt0 + 1 = cnt0end /\ relays_cnt0' = 0
             /\ hvac_heat' = 0 /\ hvac_ac' = 1
          \/ /\ relays_cnt0 + 1 < cnt0end /\ relays_cnt0' = relays_cnt0 + 1
             /\ UNCHANGED <<hvac_heat, hvac_ac>>
      BY <2>2, CountTowardsIInv
    <3>2. QED BY <1>1, <1>2, <1>3, <1>9, <1>10, <2>2, <3>1
            DEF RecordHistory, DemandRaised, CountInv
  <2>3. CASE ~TooCold /\ ~TooWarm
    BY <1>1, <1>2, <1>9, <1>10, <2>3
       DEF UpdateDemand, RecordHistory, DemandRaised, CountInv
  <2>4. QED BY <1>1, <2>1, <2>2, <2>3 DEF UpdateDemand
<1>6. PORTC' \subseteq RelayPins /\ Interlock'
  <2>1. PORTC' \in {{}, {0}, {7}, {1, 7}, {6, 7}}
    BY <1>9 DEF Driven
  <2>2. QED BY <2>1 DEF Interlock, RelayPins
<1>7. TypeOK'
  BY <1>1, <1>4, <1>5, <1>6, <1>9 DEF IInv, TypeOK, inputs, flags
<1>8. QED BY <1>4, <1>5, <1>6, <1>7 DEF IInv

LEMMA SystemOffIInv == ASSUME IInv, SystemOff PROVE IInv'
<1>1. PORTC' = {} /\ relays_cnt0' = 0 /\ h_wrong' = 0
  BY DEF SystemOff, Drive, IInv, TypeOK
<1>2. /\ UNCHANGED <<inputs, flags, demands, h_since, h_commanded>>
      /\ hvac_flag_sys = 0
  BY DEF SystemOff
<1>3. h_commanded' = 1
  BY <1>2 DEF IInv, CountInv
<1>4. QED BY <1>1, <1>2, <1>3
        DEF IInv, TypeOK, Interlock, CountInv, inputs, flags, demands

LEMMA HvacPostIInv == ASSUME IInv, HvacPost PROVE IInv'
<1>1. UNCHANGED <<inputs, control>> /\ h_commanded' = 1
  BY DEF HvacPost
<1>2. /\ hvac_flag_sys' \in {0, 1} /\ hvac_flag_auto' \in {0, 1}
      /\ hvac_flag_heat_src' \in {1, 2} /\ hvac_heat_flag' \in {0, 1}
      /\ hvac_ac_flag' \in {0, 1} /\ hvac_vent_flag' \in {0, 1}
  <2>1. CASE ToggleSystem
    BY <2>1 DEF ToggleSystem, IInv, TypeOK
  <2>2. CASE \E v \in {"1", "2", "3"} : ToggleComponent(v)
    BY <2>2 DEF ToggleComponent, IInv, TypeOK
  <2>3. CASE \E src \in {1, 2} : ChooseSource(src)
    BY <2>3 DEF ChooseSource, IInv, TypeOK
  <2>4. CASE \E auto \in {0, 1} : ChooseMode(auto)
    BY <2>4 DEF ChooseMode, IInv, TypeOK
  <2>5. QED BY <2>1, <2>2, <2>3, <2>4 DEF HvacPost
<1>3. QED BY <1>1, <1>2, RelaysUnchanged DEF IInv, TypeOK, inputs

LEMMA NextIInv == ASSUME IInv, [Next]_vars PROVE IInv'
<1>1. CASE Evaluate
  BY <1>1, EvaluateIInv
<1>2. CASE SystemOff
  BY <1>2, SystemOffIInv
<1>3. CASE HvacPost
  BY <1>3, HvacPostIInv
<1>4. CASE SensorPublish
  BY <1>4, RelaysUnchanged DEF SensorPublish, IInv, TypeOK, flags, relays
<1>5. CASE AdjustSetpoint
  BY <1>5, RelaysUnchanged DEF AdjustSetpoint, IInv, TypeOK, flags, relays
<1>6. CASE UNCHANGED vars
  BY <1>6, RelaysUnchanged DEF vars, inputs, flags, relays, IInv, TypeOK
<1>7. QED BY <1>1, <1>2, <1>3, <1>4, <1>5, <1>6
        DEF Next, ControlRelays, NotReady, HoldForDial

(* Pins, count and histories agree after every pass and command.           *)
THEOREM InductiveInvariant == Spec => []IInv
<1>1. IInv /\ [Next]_vars => IInv'
  BY NextIInv
<1>2. QED BY InitIInv, <1>1, PTL DEF Spec

(* Every variable of the relay controller keeps its type; the count never  *)
(* leaves the WORD.                                                        *)
THEOREM TypeCorrect == Spec => []TypeOK
<1>1. IInv => TypeOK
  BY DEF IInv
<1>2. QED BY <1>1, InductiveInvariant, PTL

(* Heating, cooling and fan pins never combine wrongly.                    *)
THEOREM InterlockHolds == Spec => []Interlock
<1>1. IInv => Interlock
  BY DEF IInv
<1>2. QED BY <1>1, InductiveInvariant, PTL

(* The equality test on the count is never stepped over.                   *)
THEOREM CountStaysBelowEnd == Spec => []CountBelowEnd
<1>1. IInv => CountBelowEnd
  BY DEF IInv, CountInv, CountBelowEnd
<1>2. QED BY <1>1, InductiveInvariant, PTL

(* Switched on, the relays run against the temperature for less than one   *)
(* count; switching off and on again may begin another such run.           *)
THEOREM WrongWayIsBounded == Spec => []WrongWayBounded
<1>1. IInv => WrongWayBounded
  BY DEF IInv, TypeOK, CountInv, WrongWayBounded
<1>2. QED BY <1>1, InductiveInvariant, PTL

(* Unless a command has come in between, a relay goes on only when a count *)
(* is completed, cnt0end passes or more after the last one.                *)
THEOREM StartsAreSpaced == Spec => StartsSpaced
<1>1. IInv /\ [Next]_vars =>
        [Raised => h_commanded = 1 \/ h_since + 1 >= cnt0end]_vars
  <2> SUFFICES ASSUME IInv, Next, Raised, h_commanded # 1
               PROVE  h_since + 1 >= cnt0end
    OBVIOUS
  <2>1. Evaluate
    BY DEF Raised, Next, ControlRelays, NotReady, SystemOff, Drive, HoldForDial,
           HvacPost, SensorPublish, AdjustSetpoint, relays, control, vars
  <2>2. PORTC = Driven /\ PORTC' = Driven' /\ UNCHANGED flags
    BY <2>1, EvaluateDrives DEF IInv, TypeOK, CountInv, Evaluate
  <2>3. ~UNCHANGED demands
    BY <2>2 DEF Raised, Driven, Wanted, demands, flags
  <2>4. TooCold \/ TooWarm
    <3> SUFFICES ASSUME ~TooCold, ~TooWarm PROVE FALSE
      OBVIOUS
    <3>1. hvac_heat' = 0 /\ hvac_ac' = 0 /\ hvac_vent' = 0
      BY <2>1 DEF Evaluate, UpdateDemand
    <3>2. CASE hvac_flag_auto = 0
      <4>1. Driven' = Driven
        BY <2>2, <3>2 DEF Driven, Wanted, flags
      <4>2. QED BY <2>2, <4>1 DEF Raised
    <3>3. CASE hvac_flag_auto # 0
      <4>1. Driven' = {}
        BY <2>2, <3>1, <3>3 DEF Driven, Wanted, flags
      <4>2. QED BY <2>2, <4>1 DEF Raised
    <3>4. QED BY <3>2, <3>3
  <2>5. CountTowards(1, 0) \/ CountTowards(0, 1)
    BY <2>1, <2>4 DEF Evaluate, UpdateDemand
  <2>6. (relays_cnt0 + 1) % WordMod = cnt0end
    BY <2>3, <2>5 DEF CountTowards
  <2>7. relays_cnt0 \in Nat /\ relays_cnt0 < cnt0end /\ relays_cnt0 <= h_since
        /\ h_since \in Nat
    BY DEF IInv, TypeOK, CountInv
  <2>8. relays_cnt0 + 1 = cnt0end
    BY <2>6, <2>7, CountDoesNotWrap
  <2>9. QED BY <2>7, <2>8
<1>2. QED BY <1>1, InductiveInvariant, PTL DEF Spec, StartsSpaced

(* The measure by which a room that stays too cold, or too warm, comes to  *)
(* be served: each evaluation that does not serve it brings the count one  *)
(* nearer to its end, and only a count that is complete, or the system     *)
(* switched off, sends it back.                                            *)
OneNearer == relays_cnt0' = relays_cnt0 + 1 /\ relays_cnt0' < cnt0end
Measured ==
  /\ Evaluate /\ TooCold => (hvac_heat' = 1 /\ hvac_ac' = 0) \/ OneNearer
  /\ Evaluate /\ TooWarm => (hvac_heat' = 0 /\ hvac_ac' = 1) \/ OneNearer
  /\ relays_cnt0' < relays_cnt0 =>
       hvac_flag_sys = 0 \/ hvac_heat' + hvac_ac' = 1

(* So DemandServed needs no more than that control_relays goes on being    *)
(* called (relays.c:38-62).                                                *)
THEOREM CountProgresses == Spec => [][Measured]_vars
<1>1. ASSUME IInv, Evaluate, TooCold
      PROVE  (hvac_heat' = 1 /\ hvac_ac' = 0) \/ OneNearer
  <2>1. CountTowards(1, 0)
    <3>1. temp_difference \in Int
      BY <1>1 DEF IInv, TypeOK, temp_difference
    <3>2. QED BY <1>1, <3>1 DEF Evaluate, UpdateDemand, TooCold, TooWarm
  <2>2. QED BY <1>1, <2>1, CountTowardsIInv DEF OneNearer
<1>2. ASSUME IInv, Evaluate, TooWarm
      PROVE  (hvac_heat' = 0 /\ hvac_ac' = 1) \/ OneNearer
  <2>1. CountTowards(0, 1)
    <3>1. temp_difference \in Int
      BY <1>2 DEF IInv, TypeOK, temp_difference
    <3>2. QED BY <1>2, <3>1 DEF Evaluate, UpdateDemand, TooCold, TooWarm
  <2>2. QED BY <1>2, <2>1, CountTowardsIInv DEF OneNearer
<1>3. ASSUME IInv, Next, relays_cnt0' < relays_cnt0
      PROVE  hvac_flag_sys = 0 \/ hvac_heat' + hvac_ac' = 1
  <2>1. relays_cnt0 \in Nat
    BY <1>3 DEF IInv, TypeOK
  <2>2. CASE Evaluate
    <3>1. CASE TooCold
      BY <1>1, <1>3, <2>1, <2>2, <3>1 DEF OneNearer
    <3>2. CASE TooWarm
      BY <1>2, <1>3, <2>1, <2>2, <3>2 DEF OneNearer
    <3>3. CASE ~TooCold /\ ~TooWarm
      BY <1>3, <2>1, <2>2, <3>3 DEF Evaluate, UpdateDemand
    <3>4. QED BY <3>1, <3>2, <3>3
  <2>3. CASE SystemOff
    BY <2>3 DEF SystemOff
  <2>4. CASE UNCHANGED relays_cnt0
    BY <1>3, <2>1, <2>4
  <2>5. QED BY <1>3, <2>2, <2>3, <2>4
            DEF Next, ControlRelays, NotReady, HoldForDial, HvacPost,
                SensorPublish, AdjustSetpoint, relays, control, vars
<1>4. IInv /\ [Next]_vars => [Measured]_vars
  BY <1>1, <1>2, <1>3 DEF Measured
<1>5. QED BY <1>4, InductiveInvariant, PTL DEF Spec
-----------------------------------------------------------------------------
(* Heating and cooling are never demanded together.                        *)
OneDemand == ~(hvac_heat = 1 /\ hvac_ac = 1)

LEMMA OneDemandStep == ASSUME OneDemand, [Next]_vars PROVE OneDemand'
<1>1. CASE Evaluate
  <2>1. CASE \E heat, ac \in {0, 1} : heat + ac = 1 /\ CountTowards(heat, ac)
    BY <2>1 DEF OneDemand, CountTowards, demands
  <2>2. CASE hvac_heat' = 0
    BY <2>2 DEF OneDemand
  <2>3. QED BY <1>1, <2>1, <2>2 DEF Evaluate, UpdateDemand
<1>2. CASE UNCHANGED demands
  BY <1>2 DEF OneDemand, demands
<1>3. QED BY <1>1, <1>2
        DEF Next, ControlRelays, NotReady, SystemOff, HoldForDial, HvacPost,
            SensorPublish, AdjustSetpoint, relays, control, demands, vars

(* A count that is complete raises one demand and drops the other.         *)
THEOREM OneDemandAtATime == Spec => []OneDemand
<1>1. Init => OneDemand
  BY DEF Init, InitRelays, OneDemand
<1>2. OneDemand /\ [Next]_vars => OneDemand'
  BY OneDemandStep
<1>3. QED BY <1>1, <1>2, PTL DEF Spec
-----------------------------------------------------------------------------
(* Pages: the web server beside the relay controller.                      *)

(* What a button does to the flags, the web command does.                  *)
LEMMA PressIsHvacPost ==
  ASSUME NEW v, NEW owns, PressHvac(v, owns)
  PROVE  HvacPost \/ UNCHANGED vars
<1>1. HvacCommand(v) /\ UNCHANGED <<inputs, control>>
  BY DEF PressHvac
<1>2. CASE /\ \/ v = "0" /\ ToggleSystem
              \/ v \in {"1", "2", "3"} /\ ToggleComponent(v)
              \/ \E src \in {1, 2} : ChooseSource(src)
              \/ \E auto \in {0, 1} : ChooseMode(auto)
           /\ h_commanded' = 1
  BY <1>1, <1>2 DEF HvacPost
<1>3. CASE UNCHANGED <<flags, h_commanded>>
  BY <1>1, <1>3 DEF vars, relays
<1>4. QED BY <1>1, <1>2, <1>3 DEF HvacCommand

(* A press is one of these, of a button of the page.                       *)
LEMMA PressCases ==
  ASSUME Press
  PROVE  \/ \E v, owns : PressHvac(v, owns)
         \/ \E v \in {"1", "2"} : PressPage(v)
         \/ \E v \in {"0", "1"}, owns \in BOOLEAN : PressFilter(v, owns)
         \/ \E v \in {"1", "2"}, owns \in BOOLEAN : PressLight(v, owns)
         \/ \E v \in {"0", "1", "2", "3", "u", "d"}, owns \in BOOLEAN :
               PressSource(v, owns)
         \/ UNCHANGED pageVars
<1>1. CASE \E owns \in BOOLEAN, b \in Switches \cup {<<"hvac", "x">>} :
             PressSwitch(b, owns)
  <2>1. PICK owns \in BOOLEAN, b \in Switches \cup {<<"hvac", "x">>} :
          PressSwitch(b, owns)
    BY <1>1
  <2>2. CASE b[1] = "hvac" /\ PressHvac(b[2], owns)
    BY <2>2
  <2>3. CASE b[1] = "mac" /\ PressFilter(b[2], owns)
    <3>1. b[2] \in {"0", "1"}
      BY <2>3 DEF Switches
    <3>2. QED BY <2>3, <3>1
  <2>4. CASE b[1] = "sub" /\ PressLight(b[2], owns)
    <3>1. b[2] \in {"1", "2"}
      BY <2>4 DEF Switches
    <3>2. QED BY <2>4, <3>1
  <2>5. QED BY <2>1, <2>2, <2>3, <2>4 DEF PressSwitch
<1>2. QED BY <1>1 DEF Press, PressRefused

LEMMA PagesStep == ASSUME [PagesNext]_pageVars PROVE [Next]_vars
<1> USE DEF vars, relays, pageVars
<1>1. CASE \E v, owns : PressHvac(v, owns)
  BY <1>1, PressIsHvacPost DEF Next
<1>2. CASE \E v \in {"1", "2"} : PressPage(v)
  BY <1>2 DEF PressPage
<1>3. CASE \E v \in {"1", "2"}, owns \in BOOLEAN : PressLight(v, owns)
  BY <1>3 DEF PressLight
<1>4. CASE \E v \in {"0", "1"}, owns \in BOOLEAN : PressFilter(v, owns)
  BY <1>4 DEF PressFilter
<1>5. CASE \E v \in {"0", "1", "2", "3", "u", "d"}, owns \in BOOLEAN :
             PressSource(v, owns)
  BY <1>5 DEF PressSource
<1>6. CASE Elsewhere
  BY <1>6 DEF Elsewhere, Next
<1>7. CASE UNCHANGED pageVars
  BY <1>7
<1>8. QED BY <1>1, <1>2, <1>3, <1>4, <1>5, <1>6, <1>7, PressCases DEF PagesNext

(* The pages leave the relay controller to itself: with their buttons and  *)
(* their web commands it still does only what Relays allows.               *)
THEOREM PagesImplementRelays == PagesSpec => Spec
<1>1. [PagesNext]_pageVars => [Next]_vars
  BY PagesStep
<1>2. PagesInit => Init
  BY DEF PagesInit
<1>3. QED BY <1>1, <1>2, PTL DEF PagesSpec, Spec

WebTypes ==
  /\ web_page \in {1, 2} /\ adc0_pwr_src \in 0 .. 3
  /\ mac_filter \in {0, 1} /\ PORTB \subseteq {0, 1}

LEMMA WebTypesStep == ASSUME WebTypes, [PagesNext]_pageVars PROVE WebTypes'
<1>1. CASE \E v, owns : PressHvac(v, owns)
  BY <1>1 DEF PressHvac, web, WebTypes
<1>2. CASE \E v \in {"1", "2"} : PressPage(v)
  BY <1>2 DEF PressPage, WebTypes
<1>3. CASE \E v \in {"1", "2"}, owns \in BOOLEAN : PressLight(v, owns)
  BY <1>3 DEF PressLight, WebTypes
<1>4. CASE \E v \in {"0", "1"}, owns \in BOOLEAN : PressFilter(v, owns)
  BY <1>4 DEF PressFilter, WebTypes
<1>5. CASE \E v \in {"0", "1", "2", "3", "u", "d"}, owns \in BOOLEAN :
             PressSource(v, owns)
  BY <1>5 DEF PressSource, WebTypes
<1>6. CASE Elsewhere \/ UNCHANGED pageVars
  BY <1>6 DEF Elsewhere, pageVars, web, WebTypes
<1>7. QED BY <1>1, <1>2, <1>3, <1>4, <1>5, <1>6, PressCases DEF PagesNext

(* Every variable keeps its type under the buttons too.                    *)
THEOREM PagesTypeCorrect == PagesSpec => []PagesTypeOK
<1>1. PagesInit => WebTypes
  BY DEF PagesInit, InitSource, WebTypes
<1>2. WebTypes /\ [PagesNext]_pageVars => WebTypes'
  BY WebTypesStep
<1>3. TypeOK /\ WebTypes => PagesTypeOK
  BY DEF WebTypes, PagesTypeOK
<1>4. QED BY <1>1, <1>2, <1>3, PagesImplementRelays, TypeCorrect, PTL DEF PagesSpec

(* Whatever the switches, every part of a page fits its buffer, behind the *)
(* headers, and the transmit area of the controller.                       *)
THEOREM PagesFit == PagesSpec => []FitsFrame
<1>1. PagesTypeOK => FitsFrame
  <2>1. HeadLength \in 0 .. 1400
    BY DEF HeadLength
  <2>2. HomeLength \in 0 .. 1400
    BY DEF HomeLength, OnOff
  <2>3. SettingsLength \in 0 .. 1400
    BY DEF SettingsLength, Ticked
  <2>4. CompensationLength \in 0 .. 1400
    BY DEF CompensationLength, Ticked
  <2>5. \A packet \in 0 .. 3 : http_home(packet) \in 0 .. 1400
    BY <2>1, <2>2, <2>3, <2>4 DEF http_home
  <2>6. ASSUME NEW packet \in 0 .. 3
        PROVE  /\ Headers + http_home(packet) <= MAX_RXTX_BUFFER
               /\ 1 + Headers + http_home(packet) + 7 <= MAX_TX_BUFFER
    <3> DEFINE length == http_home(packet)
    <3>1. length \in 0 .. 1400
      BY <2>5
    <3> HIDE DEF length
    <3>2. 54 + length <= 1518 /\ 1 + 54 + length + 7 <= 1500
      BY <3>1
    <3>3. QED
      BY <3>2 DEF length, Headers, MAX_RXTX_BUFFER, MAX_TX_BUFFER
  <2>7. QED BY <2>6 DEF FitsFrame
<1>2. QED BY <1>1, PagesTypeCorrect, PTL

(* In automatic mode, once the temperature has been evaluated, the home    *)
(* page says of heating and of cooling what their relays do: that the two  *)
(* are never demanded together is what keeps it from claiming a cooling    *)
(* that heating has displaced.                                             *)
THEOREM StatusIsTrue == PagesSpec => StatusTrueInAuto
<1>1. ASSUME TypeOK, OneDemand, OneDemand', Evaluate, hvac_flag_auto = 1
      PROVE  /\ HeatingOn' = (PORTC' \cap {0, 1} # {})
             /\ CoolingOn' = (6 \in PORTC')
  <2> DEFINE heat == hvac_heat_flag = 1 /\ hvac_heat' = 1
             ac   == hvac_ac_flag = 1 /\ hvac_ac' = 1
  <2>1. /\ hvac_flag_auto' = 1 /\ hvac_heat_flag' = hvac_heat_flag
        /\ hvac_ac_flag' = hvac_ac_flag
    BY <1>1 DEF Evaluate, flags
  <2>2. HeatingOn' = heat /\ CoolingOn' = ac
    BY <2>1 DEF HeatingOn, CoolingOn, StatusOn
  <2>3. ~(heat /\ ac)
    BY <1>1 DEF OneDemand
  <2>4. /\ heat => PORTC' \cap {0, 6} = {0} \/ PORTC' \cap {0, 1, 6} = {1}
        /\ ~heat => PORTC' \cap {0, 1} = {}
        /\ ac <=> 6 \in PORTC'
    <3>1. DrivePins /\ PORTC \subseteq RelayPins
          /\ hvac_flag_heat_src \in {1, 2}
      BY <1>1 DEF Evaluate, TypeOK
    <3>2. /\ Wanted(hvac_heat_flag, hvac_heat') = heat
          /\ Wanted(hvac_ac_flag, hvac_ac') = ac
      BY <1>1 DEF Wanted
    <3> HIDE DEF heat, ac
    <3>3. QED BY <2>3, <3>1, <3>2 DEF DrivePins, Drive, RelayPins
  <2> HIDE DEF heat, ac
  <2>5. heat <=> PORTC' \cap {0, 1} # {}
    BY <2>4
  <2>6. heat \in BOOLEAN /\ ac \in BOOLEAN
    BY DEF heat, ac
  <2>7. QED BY <2>2, <2>4, <2>5, <2>6
<1>2. TypeOK /\ OneDemand /\ OneDemand' =>
        [Evaluate /\ hvac_flag_auto = 1
           => /\ HeatingOn' = (PORTC' \cap {0, 1} # {})
              /\ CoolingOn' = (6 \in PORTC')]_pageVars
  BY <1>1
<1>3. QED BY <1>2, PagesImplementRelays, TypeCorrect, OneDemandAtATime, PTL
        DEF StatusTrueInAuto

(* Pressed by a client that the filter lets pass, every live switch changes*)
(* what the pages say of the settings or the lights.                       *)
THEOREM PressingShows ==
  PagesSpec => [][\A b \in Switches, owns \in BOOLEAN :
                   PressSwitch(b, owns) => Shown' # Shown]_pageVars
<1>1. ASSUME TypeOK, NEW v \in {"0", "1", "2", "3", "p", "s", "a", "m"},
             NEW owns, PressHvac(v, owns)
      PROVE  Settings' # Settings
  <2>1. <<"hvac", v>> \in HvacButtons /\ HvacCommand(v)
    BY <1>1 DEF PressHvac, Buttons, HomeButtons, SettingsButtons
  <2>2. v # "0" => hvac_flag_sys # 0
    BY <2>1 DEF HvacButtons
  <2>3. CASE v = "0"
    BY <1>1, <2>1, <2>3 DEF HvacCommand, ToggleSystem, Settings, TypeOK
  <2>4. CASE v \in {"1", "2", "3"}
    BY <1>1, <2>1, <2>2, <2>4
       DEF HvacCommand, ToggleComponent, Settings, TypeOK
  <2>5. CASE v \in {"p", "s"}
    <3>1. v = IF hvac_flag_heat_src = 1 THEN "s" ELSE "p"
      BY <2>1, <2>2, <2>5 DEF HvacButtons
    <3>2. hvac_flag_heat_src' = IF v = "p" THEN 1 ELSE 2
      BY <2>1, <2>5 DEF HvacCommand, ChooseSource
    <3>3. QED BY <3>1, <3>2 DEF Settings
  <2>6. CASE v \in {"a", "m"}
    <3>1. v = IF hvac_flag_auto = 0 THEN "a" ELSE "m"
      BY <2>1, <2>2, <2>6 DEF HvacButtons
    <3>2. hvac_flag_auto' = IF v = "a" THEN 1 ELSE 0
      BY <2>1, <2>6 DEF HvacCommand, ChooseMode
    <3>3. QED BY <3>1, <3>2 DEF Settings
  <2>7. QED BY <2>3, <2>4, <2>5, <2>6
<1>2. ASSUME WebTypes, NEW v, NEW owns, PressFilter(v, owns)
      PROVE  Settings' # Settings
  <2>1. v = IF mac_filter = 0 THEN "1" ELSE "0"
    BY <1>2 DEF PressFilter, Buttons, HomeButtons, SettingsButtons, HvacButtons
  <2>2. mac_filter' # mac_filter
    BY <1>2, <2>1 DEF PressFilter, WebTypes
  <2>3. QED BY <2>2 DEF Settings
<1>3. ASSUME NEW v, NEW owns, PressLight(v, owns)
      PROVE  PORTB' # PORTB
  BY <1>3 DEF PressLight
<1>4. ASSUME TypeOK, WebTypes, NEW b \in Switches, NEW owns,
             PressSwitch(b, owns)
      PROVE  Shown' # Shown
  <2>1. CASE b[1] = "hvac" /\ PressHvac(b[2], owns)
    <3>1. b[2] \in {"0", "1", "2", "3", "p", "s", "a", "m"}
      BY <2>1 DEF Switches
    <3>2. QED BY <1>1, <1>4, <2>1, <3>1 DEF Shown
  <2>2. CASE b[1] = "mac" /\ PressFilter(b[2], owns)
    BY <1>2, <1>4, <2>2 DEF Shown
  <2>3. CASE b[1] = "sub" /\ PressLight(b[2], owns)
    BY <1>3, <2>3 DEF Shown
  <2>4. QED BY <1>4, <2>1, <2>2, <2>3 DEF PressSwitch
<1>5. TypeOK /\ WebTypes =>
        [\A b \in Switches, owns \in BOOLEAN :
           PressSwitch(b, owns) => Shown' # Shown]_pageVars
  BY <1>4
<1>6. PagesSpec => []WebTypes
  <2>1. PagesInit => WebTypes
    BY DEF PagesInit, InitSource, WebTypes
  <2>2. WebTypes /\ [PagesNext]_pageVars => WebTypes'
    BY WebTypesStep
  <2>3. QED BY <2>1, <2>2, PTL DEF PagesSpec
<1>7. QED BY <1>5, <1>6, PagesImplementRelays, TypeCorrect, PTL
=============================================================================
