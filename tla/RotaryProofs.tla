---------------------------- MODULE RotaryProofs ----------------------------
(***************************************************************************)
(* Proofs about RotaryEncoder, for every debounce time, window, range of   *)
(* the timers and length of a pass that the assumption admits: first what  *)
(* holds however the dial is turned, then what holds for a steady hand,    *)
(* and last the promise to the steady one of the two users of              *)
(* MCRotaryEncoder, who differ in nothing but the steps they take.         *)
(***************************************************************************)
EXTENDS MCRotaryEncoder, TLAPS

USE RotaryAssumption DEF Degree, Settled, Labels

LEMMA DoesNotWrap ==
  ASSUME NEW n \in Nat, NEW m \in Nat, n < m
  PROVE  n % m = n
OBVIOUS

LEMMA ModType ==
  ASSUME NEW n \in Nat, NEW m \in Nat \ {0}
  PROVE  n % m \in 0 .. m - 1
OBVIOUS

AnyNext == Next \/ SteadyNext

-----------------------------------------------------------------------------
(* Types.                                                                  *)

LEMMA MoveType ==
  ASSUME TypeOK, NEW to \in 0 .. 3, Move(to)
  PROVE  /\ phase' \in 0 .. 3
         /\ rot_enc_flag' \in {0, 1} /\ rot_enc_change' \in {0, 1}
         /\ TCNT0' \in 0 .. T0Mod - 1 /\ TCNT1' \in 0 .. T1Mod - 1
         /\ UNCHANGED <<desired_temp, at, elapsed>>
BY DEF TypeOK, Move, ISR, timers

LEMMA AdjacentType == ASSUME NEW p \in 0 .. 3 PROVE Adjacent(p) \subseteq 0 .. 3
BY DEF Adjacent

LEMMA TurnDialType ==
  ASSUME TypeOK, Turn \/ BeginClick \/ Bounce \/ EndClick
  PROVE  TypeOK'
<1>1. CASE Turn
  <2>1. CASE phase = 0
    <3>1. PICK d \in {1, -1} : /\ Move(Towards(d)) /\ turn' = d
                               /\ IF rot_enc_flag = 0 THEN Ask(d)
                                  ELSE UNCHANGED history
      BY <1>1, <2>1 DEF Turn
    <3>2. UNCHANGED contact
      BY <1>1, <2>1 DEF Turn
    <3>3. Towards(d) \in 0 .. 3
      BY DEF Towards
    <3>4. /\ h_inputs' \in 0 .. MaxInputs /\ h_asked' \in Int
          /\ UNCHANGED <<h_phantoms, h_stale>>
      BY <3>1 DEF Ask, history, asked, TypeOK
    <3>5. QED BY <3>1, <3>2, <3>3, <3>4, MoveType DEF TypeOK, contact
  <2>2. CASE phase # 0
    <3>1. PICK to \in Adjacent(phase) : Move(to)
      BY <1>1, <2>2 DEF Turn
    <3>2. UNCHANGED <<turn, contact, history>>
      BY <1>1, <2>2 DEF Turn
    <3>3. to \in 0 .. 3
      BY AdjacentType DEF TypeOK
    <3>4. QED BY <3>1, <3>2, <3>3, MoveType DEF TypeOK, history, asked, contact
  <2>3. QED BY <2>1, <2>2
<1>2. CASE BeginClick
  <2>1. PICK d \in {1, -1} :
          Move(Towards(d)) /\ turn' = d /\ h_asked' = h_asked + d
    BY <1>2 DEF BeginClick
  <2>2. Towards(d) \in 0 .. 3
    BY DEF Towards
  <2>3. /\ h_inputs' \in 0 .. MaxInputs /\ h_asked' \in Int
        /\ bounce' = 0 /\ released' = 0
        /\ h_stale' \in {0, 1} /\ h_phantoms' \in Nat
    BY <1>2, <2>1 DEF TypeOK, BeginClick
  <2>4. QED BY <2>1, <2>2, <2>3, MoveType DEF TypeOK
<1>3. CASE Bounce
  <2>1. PICK to \in 0 .. 3 : Move(to)
    BY <1>3 DEF Bounce, ClosedAt, Towards, TypeOK
  <2>2. h_stale' \in {0, 1} /\ h_phantoms' \in Nat
    BY <1>3 DEF Bounce, TypeOK
  <2>3. UNCHANGED <<turn, contact, asked>>
    BY <1>3 DEF Bounce
  <2>4. QED BY <2>1, <2>2, <2>3, MoveType DEF TypeOK, contact, asked
<1>4. CASE EndClick
  <2>1. PICK to \in 0 .. 3 : Move(to)
    BY <1>4, AdjacentType DEF EndClick, TypeOK
  <2>2. bounce' \in 0 .. Settled /\ released' \in {0, 1, 3}
    <3>1. CASE 0 \in Adjacent(phase) /\ released' = phase /\ bounce' \in {0, Settled}
      BY <3>1 DEF Adjacent, TypeOK
    <3>2. CASE UNCHANGED contact
      BY <3>2 DEF contact, TypeOK
    <3>3. QED BY <1>4, <3>1, <3>2 DEF EndClick
  <2>3. UNCHANGED <<turn, history>>
    BY <1>4 DEF EndClick
  <2>4. QED BY <2>1, <2>2, <2>3, MoveType DEF TypeOK, history, asked
<1>5. QED BY <1>1, <1>2, <1>3, <1>4

LEMMA NextType == ASSUME TypeOK, [AnyNext]_vars PROVE TypeOK'
<1>1. CASE CheckRotary
  BY <1>1 DEF CheckRotary, Sample, Step, CheckWindow, ClearChange, ClearTimer,
              TypeOK, timers, dial, contact, history, asked
<1>2. CASE Tick \/ SteadyTick
  <2>1. /\ (TCNT0 + 1) % T0Mod \in 0 .. T0Mod - 1
        /\ (TCNT1 + 1) % T1Mod \in 0 .. T1Mod - 1
    BY ModType DEF TypeOK
  <2>2. QED BY <1>2, <2>1
              DEF Tick, SteadyTick, Advance, TypeOK, contact, history, asked
<1>3. CASE Turn \/ BeginClick \/ Bounce \/ EndClick
  BY <1>3, TurnDialType
<1>4. CASE SubPost
  BY <1>4 DEF SubPost, Ask, TypeOK, dial, contact
<1>5. CASE UNCHANGED vars
  BY <1>5 DEF TypeOK, vars, timers, dial, contact, history, asked
<1>6. QED BY <1>1, <1>2, <1>3, <1>4, <1>5 DEF AnyNext, Next, SteadyNext
-----------------------------------------------------------------------------
(* The timer and the view of the setpoint.                                 *)

(* TCNT1 was at most T1Window when the window was last tested, or has been *)
(* set to 0 since; a test is at most one pass behind each reading of the   *)
(* dial, and the next one follows within a pass.                           *)
WindowInv ==
  /\ at = "elsewhere" => TCNT1 <= T1Window + elapsed
  /\ at # "elsewhere" => TCNT1 <= T1Window + MaxLoop + elapsed
  /\ at = "clearChange" => TCNT1 > T1Window \/ rot_enc_flag = 1
  /\ at \in {"stepUp", "stepDown"} => rot_enc_flag = 1

LEMMA MoveWindow ==
  ASSUME TypeOK, WindowInv, NEW to \in 0 .. 3, Move(to)
  PROVE  WindowInv'
<1>1. TCNT1' = TCNT1 \/ (TCNT1' = 0 /\ rot_enc_flag' = 1)
  BY DEF Move, ISR, timers
<1>2. rot_enc_flag' = rot_enc_flag \/ rot_enc_flag' = 1
  BY DEF Move, ISR
<1>3. UNCHANGED <<at, elapsed>>
  BY DEF Move
<1>4. TCNT1' <= TCNT1
  BY <1>1 DEF TypeOK
<1>5. QED
  BY <1>1, <1>2, <1>3, <1>4 DEF WindowInv, TypeOK

LEMMA NextWindow ==
  ASSUME TypeOK, WindowInv, [AnyNext]_vars
  PROVE  WindowInv'
<1>1. CASE Sample
  BY <1>1 DEF Sample, Readable, WindowInv, TypeOK, timers
<1>2. CASE Step
  BY <1>2 DEF Step, WindowInv, TypeOK, timers
<1>3. CASE CheckWindow
  <2>1. TCNT1 <= T1Window + elapsed \/ TCNT1 > T1Window
    BY DEF TypeOK
  <2>2. QED BY <1>3, <2>1 DEF CheckWindow, WindowInv, TypeOK, timers
<1>4. CASE ClearChange
  BY <1>4 DEF ClearChange, WindowInv, TypeOK, timers
<1>5. CASE ClearTimer
  BY <1>5 DEF ClearTimer, WindowInv, TypeOK
<1>6. CASE Tick \/ SteadyTick
  <2>1. /\ elapsed < MaxLoop /\ elapsed' = elapsed + 1
        /\ TCNT1' = (TCNT1 + 1) % T1Mod
        /\ UNCHANGED <<at, rot_enc_flag>>
    BY <1>6 DEF Tick, SteadyTick, Advance
  <2>2. TCNT1 + 1 \in Nat /\ TCNT1 + 1 < T1Mod
    BY <2>1 DEF WindowInv, TypeOK
  <2>3. TCNT1' = TCNT1 + 1
    BY <2>1, <2>2, DoesNotWrap
  <2>4. QED BY <2>1, <2>3 DEF WindowInv, TypeOK
<1>7. CASE Turn \/ BeginClick \/ Bounce \/ EndClick
  <2>1. PICK to \in 0 .. 3 : Move(to)
    BY <1>7, AdjacentType
       DEF Turn, BeginClick, Bounce, EndClick, ClosedAt, Towards, TypeOK
  <2>2. QED BY <2>1, MoveWindow
<1>8. CASE SubPost
  BY <1>8 DEF SubPost, WindowInv, TypeOK
<1>9. CASE UNCHANGED vars
  BY <1>9 DEF WindowInv, vars, timers
<1>10. QED BY <1>1, <1>2, <1>3, <1>4, <1>5, <1>6, <1>7, <1>8, <1>9
         DEF AnyNext, Next, SteadyNext, CheckRotary

LEMMA InitWindow == Init => TypeOK /\ WindowInv
BY DEF Init, TypeOK, WindowInv

(* TCNT1 keeps within the bounds of its place in check_rotary, however the *)
(* dial is turned.                                                         *)
THEOREM WindowInvariant == Spec => [](TypeOK /\ WindowInv)
<1>1. TypeOK /\ WindowInv /\ [Next]_vars => (TypeOK /\ WindowInv)'
  BY NextType, NextWindow DEF AnyNext
<1>2. QED BY <1>1, InitWindow, PTL DEF Spec

(* The flags, the timers and the position in check_rotary keep their       *)
(* types.                                                                  *)
THEOREM TypeCorrect == Spec => []TypeOK
BY WindowInvariant, PTL

(* TCNT1 is always read before it wraps round.                             *)
THEOREM WindowIsNotMissed == Spec => []WindowNotMissed
<1>1. TypeOK /\ WindowInv => WindowNotMissed
  BY DEF TypeOK, WindowInv, WindowNotMissed
<1>2. QED BY <1>1, WindowInvariant, PTL

(* The view closes only when its window has run out or a click has come in *)
(* since the test.                                                         *)
THEOREM ViewClosesInTime == Spec => ClearOnlyWhenExpired
<1> DEFINE Closes == rot_enc_change = 1 /\ rot_enc_change' = 0
                       => TCNT1 > T1Window \/ rot_enc_flag = 1
<1>1. TypeOK /\ WindowInv /\ [Next]_vars => [Closes]_vars
  <2> SUFFICES ASSUME TypeOK, WindowInv, Next, rot_enc_change = 1,
                      rot_enc_change' = 0
               PROVE  TCNT1 > T1Window \/ rot_enc_flag = 1
    OBVIOUS
  <2>1. ClearChange
    BY DEF Next, CheckRotary, Sample, Step, CheckWindow, ClearTimer, Tick,
           Advance, Turn, Move, ISR, SubPost
  <2>2. QED BY <2>1 DEF ClearChange, WindowInv
<1>2. QED BY <1>1, WindowInvariant, PTL DEF Spec, ClearOnlyWhenExpired

-----------------------------------------------------------------------------
(* However the dial is turned, one step of the setpoint for one input.     *)

LEMMA OneMoreClick ==
  ASSUME NEW n \in Int, NEW d \in Int,
         d \in -(Click * n) .. (Click * n)
  PROVE  /\ d \in -(Click * (n + 1)) .. (Click * (n + 1))
         /\ d + Click \in -(Click * (n + 1)) .. (Click * (n + 1))
         /\ d - Click \in -(Click * (n + 1)) .. (Click * (n + 1))
<1>1. Click * (n + 1) = Click * n + Click /\ Click * n \in Int
  OBVIOUS
<1>2. QED BY <1>1

LEMMA NextCount ==
  ASSUME TypeOK, WindowInv, AtMostOnePerInput, [Next]_vars
  PROVE  AtMostOnePerInput'
<1> DEFINE off == desired_temp - 20 * Degree
           n == h_inputs + h_phantoms - rot_enc_flag
<1>1. off \in Int /\ n \in Int /\ off \in -(Click * n) .. (Click * n)
  BY DEF TypeOK, AtMostOnePerInput
<1>2. CASE off' = off /\ n' = n
  BY <1>1, <1>2 DEF AtMostOnePerInput
<1>3. CASE (off' = off + Click \/ off' = off - Click) /\ n' = n + 1
  <2>1. off' \in -(Click * (n + 1)) .. (Click * (n + 1))
    BY <1>1, <1>3, OneMoreClick
  <2>2. QED BY <1>3, <2>1 DEF AtMostOnePerInput
<1>4. CASE Step
  <2>1. /\ rot_enc_flag = 1 /\ rot_enc_flag' = 0
        /\ UNCHANGED <<h_inputs, h_phantoms>>
    BY <1>4 DEF Step, WindowInv, history, asked
  <2>2. desired_temp' = desired_temp + Click \/ desired_temp' = desired_temp - Click
    BY <1>4 DEF Step
  <2>3. n' = n + 1
    BY <2>1 DEF TypeOK
  <2>4. off' = off + Click \/ off' = off - Click
    BY <2>2 DEF TypeOK
  <2>5. QED BY <1>3, <2>3, <2>4
<1>5. CASE SubPost
  <2>1. PICK d \in {1, -1} : Ask(d) /\ desired_temp' = desired_temp + d * Click
    BY <1>5 DEF SubPost
  <2>2. n' = n + 1
    BY <1>5, <2>1 DEF SubPost, Ask, TypeOK
  <2>3. off' = off + Click \/ off' = off - Click
    BY <2>1 DEF TypeOK
  <2>4. QED BY <1>3, <2>2, <2>3
<1>6. CASE Turn
  <2>1. UNCHANGED desired_temp
    BY <1>6 DEF Turn, Move
  <2>2. n' = n
    BY <1>6 DEF Turn, Move, ISR, Ask, history, asked, TypeOK
  <2>3. QED BY <1>2, <2>1, <2>2
<1>7. CASE \/ Sample \/ CheckWindow \/ ClearChange \/ ClearTimer \/ Tick
           \/ UNCHANGED vars
  BY <1>2, <1>7 DEF Sample, CheckWindow, ClearChange, ClearTimer, Tick,
                    Advance, vars, history, asked
<1>8. QED BY <1>4, <1>5, <1>6, <1>7 DEF Next, CheckRotary

(* No interrupt or web command moves the setpoint twice.                   *)
THEOREM OnePerInput == Spec => []AtMostOnePerInput
<1>1. Init => AtMostOnePerInput
  BY DEF Init, AtMostOnePerInput
<1>2. TypeOK /\ WindowInv /\ AtMostOnePerInput /\ [Next]_vars
        => AtMostOnePerInput'
  BY NextCount
<1>3. QED BY <1>1, <1>2, WindowInvariant, PTL DEF Spec
-----------------------------------------------------------------------------
(* A steady hand.                                                          *)

(* Where the dial is: a contact that bounces is at rest or where it        *)
(* closes; one that has settled is where it belongs.  A click that waits   *)
(* has not gone on from its first phase, so that it is read in the phase   *)
(* that tells its direction.                                               *)
PlaceInv ==
  /\ bounce # Settled => phase \in {0, ClosedAt}
  /\ bounce = Settled => AtRest
  /\ rot_enc_flag = 1 /\ released = 0 => phase \in {0, Towards(turn)}

(* What waits has been flagged while the contact bounced, so that TCNT0 is *)
(* not ahead of the bounce and the code waits for all of it: but for a     *)
(* click that hides behind the flag of a bouncing release.                 *)
WaitInv ==
  /\ rot_enc_flag = 1 /\ released # 0 =>
       h_stale = 1 /\ (bounce # Settled => TCNT0 <= bounce)
  /\ bounce # Settled /\ released = 0 /\ h_stale = 0 =>
       rot_enc_flag = 1 /\ TCNT0 <= bounce

(* Between the reading of the dial and the step it decides nothing         *)
(* changes the click.                                                      *)
TakenInv ==
  /\ at \in {"stepUp", "stepDown"} =>
       rot_enc_flag = 1 /\ released = 0 /\ (bounce = Settled \/ h_stale = 1)
  /\ at = "stepUp" => turn = 1
  /\ at = "stepDown" => turn = -1

SteadyInv == PlaceInv /\ WaitInv /\ TakenInv

LEMMA ReadableClick ==
  ASSUME TypeOK, SteadyInv, Readable
  PROVE  /\ rot_enc_flag = 1 /\ released = 0
         /\ bounce = Settled \/ h_stale = 1
         /\ phase = Towards(turn)
         /\ PB3High <=> turn = 1
<1>1. rot_enc_flag = 1 /\ TCNT0 > T0Debounce /\ phase # 0
  BY DEF Readable, PB2Low
<1>2. bounce # Settled => ~(TCNT0 <= bounce)
  BY <1>1 DEF TypeOK
<1>3. released = 0
  BY <1>1, <1>2 DEF SteadyInv, PlaceInv, WaitInv, AtRest
<1>4. phase = Towards(turn)
  BY <1>1, <1>3 DEF SteadyInv, PlaceInv
<1>5. bounce = Settled \/ h_stale = 1
  BY <1>2, <1>3 DEF SteadyInv, WaitInv, TypeOK
<1>6. PB3High <=> turn = 1
  BY <1>4 DEF PB3High, Towards, TypeOK
<1>7. QED BY <1>1, <1>3, <1>4, <1>5, <1>6

LEMMA NextSteady ==
  ASSUME TypeOK, SteadyInv, [SteadyNext]_vars
  PROVE  SteadyInv'
<1> USE DEF SteadyInv, PlaceInv, WaitInv, TakenInv
<1>1. CASE Sample
  <2>1. CASE Readable
    <3>1. UNCHANGED <<rot_enc_flag, TCNT0, dial, h_stale>>
      BY <1>1 DEF Sample, timers, history
    <3>2. \/ PB3High /\ at' = "stepUp"
          \/ ~PB3High /\ at' = "stepDown"
      BY <1>1, <2>1 DEF Sample
    <3>3. QED BY <2>1, <3>1, <3>2, ReadableClick
                DEF AtRest, ClosedAt, Towards, dial, contact, TypeOK
  <2>2. CASE ~Readable
    BY <1>1, <2>2 DEF Sample, AtRest, ClosedAt, Towards, dial, contact, timers,
                      history
  <2>3. QED BY <2>1, <2>2
<1>2. CASE Step
  BY <1>2 DEF Step, AtRest, ClosedAt, Towards, dial, contact, timers, history,
              TypeOK
<1>3. CASE CheckWindow \/ ClearChange \/ ClearTimer
  BY <1>3 DEF CheckWindow, ClearChange, ClearTimer, AtRest, ClosedAt, Towards,
              dial, contact, timers, history
<1>4. CASE SteadyTick
  <2>1. /\ TCNT0' = (TCNT0 + 1) % T0Mod
        /\ bounce' = IF bounce = Settled THEN Settled ELSE bounce + 1
        /\ bounce = T0Debounce => AtRest
        /\ UNCHANGED <<rot_enc_flag, at, phase, turn, released, h_stale>>
    BY <1>4 DEF SteadyTick, Advance, history
  <2>2. CASE bounce = Settled
    BY <2>1, <2>2 DEF AtRest, ClosedAt, Towards
  <2>3. CASE bounce # Settled
    <3>1. bounce' = bounce + 1 /\ (bounce' = Settled => AtRest)
      BY <2>1, <2>3 DEF TypeOK
    <3>2. TCNT0 <= bounce => TCNT0' <= bounce'
      <4>1. SUFFICES ASSUME TCNT0 <= bounce PROVE TCNT0' <= bounce'
        OBVIOUS
      <4>2. TCNT0 \in Nat /\ TCNT0 + 1 \in Nat /\ TCNT0 + 1 < T0Mod
        BY <2>3, <4>1 DEF TypeOK
      <4>3. TCNT0' = TCNT0 + 1
        BY <2>1, <4>2, DoesNotWrap
      <4>4. QED BY <3>1, <4>1, <4>2, <4>3 DEF TypeOK
    <3>3. QED BY <2>1, <2>3, <3>1, <3>2 DEF AtRest, ClosedAt, Towards
  <2>4. QED BY <2>2, <2>3
<1>5. CASE BeginClick
  <2>1. PICK d \in {1, -1} : Move(Towards(d)) /\ turn' = d
    BY <1>5 DEF BeginClick
  <2>2. /\ phase = 0 /\ bounce = Settled /\ released # 0
        /\ bounce' = 0 /\ released' = 0
        /\ phase' = Towards(turn') /\ UNCHANGED at
    BY <1>5, <2>1 DEF BeginClick, Move, AtRest
  <2>3. at \notin {"stepUp", "stepDown"}
    BY <2>2
  <2>4. CASE rot_enc_flag = 0
    BY <1>5, <2>1, <2>2, <2>3, <2>4
       DEF BeginClick, Flagged, Move, ISR, ClosedAt, AtRest
  <2>5. CASE rot_enc_flag = 1
    BY <1>5, <2>1, <2>2, <2>3, <2>5
       DEF BeginClick, Flagged, Move, ISR, ClosedAt, AtRest
  <2>6. QED BY <2>4, <2>5 DEF TypeOK
<1>6. CASE Bounce
  <2>1. /\ bounce # Settled
        /\ Move(IF phase = 0 THEN ClosedAt ELSE 0)
        /\ UNCHANGED <<turn, bounce, released>>
    BY <1>6 DEF Bounce, contact
  <2>2. /\ UNCHANGED <<turn, bounce, released, at>>
        /\ bounce' # Settled
        /\ phase' \in {0, ClosedAt} /\ ClosedAt' = ClosedAt
        /\ released = 0 => ClosedAt = Towards(turn)
    BY <2>1 DEF Move, ClosedAt, Towards
  <2>3. CASE Flagged
    <3>1. /\ rot_enc_flag' = 1 /\ TCNT0' = 0
          /\ h_stale' = IF released # 0 THEN 1 ELSE 0
          /\ rot_enc_flag = 0
      BY <1>6, <2>1, <2>3 DEF Bounce, Move, ISR, Flagged
    <3>2. TCNT0' <= bounce'
      BY <2>2, <3>1 DEF TypeOK
    <3>3. QED BY <2>2, <3>1, <3>2 DEF Towards
  <2>4. CASE ~Flagged
    <3>1. UNCHANGED <<rot_enc_flag, TCNT0, h_stale>>
      BY <1>6, <2>1, <2>4 DEF Bounce, Move, ISR, Flagged, timers
    <3>2. QED BY <2>2, <3>1 DEF Towards
  <2>5. QED BY <2>3, <2>4
<1>7. CASE EndClick
  <2>1. rot_enc_flag = 0 /\ bounce = Settled /\ phase # 0 /\ released = 0
    BY <1>7 DEF EndClick, AtRest
  <2>2. UNCHANGED <<rot_enc_flag, at, turn, h_stale>>
    BY <1>7, <2>1 DEF EndClick, Move, history
  <2>3. \/ phase' = 0 /\ released' # 0 /\ bounce' \in {0, Settled}
        \/ phase' # 0 /\ released' = 0 /\ bounce' = Settled
    BY <1>7, <2>1 DEF EndClick, Move, contact
  <2>4. QED BY <2>1, <2>2, <2>3 DEF AtRest
<1>8. CASE SubPost
  BY <1>8 DEF SubPost, Ask, dial, contact, AtRest, ClosedAt, Towards
<1>9. CASE UNCHANGED vars
  BY <1>9 DEF vars, dial, contact, timers, history, AtRest, ClosedAt, Towards
<1>10. QED BY <1>1, <1>2, <1>3, <1>4, <1>5, <1>6, <1>7, <1>8, <1>9
         DEF SteadyNext, CheckRotary

(* The setpoint is off by a step at most for each release that was flagged *)
(* and whose flag has come to hide a click.                                *)
Off == desired_temp - (20 * Degree + Click * (h_asked - Pending))
ExactInv == LET k == h_phantoms - h_stale
            IN  Off \in -(Click * k) .. Click * k

LEMMA NextExact ==
  ASSUME TypeOK, SteadyInv, ExactInv, [SteadyNext]_vars
  PROVE  ExactInv'
<1> DEFINE net == h_asked - Pending
           k == h_phantoms - h_stale
<1>1. /\ net \in Int /\ k \in Int /\ desired_temp \in Int
      /\ Off = desired_temp - (20 * Degree + Click * net)
      /\ Click * (net + 1) = Click * net + Click
      /\ Click * (net - 1) = Click * net - Click
      /\ Click * net \in Int /\ 20 * Degree \in Int
  BY DEF Pending, TypeOK, Off
<1>2. Off \in Int /\ Off \in -(Click * k) .. Click * k
  BY <1>1 DEF ExactInv
<1>3. Off' = desired_temp' - (20 * Degree + Click * net')
  BY DEF Off
<1>4. CASE Off' = Off /\ k' = k
  BY <1>2, <1>4 DEF ExactInv
<1>5. CASE /\ Off' = Off \/ Off' = Off + Click \/ Off' = Off - Click
           /\ k' = k + 1
  <2>1. Off' \in -(Click * (k + 1)) .. Click * (k + 1)
    BY <1>1, <1>2, <1>5, OneMoreClick
  <2>2. QED BY <1>5, <2>1 DEF ExactInv
<1>6. CASE /\ desired_temp' = desired_temp /\ net' = net
           /\ k' = k \/ k' = k + 1
  BY <1>1, <1>3, <1>4, <1>5, <1>6
<1>7. CASE Step
  <2>1. /\ rot_enc_flag = 1 /\ rot_enc_flag' = 0 /\ h_asked' = h_asked
        /\ released = 0 /\ k' = k /\ UNCHANGED turn
        /\ (at = "stepUp" /\ turn = 1) \/ (at = "stepDown" /\ turn = -1)
    BY <1>7 DEF Step, SteadyInv, TakenInv, history, asked, dial
  <2>2. net' = net + turn
    BY <2>1 DEF Pending, TypeOK
  <2>3. \/ turn = 1 /\ desired_temp' = desired_temp + Click
        \/ turn = -1 /\ desired_temp' = desired_temp - Click
    BY <1>7, <2>1 DEF Step
  <2>4. Off' = Off
    BY <1>1, <1>3, <2>2, <2>3
  <2>5. QED BY <1>4, <2>1, <2>4
<1>8. CASE SubPost
  <2>1. PICK d \in {1, -1} : Ask(d) /\ desired_temp' = desired_temp + d * Click
    BY <1>8 DEF SubPost
  <2>2. net' = net + d /\ k' = k
    BY <1>8, <2>1 DEF SubPost, Ask, Pending, TypeOK, dial, contact
  <2>3. \/ d = 1 /\ desired_temp' = desired_temp + Click
        \/ d = -1 /\ desired_temp' = desired_temp - Click
    BY <1>1, <2>1
  <2>4. Off' = Off
    BY <1>1, <1>3, <2>2, <2>3
  <2>5. QED BY <1>4, <2>2, <2>4
<1>9. CASE BeginClick
  <2>1. PICK d \in {1, -1} :
          Move(Towards(d)) /\ turn' = d /\ h_asked' = h_asked + d
    BY <1>9 DEF BeginClick
  <2>2. released # 0 /\ released' = 0
    BY <1>9 DEF BeginClick, SteadyInv, PlaceInv, AtRest
  <2>3. rot_enc_flag' = 1 /\ UNCHANGED desired_temp
    BY <1>9, <2>1 DEF BeginClick, Move, ISR, TypeOK
  <2>4. net' = net
    BY <2>1, <2>2, <2>3 DEF Pending, TypeOK
  <2>5. k' = k \/ k' = k + 1
    BY <1>9 DEF BeginClick, TypeOK
  <2>6. QED BY <1>6, <2>3, <2>4, <2>5
<1>10. CASE Bounce
  <2>1. /\ Move(IF phase = 0 THEN ClosedAt ELSE 0)
        /\ UNCHANGED <<turn, bounce, released, h_asked, desired_temp>>
        /\ bounce # Settled
    BY <1>10 DEF Bounce, Move, contact, asked
  <2>2. CASE ~Flagged
    <3>1. UNCHANGED rot_enc_flag /\ k' = k
      BY <1>10, <2>1, <2>2 DEF Bounce, Flagged, Move, ISR
    <3>2. net' = net
      BY <2>1, <3>1 DEF Pending
    <3>3. QED BY <1>6, <2>1, <3>1, <3>2
  <2>3. CASE Flagged /\ released # 0
    <3>1. h_phantoms' = h_phantoms + 1 /\ h_stale' = 1
      BY <1>10, <2>3 DEF Bounce
    <3>2. k' = k \/ k' = k + 1
      BY <3>1 DEF TypeOK
    <3>3. net' = net
      BY <2>1, <2>3 DEF Pending
    <3>4. QED BY <1>6, <2>1, <3>2, <3>3
  <2>4. CASE Flagged /\ released = 0
    <3>1. /\ rot_enc_flag = 0 /\ rot_enc_flag' = 1
          /\ h_phantoms' = h_phantoms /\ h_stale' = 0
      BY <1>10, <2>1, <2>4 DEF Bounce, Flagged, Move, ISR
    <3>2. h_stale = 1
      BY <2>1, <2>4, <3>1 DEF SteadyInv, WaitInv, TypeOK
    <3>3. k' = k + 1
      BY <3>1, <3>2 DEF TypeOK
    <3>4. net' = net - turn
      BY <2>1, <2>4, <3>1 DEF Pending, TypeOK
    <3>5. Off' = Off + Click \/ Off' = Off - Click
      BY <1>1, <1>3, <2>1, <3>4 DEF TypeOK
    <3>6. QED BY <1>5, <3>3, <3>5
  <2>5. QED BY <2>2, <2>3, <2>4
<1>11. CASE EndClick
  <2>1. /\ rot_enc_flag = 0
        /\ UNCHANGED <<rot_enc_flag, h_asked, h_phantoms, h_stale, desired_temp>>
    BY <1>11 DEF EndClick, Move, history, asked
  <2>2. net' = net /\ k' = k
    BY <2>1 DEF Pending
  <2>3. QED BY <1>6, <2>1, <2>2
<1>12. CASE \/ Sample \/ CheckWindow \/ ClearChange \/ ClearTimer
            \/ SteadyTick \/ UNCHANGED vars
  <2>1. net' = net /\ k' = k /\ desired_temp' = desired_temp
    BY <1>12 DEF Sample, CheckWindow, ClearChange, ClearTimer, SteadyTick,
                 Advance, vars, dial, contact, history, asked, Pending
  <2>2. QED BY <1>6, <2>1
<1>13. QED BY <1>7, <1>8, <1>9, <1>10, <1>11, <1>12 DEF SteadyNext, CheckRotary

LEMMA InitSteady == Init => TypeOK /\ SteadyInv /\ ExactInv
BY DEF Init, TypeOK, SteadyInv, PlaceInv, WaitInv, TakenInv, AtRest, ExactInv,
       Off, Pending

LEMMA ExactIsEnough == ASSUME TypeOK, ExactInv PROVE SetpointExact
<1>1. CASE h_stale = 0
  BY <1>1 DEF TypeOK, ExactInv, Off, SetpointExact
<1>2. CASE h_stale = 1
  <2>1. Off \in Int
    BY DEF TypeOK, Off, Pending
  <2>2. /\ h_phantoms - 1 \in Int
        /\ Off \in -(Click * (h_phantoms - 1)) .. Click * (h_phantoms - 1)
    BY <1>2 DEF TypeOK, ExactInv
  <2>3. /\ h_phantoms - 1 + 1 = h_phantoms
        /\ Off \in -(Click * (h_phantoms - 1 + 1)) .. Click * (h_phantoms - 1 + 1)
    BY <2>1, <2>2, OneMoreClick DEF TypeOK
  <2>4. QED BY <2>3 DEF Off, SetpointExact
<1>3. QED BY <1>1, <1>2 DEF TypeOK

(* With a steady hand the setpoint is what was asked for, but for one step *)
(* at most after each release whose bounce was flagged: a contact that     *)
(* bounces when it closes counts once, and in the right direction.         *)
THEOREM SteadyHandExact == SteadySpec => []SetpointExact
<1>1. TypeOK /\ SteadyInv /\ ExactInv /\ [SteadyNext]_vars
        => (TypeOK /\ SteadyInv /\ ExactInv)'
  BY NextType, NextSteady, NextExact DEF AnyNext
<1>2. TypeOK /\ ExactInv => SetpointExact
  BY ExactIsEnough
<1>3. QED BY InitSteady, <1>1, <1>2, PTL DEF SteadySpec

(* The same of the steady one of two users: the hand never changes, so     *)
(* each step of his is a SteadyNext step.                                  *)
HandInv == Steady => TypeOK /\ SteadyInv /\ ExactInv

(* With either hand at the dial, each click of the steady one moves the    *)
(* setpoint by one step, in its direction, and by one more at most after a *)
(* release whose bounce was flagged (rotaryencoder.c:11-48).               *)
THEOREM SteadySetpointIsExact == MCSpec => []SteadySetpointExact
<1>1. MCInit => HandInv
  BY InitSteady DEF MCInit, HandInv
<1>2. HandInv /\ [FastNext \/ PatientNext]_mcvars => HandInv'
  <2> SUFFICES ASSUME HandInv, [FastNext \/ PatientNext]_mcvars, Steady'
               PROVE  (TypeOK /\ SteadyInv /\ ExactInv)'
    BY DEF HandInv
  <2>1. UNCHANGED hand
    BY DEF FastNext, PatientNext, mcvars
  <2>2. Steady /\ ~Fast
    BY <2>1 DEF Steady, Fast
  <2>3. [SteadyNext]_vars
    BY <2>2 DEF FastNext, PatientNext, mcvars
  <2>4. QED BY <2>2, <2>3, NextType, NextSteady, NextExact
            DEF HandInv, AnyNext
<1>3. HandInv => SteadySetpointExact
  BY ExactIsEnough DEF HandInv, SteadySetpointExact
<1>4. QED BY <1>1, <1>2, <1>3, PTL DEF MCSpec
=============================================================================
