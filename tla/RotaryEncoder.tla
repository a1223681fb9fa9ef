---------------------------- MODULE RotaryEncoder ----------------------------
(***************************************************************************)
(* The setpoint dial, src/src/rotaryencoder.c: the interrupt handler       *)
(* ISR(INT2_vect), check_rotary, which the main loop calls once per pass,  *)
(* and the web command "3Fsub" (src/src/http.c), which moves the same      *)
(* setpoint.  The interrupt may arrive between any two steps of            *)
(* check_rotary; both sides use the free-running timers TCNT0 and TCNT1    *)
(* and the flags rot_enc_flag and rot_enc_change.                          *)
(*                                                                         *)
(* The dial is a quadrature encoder with outputs A and B.  Its phase is 0  *)
(* with both outputs high (at rest), 1 with A low, 2 with both low and 3   *)
(* with B low.  An AND gate of the two is pin PB2, whose falling edge is   *)
(* the interrupt; B is pin PB3.                                            *)
(*                                                                         *)
(* Two users are described.  Spec has one who turns the dial at any speed, *)
(* back and forth.  SteadySpec has one who waits for each click to be      *)
(* taken; the contact may still bounce for as long as the code waits, when *)
(* the click begins and when the dial comes back to rest.                  *)
(***************************************************************************)
EXTENDS Integers

CONSTANTS T0Debounce,   \* ticks of TCNT0 to wait before reading the dial: 16
          T0Mod,        \* 2^8, the range of TCNT0
          T1Window,     \* ticks of TCNT1 the setpoint stays in view: 45000
          T1Mod,        \* 2^16, the range of TCNT1
          MinLoop,      \* the least and the most ticks from one reading of
          MaxLoop,      \* the dial to the next, a pass of the main loop
          Click,        \* a tenth of a degree
          MaxInputs     \* bound: clicks and web commands considered

Degree == 10 * Click

ASSUME RotaryAssumption ==
  /\ T0Debounce \in Nat /\ T0Mod \in Nat
  /\ T1Window \in Nat /\ T1Mod \in Nat
  /\ MinLoop \in Nat /\ MaxLoop \in Nat
  /\ T0Debounce < MinLoop
  /\ MinLoop <= MaxLoop
  /\ MaxLoop + T0Debounce < T0Mod
  /\ T1Window + 2 * MaxLoop < T1Mod
  /\ Click \in Nat \ {0}
  /\ MaxInputs \in Nat

VARIABLES rot_enc_flag,    \* a click waits to be read
          rot_enc_change,  \* the setpoint is in view and the relays hold
          desired_temp,    \* the setpoint
          TCNT0, TCNT1,    \* the timers
          at,              \* where the main loop is in check_rotary
          elapsed,         \* ticks since check_rotary last read the dial
          phase,           \* the phase of the dial
          turn,            \* the direction of the last click, 1 or -1
          bounce,          \* steady hand: ticks since its contact closed
                           \* or opened, while it may bounce; Settled
                           \* afterwards
          released,        \* steady hand: 0 from the beginning of a click
                           \* on; at rest, the phase the dial came from
          h_asked,         \* history: clicks and web commands, with sign
          h_inputs,        \* history: the same, counted
          h_phantoms,      \* history: interrupts of a bouncing release that
                           \* were flagged as a click
          h_stale          \* history: the last one flagged was such a one

timers  == <<TCNT0, TCNT1>>
asked   == <<h_asked, h_inputs>>
history == <<asked, h_phantoms, h_stale>>
contact == <<bounce, released>>
dial    == <<phase, turn, contact>>
vars    == <<rot_enc_flag, rot_enc_change, desired_temp, timers,
             at, elapsed, dial, history>>

Settled == T0Debounce + 1
Labels  == {"elsewhere", "stepUp", "stepDown",
            "expiry", "clearChange", "clearTimer"}

PB2Low  == phase # 0
PB3High == phase \in {0, 1}
Towards(d) == IF d = 1 THEN 1 ELSE 3

(* Where the contact of a steady hand comes to rest: closed in a click,    *)
(* open after it; and the phase it closes in.                              *)
AtRest   == (phase = 0) = (released # 0)
ClosedAt == IF released = 0 THEN Towards(turn) ELSE released

TypeOK ==
  /\ rot_enc_flag \in {0, 1}
  /\ rot_enc_change \in {0, 1}
  /\ desired_temp \in Int
  /\ TCNT0 \in 0 .. T0Mod - 1
  /\ TCNT1 \in 0 .. T1Mod - 1
  /\ at \in Labels
  /\ elapsed \in 0 .. MaxLoop
  /\ phase \in 0 .. 3
  /\ turn \in {1, -1}
  /\ bounce \in 0 .. Settled
  /\ h_asked \in Int
  /\ h_inputs \in 0 .. MaxInputs
  /\ released \in {0, 1, 3}
  /\ h_phantoms \in Nat
  /\ h_stale \in {0, 1}

(* The timers run from the first lines of main, ahead of the first pass.   *)
Init ==
  /\ rot_enc_flag = 0
  /\ rot_enc_change = 0
  /\ desired_temp = 20 * Degree
  /\ TCNT0 \in 0 .. T0Mod - 1
  /\ TCNT1 = 0
  /\ at = "elsewhere"
  /\ elapsed = 0
  /\ phase = 0
  /\ turn = 1
  /\ bounce = Settled
  /\ released = 1
  /\ h_asked = 0
  /\ h_inputs = 0
  /\ h_phantoms = 0
  /\ h_stale = 0
-----------------------------------------------------------------------------
(* The clock.  A pass of the main loop takes at most MaxLoop ticks.        *)

Advance ==
  /\ elapsed < MaxLoop
  /\ TCNT0' = (TCNT0 + 1) % T0Mod
  /\ TCNT1' = (TCNT1 + 1) % T1Mod
  /\ elapsed' = elapsed + 1
  /\ UNCHANGED <<rot_enc_flag, rot_enc_change, desired_temp, at,
                 phase, turn, history>>

Tick == Advance /\ UNCHANGED contact

(* With a steady hand the contact has come to rest one tick after the      *)
(* debounce time.                                                          *)
SteadyTick ==
  /\ Advance
  /\ UNCHANGED released
  /\ bounce = T0Debounce => AtRest
  /\ bounce' = IF bounce = Settled THEN Settled ELSE bounce + 1
-----------------------------------------------------------------------------
(* check_rotary, one action per access to what the interrupt shares.       *)

(* The click is read if it waits, the noise has passed and PB2 is low;     *)
(* otherwise it keeps waiting.                                             *)
(* Faulty variants: no wait for the noise to pass, and an exact one.       *)
Readable_NoWait == rot_enc_flag = 1 /\ PB2Low
Readable_Exact  == rot_enc_flag = 1 /\ TCNT0 = T0Debounce + 1 /\ PB2Low

Readable == rot_enc_flag = 1 /\ TCNT0 > T0Debounce /\ PB2Low

Sample ==
  /\ at = "elsewhere"
  /\ elapsed >= MinLoop
  /\ elapsed' = 0
  /\ \/ Readable /\ PB3High /\ at' = "stepUp"
     \/ Readable /\ ~PB3High /\ at' = "stepDown"
     \/ ~Readable /\ at' = "expiry"
  /\ UNCHANGED <<rot_enc_flag, rot_enc_change, desired_temp, timers,
                 dial, history>>

(* Faulty variant: the click stays flagged after it has been taken.        *)
Step_KeepFlag ==
  /\ \/ at = "stepUp" /\ desired_temp' = desired_temp + Click
     \/ at = "stepDown" /\ desired_temp' = desired_temp - Click
  /\ at' = "expiry"
  /\ UNCHANGED <<rot_enc_flag, rot_enc_change, timers, elapsed, dial, history>>

Step ==
  /\ \/ at = "stepUp" /\ desired_temp' = desired_temp + Click
     \/ at = "stepDown" /\ desired_temp' = desired_temp - Click
  /\ rot_enc_flag' = 0
  /\ at' = "expiry"
  /\ UNCHANGED <<rot_enc_change, timers, elapsed, dial, history>>

(* Faulty variants: the window one tick short, and tested for one tick     *)
(* only.                                                                   *)
CheckWindow_Early ==
  /\ at = "expiry"
  /\ at' = IF TCNT1 >= T1Window THEN "clearChange" ELSE "elsewhere"
  /\ UNCHANGED <<rot_enc_flag, rot_enc_change, desired_temp, timers,
                 elapsed, dial, history>>

CheckWindow_Exact ==
  /\ at = "expiry"
  /\ at' = IF TCNT1 = T1Window + 1 THEN "clearChange" ELSE "elsewhere"
  /\ UNCHANGED <<rot_enc_flag, rot_enc_change, desired_temp, timers,
                 elapsed, dial, history>>

CheckWindow ==
  /\ at = "expiry"
  /\ at' = IF TCNT1 > T1Window THEN "clearChange" ELSE "elsewhere"
  /\ UNCHANGED <<rot_enc_flag, rot_enc_change, desired_temp, timers,
                 elapsed, dial, history>>

(* Faulty variant: only the timer is cleared.                              *)
ClearChange_Skip ==
  /\ at = "clearChange"
  /\ at' = "clearTimer"
  /\ UNCHANGED <<rot_enc_flag, rot_enc_change, desired_temp, timers,
                 elapsed, dial, history>>

ClearChange ==
  /\ at = "clearChange"
  /\ rot_enc_change' = 0
  /\ at' = "clearTimer"
  /\ UNCHANGED <<rot_enc_flag, desired_temp, timers, elapsed, dial, history>>

(* Faulty variant: the timer runs on.                                      *)
ClearTimer_Keep ==
  /\ at = "clearTimer"
  /\ at' = "elsewhere"
  /\ UNCHANGED <<rot_enc_flag, rot_enc_change, desired_temp, timers,
                 elapsed, dial, history>>

ClearTimer ==
  /\ at = "clearTimer"
  /\ TCNT1' = 0
  /\ at' = "elsewhere"
  /\ UNCHANGED <<rot_enc_flag, rot_enc_change, desired_temp, TCNT0,
                 elapsed, dial, history>>

CheckRotary == Sample \/ Step \/ CheckWindow \/ ClearChange \/ ClearTimer
-----------------------------------------------------------------------------
(* The interrupt: a falling edge of PB2, which leaves phase 0.             *)

(* Faulty variant: every edge counts, whether or not one waits.            *)
ISR_Count ==
  /\ TCNT0' = 0
  /\ TCNT1' = 0
  /\ rot_enc_flag' = rot_enc_flag + 1
  /\ rot_enc_change' = 1

ISR ==
  \/ /\ rot_enc_flag = 0
     /\ TCNT0' = 0
     /\ TCNT1' = 0
     /\ rot_enc_flag' = 1
     /\ rot_enc_change' = 1
  \/ /\ rot_enc_flag # 0
     /\ UNCHANGED <<timers, rot_enc_flag, rot_enc_change>>

Move(to) ==
  /\ phase' = to
  /\ \/ phase = 0 /\ ISR
     \/ phase # 0 /\ UNCHANGED <<timers, rot_enc_flag, rot_enc_change>>
  /\ UNCHANGED <<desired_temp, at, elapsed>>

Adjacent(p) == {(p + 1) % 4, (p + 3) % 4}

Ask(d) ==
  /\ h_inputs < MaxInputs
  /\ h_inputs' = h_inputs + 1
  /\ h_asked' = h_asked + d
  /\ UNCHANGED <<h_phantoms, h_stale>>

(* Turning at any speed.  An edge that finds a click still waiting is      *)
(* lost.                                                                   *)
Turn ==
  \/ /\ phase = 0
     /\ \E d \in {1, -1} :
          /\ Move(Towards(d))
          /\ turn' = d
          /\ IF rot_enc_flag = 0 THEN Ask(d) ELSE UNCHANGED history
     /\ UNCHANGED contact
  \/ /\ phase # 0
     /\ \E to \in Adjacent(phase) : Move(to)
     /\ UNCHANGED <<turn, contact, history>>

(* Turning with a steady hand: a click begins, bounces between rest and    *)
(* its first phase, and the dial moves on when the click has been taken.   *)
(* Coming back to rest it may bounce again.  What is flagged then is no    *)
(* click: it waits, and hides the beginning of the next one from the       *)
(* handler (rotaryencoder.c:13).                                           *)
Flagged == phase = 0 /\ rot_enc_flag = 0

BeginClick ==
  /\ phase = 0
  /\ bounce = Settled
  /\ h_inputs < MaxInputs
  /\ \E d \in {1, -1} :
       Move(Towards(d)) /\ turn' = d /\ h_asked' = h_asked + d
  /\ h_inputs' = h_inputs + 1
  /\ bounce' = 0
  /\ released' = 0
  /\ h_stale' = IF Flagged THEN 0 ELSE h_stale
  /\ UNCHANGED h_phantoms

Bounce ==
  /\ bounce # Settled
  /\ Move(IF phase = 0 THEN ClosedAt ELSE 0)
  /\ h_phantoms' = IF Flagged /\ released # 0 THEN h_phantoms + 1 ELSE h_phantoms
  /\ h_stale' = IF ~Flagged THEN h_stale ELSE IF released # 0 THEN 1 ELSE 0
  /\ UNCHANGED <<turn, contact, asked>>

EndClick ==
  /\ phase # 0
  /\ bounce = Settled
  /\ rot_enc_flag = 0
  /\ \/ /\ 0 \in Adjacent(phase)
        /\ Move(0)
        /\ released' = phase
        /\ bounce' \in {0, Settled}
     \/ /\ \E to \in Adjacent(phase) \ {0} : Move(to)
        /\ UNCHANGED contact
  /\ UNCHANGED <<turn, history>>

(* The web command "3Fsub" with 'u' or 'd', served by the main loop        *)
(* outside check_rotary.                                                   *)
SubPost ==
  /\ at = "elsewhere"
  /\ \E d \in {1, -1} : Ask(d) /\ desired_temp' = desired_temp + d * Click
  /\ TCNT1' = 0
  /\ rot_enc_change' = 1
  /\ UNCHANGED <<rot_enc_flag, TCNT0, at, elapsed, dial>>

Next == CheckRotary \/ Tick \/ Turn \/ SubPost
SteadyNext == CheckRotary \/ SteadyTick \/ BeginClick \/ Bounce \/ EndClick
                \/ SubPost

Spec == Init /\ [][Next]_vars
SteadySpec == Init /\ [][SteadyNext]_vars

(* The main loop and the clock never stop, and a bouncing contact comes to *)
(* rest (Bounce gets it there, SteadyTick leaves it there).                *)
FairSpec == Spec /\ WF_vars(CheckRotary) /\ WF_vars(Tick)
FairSteadySpec ==
  /\ SteadySpec
  /\ WF_vars(CheckRotary)
  /\ SF_vars(SteadyTick)
  /\ WF_vars(Bounce /\ ~AtRest)
-----------------------------------------------------------------------------
(* With a steady hand the setpoint is what was asked for, click by click   *)
(* and command by command, but for the click that still waits: a contact   *)
(* that bounces when it closes counts once and in the right direction      *)
(* (rotaryencoder.c:24-42).  A release that bounces is flagged as a click  *)
(* if none waits (rotaryencoder.c:13); the next click is then read without *)
(* the wait and may count twice.  Each such release costs one step at the  *)
(* most, and without them the setpoint is exact.                           *)
Pending == IF rot_enc_flag = 1 /\ released = 0 THEN turn ELSE 0
SetpointExact ==
  desired_temp - (20 * Degree + Click * (h_asked - Pending))
    \in -(Click * h_phantoms) .. Click * h_phantoms

(* However the dial is turned, no interrupt or command moves the setpoint  *)
(* more than once, and one that still waits has not moved it; the          *)
(* interrupts of a bouncing release are interrupts like the others.        *)
AtMostOnePerInput ==
  LET taken == Click * (h_inputs + h_phantoms - rot_enc_flag)
  IN  desired_temp - 20 * Degree \in -taken .. taken

(* TCNT1 is read before it wraps: were the window to be missed, the relays *)
(* would hold for another 2^16 ticks (rotaryencoder.c:44).                 *)
WindowNotMissed == TCNT1 <= T1Window + 2 * MaxLoop

(* The view closes only when the window has run out, or when a click has   *)
(* arrived since the window was read (rotaryencoder.c:44-47).              *)
ClearOnlyWhenExpired ==
  [][rot_enc_change = 1 /\ rot_enc_change' = 0
       => TCNT1 > T1Window \/ rot_enc_flag = 1]_vars

(* When the user stops, the view closes and the relays are released.       *)
WindowCloses == rot_enc_change = 1 ~> rot_enc_change = 0

(* A click of a steady hand is in the end taken; what a bouncing release   *)
(* has flagged waits for the next one.                                     *)
ClickServed == rot_enc_flag = 1 /\ released = 0 ~> rot_enc_flag = 0

(* A click that waits to be taken is in view, as the technical report says *)
(* of turning the dial: the interrupt restarts the window.                 *)
ClickInView == rot_enc_flag = 1 /\ released = 0 => rot_enc_change = 1
=============================================================================
