-------------------------- MODULE MCRotaryEncoder --------------------------
(* A small instance of RotaryEncoder in the hands of either user; hand     *)
(* says which, and never changes.  The scaled timers keep the order of the *)
(* real ones: debounce time, pass of the main loop, range of TCNT0; and    *)
(* window, range of TCNT1.                                                 *)
EXTENDS RotaryEncoder

VARIABLE hand
mcvars == <<vars, hand>>

Steady == hand = "steady"
Fast   == hand = "fast"

FastNext   == Fast /\ Next /\ UNCHANGED hand
PatientNext == Steady /\ SteadyNext /\ UNCHANGED hand

MCInit == Init /\ hand \in {"steady", "fast"}

MCSpec ==
  /\ MCInit
  /\ [][FastNext \/ PatientNext]_mcvars
  /\ WF_mcvars(CheckRotary /\ UNCHANGED hand)
  /\ WF_mcvars(Fast /\ Tick /\ UNCHANGED hand)
  /\ SF_mcvars(Steady /\ SteadyTick /\ UNCHANGED hand)
  /\ WF_mcvars(Steady /\ Bounce /\ ~AtRest /\ UNCHANGED hand)

(* What RotaryEncoder promises of the steady hand alone: the setpoint is   *)
(* what was asked for, but for one step at most after each release that    *)
(* bounced (rotaryencoder.c:13, 24-42) ...                                 *)
SteadySetpointExact == Steady => SetpointExact

(* ... and every click is in the end taken (rotaryencoder.c:25).           *)
SteadyClickServed == Steady => ClickServed
=============================================================================
