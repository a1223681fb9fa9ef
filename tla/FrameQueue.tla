----------------------------- MODULE FrameQueue -----------------------------
(***************************************************************************)
(* What the rest of the program may rely on of the ethernet controller and *)
(* its driver (src/src/enc28j60.c): the frames the controller has accepted *)
(* wait in a queue, and each call of enc28j60_packet_receive hands over    *)
(* the oldest, whole, once and in order, or nothing.  A frame may be lost  *)
(* before it is in the queue, and all of them in a restart.                *)
(***************************************************************************)
EXTENDS Sequences

CONSTANTS Frame,     \* the frames that may be handed over
          Nothing    \* what a call returns when there is none: length 0

VARIABLES queue,     \* what the calls to come will return
          received   \* what the last call has returned

vars == <<queue, received>>

Init ==
  /\ queue = <<>>
  /\ received = Nothing

(* A damaged frame is taken from the controller and returned as nothing.   *)
Arrive ==
  /\ \E f \in Frame \cup {Nothing} : queue' = Append(queue, f)
  /\ UNCHANGED received

Receive ==
  /\ queue # <<>>
  /\ received' = Head(queue)
  /\ queue' = Tail(queue)

ReceiveNothing ==
  /\ queue = <<>>
  /\ received' = Nothing
  /\ UNCHANGED queue

Restart ==
  /\ queue' = <<>>
  /\ received' = Nothing

Next == Arrive \/ Receive \/ ReceiveNothing \/ Restart

(* A frame in the queue is handed over in the end.                         *)
Spec == Init /\ [][Next]_vars /\ WF_vars(Receive)
=============================================================================
