----------------------------- MODULE MCEnc28j60 -----------------------------
(* A small instance of Enc28j60.  The ring has room for three of the       *)
(* shortest frames, so that it fills before the count of packets does, and *)
(* turns every two or three frames.  Two frames that pass the filter, of   *)
(* different lengths, one that does not and one that is too long.          *)
EXTENDS Enc28j60

MCNetwork == { [dst |-> "own", type |-> "ip", len |-> 1],
               [dst |-> "broadcast", type |-> "arp", len |-> 2],
               [dst |-> "broadcast", type |-> "ip", len |-> 1],
               [dst |-> "own", type |-> "ip", len |-> 3] }
=============================================================================
