------------------------------ MODULE TcpReply ------------------------------
(***************************************************************************)
(* The sequence numbers of an answer: tcp_send_packet of src/src/tcp.c,    *)
(* called for each packet of an answer by http_webserver_process           *)
(* (src/src/http.c).  There is no record of a connection: the numbers of   *)
(* an answer are worked out in place in the header of the request, in the  *)
(* one buffer, and from the lengths of the parts already sent, kept in     *)
(* global variables.                                                       *)
(*                                                                         *)
(* A number is NBytes bytes of two digits, most significant first.         *)
(***************************************************************************)
EXTENDS Integers, Functions

CONSTANTS Digit,      \* 16: the base the numbers are added in
          NBytes,     \* 4: the bytes of a sequence number
          Lengths,    \* bound: the lengths of the parts of a page
          Requests    \* bound: the numbers in the headers of the clients

Byte   == Digit * Digit
Places == 0 .. NBytes - 1

(* What a digit stands for in each place, the lowest first.                *)
Weight[y \in 0 .. 2 * NBytes] == IF y = 0 THEN 1 ELSE Digit * Weight[y - 1]

Number == Weight[2 * NBytes]    \* 2^32, the range of a DWORD

TcpAssumption ==
  /\ Digit \in Nat /\ Digit > 1
  /\ NBytes \in Nat /\ NBytes > 1
  /\ Lengths \subseteq Nat \ {0}
  /\ Requests \subseteq [seq : [Places -> 0 .. Byte - 1],
                          ack : [Places -> 0 .. Byte - 1]]

VARIABLES SEQ, SEQACK,     \* the two numbers in the header in the buffer
          seqnum,          \* the byte that starts the next connection
          packet,          \* the part of a page that is being sent
          prev_dlength0,   \* the length of part 0
          prev_dlength2,   \* the length of part 2
          prev_dlength,    \* the length the number advances by
          next,            \* the packet to be sent next
          h_expected,      \* history: the byte the client expects next
          h_received       \* history: the number of the segment answered

header  == <<SEQ, SEQACK>>
lengths == <<prev_dlength0, prev_dlength2, prev_dlength>>
history == <<h_expected, h_received>>
vars    == <<header, seqnum, packet, lengths, next, history>>

(* What the bytes stand for.                                               *)
Value(b) == SumFunction([i \in Places |-> b[i] * Weight[2 * (NBytes - 1 - i)]])

Init ==
  /\ SEQ = [i \in Places |-> 0]
  /\ SEQACK = [i \in Places |-> 0]
  /\ seqnum = 10 % Byte
  /\ packet = 0
  /\ prev_dlength0 = 0
  /\ prev_dlength2 = 0
  /\ prev_dlength = 0
  /\ next = "receive"
  /\ h_expected = 0
  /\ h_received = 0
-----------------------------------------------------------------------------
(* The two numbers change places; the one acknowledged goes up by one,     *)
(* byte by byte with a carry, from the last byte.                          *)

Carry[i \in 0 .. NBytes] ==
  IF i = NBytes THEN 1 ELSE (SEQ[i] + Carry[i + 1]) \div Byte

(* Faulty variant: the carry is dropped.                                   *)
Incremented_NoCarry == [SEQ EXCEPT ![NBytes - 1] = (@ + 1) % Byte]

Incremented == [i \in Places |-> (SEQ[i] + Carry[i + 1]) % Byte]

NextAck == SEQ' = SEQACK /\ SEQACK' = Incremented

(* The number is taken apart into digits, the lowest first, put together   *)
(* as a DWORD, and written back two digits to a byte.                      *)
prev_seq_value ==
  [y \in 0 .. 2 * NBytes - 1 |->
     LET b == SEQ[NBytes - 1 - y \div 2]
     IN  IF y % 2 = 0 THEN b % Digit ELSE b \div Digit]

prev_seq_total == SumFunction([y \in DOMAIN prev_seq_value |->
                                 prev_seq_value[y] * Weight[y]]) % Number

WriteNumber(n) ==
  SEQ' = [i \in Places |->
            LET low == n \div Weight[2 * (NBytes - 1 - i)]
            IN  (low % Digit) + Digit * ((low \div Digit) % Digit)]

(* Faulty variants: the second part of the settings page follows its       *)
(* first by the length of part 0; the length of part 2 is not kept.        *)
PrevLength_Stale(dlength) ==
  /\ prev_dlength0' = IF packet = 0 THEN dlength ELSE prev_dlength0
  /\ prev_dlength2' = IF packet = 2 THEN dlength ELSE prev_dlength2
  /\ prev_dlength'  = IF packet \in {1, 2} THEN prev_dlength0 ELSE prev_dlength

(* The length a part advances by is the length of the part before it.      *)
PrevLength(dlength) ==
  /\ prev_dlength0' = IF packet = 0 THEN dlength ELSE prev_dlength0
  /\ prev_dlength2' = IF packet = 2 THEN dlength ELSE prev_dlength2
  /\ prev_dlength' = CASE packet = 0 -> prev_dlength
                       [] packet \in {1, 2} -> prev_dlength0
                       [] packet = 3 -> prev_dlength2

NextSeq(dlength) ==
  /\ PrevLength(dlength)
  /\ IF packet = 0
     THEN UNCHANGED SEQ
     ELSE WriteNumber((prev_dlength' + prev_seq_total) % Number)
  /\ UNCHANGED SEQACK

(* A connection starts at a number of its own, whatever the client sent.   *)
StartConnection ==
  /\ SEQACK' = Incremented
  /\ SEQ' = [i \in Places |-> IF i = NBytes - 2 THEN seqnum ELSE 0]
  /\ seqnum' = (seqnum + 2) % Byte
-----------------------------------------------------------------------------
(* http_webserver_process.                                                 *)

(* A segment of a client with the numbers n in its header, which is a SYN, *)
(* a FIN, or carries a request; `to` is what answers it.                   *)
Receive(n, to) ==
  /\ next = "receive"
  /\ SEQ' = n.seq
  /\ SEQACK' = n.ack
  /\ next' = to
  /\ h_received' = Value(n.seq)
  /\ h_expected' = Value(n.ack)
  /\ UNCHANGED <<seqnum, packet, lengths>>

SendSynAck ==
  /\ next = "synack"
  /\ StartConnection
  /\ next' = "receive"
  /\ UNCHANGED <<packet, lengths, history>>

SendFinAck ==
  /\ next = "finack"
  /\ NextAck
  /\ next' = "receive"
  /\ UNCHANGED <<seqnum, packet, lengths, history>>

SendAck ==
  /\ next = "ack"
  /\ NextAck
  /\ packet' = 0
  /\ next' = "part0"
  /\ UNCHANGED <<seqnum, lengths, history>>

(* A part of the page, dlength bytes long, after which `then` is sent.     *)
SendPart(n, then, dlength) ==
  /\ packet = n
  /\ NextSeq(dlength)
  /\ h_expected' = (h_expected + dlength) % Number
  /\ next' = then
  /\ UNCHANGED <<seqnum, h_received>>

SendPart0(dlength) ==
  /\ next = "part0"
  /\ \/ SendPart(0, "part1", dlength) /\ packet' = 1
     \/ SendPart(0, "part2", dlength) /\ packet' = 2

SendPart1(dlength) ==
  /\ next = "part1"
  /\ SendPart(1, "receive", dlength)
  /\ UNCHANGED packet

SendPart2(dlength) ==
  /\ next = "part2"
  /\ SendPart(2, "part3", dlength)
  /\ packet' = 3

SendPart3(dlength) ==
  /\ next = "part3"
  /\ SendPart(3, "receive", dlength)
  /\ UNCHANGED packet

SendPage(dlength) ==
  SendPart0(dlength) \/ SendPart1(dlength)
    \/ SendPart2(dlength) \/ SendPart3(dlength)

Next == \/ \E n \in Requests, to \in {"synack", "finack", "ack"} : Receive(n, to)
        \/ SendSynAck \/ SendFinAck \/ SendAck
        \/ \E dlength \in Lengths : SendPage(dlength)

Spec == Init /\ [][Next]_vars
-----------------------------------------------------------------------------
Sends == {"ack", "finack", "part0", "part1", "part2", "part3"}

(* The parts of an answer join without a gap or an overlap: each packet    *)
(* starts at the byte the client expects next, for every number the client *)
(* uses, past 2^32 included, whatever the lengths of earlier answers left  *)
(* in the global variables (tcp.c:120-197).                                *)
Contiguous == [][(next \in Sends) => Value(SEQ') = h_expected]_vars

(* Every packet of an answer acknowledges the byte after the first one of  *)
(* the segment it answers, through all carries (tcp.c:110-125).            *)
AcksFirstByte ==
  [][(next \in Sends \cup {"synack"})
       => Value(SEQACK') = (h_received + 1) % Number]_vars
=============================================================================
