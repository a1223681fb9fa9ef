--------------------------- MODULE ServerProcess ---------------------------
(***************************************************************************)
(* What the thermostat sends for each frame it receives: server_process of *)
(* src/src/main.c, with the answers of arp.c, icmp.c and tcp.c behind the  *)
(* headers of ethernet.c and ip.c.  An answer is written over the request, *)
(* in the one buffer rxtx_buffer, and the packets of a page one over the   *)
(* other; whom it goes to is read from the request before.  The numbers of *)
(* a TCP answer are those of TcpReply; which requests are answered with a  *)
(* page is for HttpServer to say.                                          *)
(*                                                                         *)
(* A hardware address is known by its host; IP addresses, ports and the    *)
(* other fields of a header that a checksum covers are words of two bytes; *)
(* all bytes of a page are the same, and all words of an echo's data.      *)
(***************************************************************************)
EXTENDS Integers, FiniteSets, Functions

CONSTANTS Digit, NBytes, Lengths, Requests,
          Avr,        \* the thermostat
          Stations,   \* the other hosts of the network
          Everyone,   \* the broadcast address
          Ip,         \* the IP address of each host
          Port,       \* the port a browser uses on each station
          Http,       \* 80
          IdMod,      \* 2^16, the range of ip_identfier
          Filling,    \* the byte a page is made of
          EchoSizes,  \* bound: total lengths of the echo requests considered
          EchoWords   \* bound: the words they are filled with

VARIABLES SEQ, SEQACK, seqnum, packet, prev_dlength0, prev_dlength2,
          prev_dlength, next, h_expected, h_received,
          rxtx_buffer,            \* the frame, but for SEQ and SEQACK
          sent,                   \* the bytes of it sent; 0 if it is a request
          client_mac, client_ip,  \* where the request came from
          dest_port,
          ip_identfier,           \* counts the IP packets sent
          h_asker                 \* history: the host that sent the request

Numbers == INSTANCE TcpReply

header  == <<SEQ, SEQACK>>
lengths == <<prev_dlength0, prev_dlength2, prev_dlength>>
numbers == <<header, seqnum, packet, lengths, h_expected, h_received>>
asker   == <<client_mac, client_ip, dest_port, h_asker>>
vars    == <<numbers, next, rxtx_buffer, sent, asker, ip_identfier>>

Byte  == Digit * Digit
Word  == Byte * Byte
Hosts == Stations \cup {Avr}

ASSUME ServerAssumption ==
  /\ Numbers!TcpAssumption
  /\ NBytes % 2 = 0
  /\ Avr \notin Stations /\ Everyone \notin Hosts
  /\ IsInjective(Ip) /\ Ip \in [Hosts -> 0 .. Word - 1]
  /\ Port \in [Stations -> (0 .. Word - 1) \ {Http}]
  /\ Http \in 0 .. Word - 1
  /\ Filling \in 0 .. Byte - 1
  /\ IdMod \in Nat /\ IdMod > 1
  /\ EchoSizes \subseteq Nat
  /\ EchoWords \subseteq 0 .. Word - 1

EthHeader  == 14
IpHeader   == 20
IcmpPacket == 40    \* eight bytes of header and 32 of data
TcpHeader  == 20
ArpPacket  == 28
-----------------------------------------------------------------------------
(* software_checksum (ethernet.c): the one's complement of the sum of all  *)
(* words, its carries added back until none is left.                       *)

Carried[sum \in Nat] ==
  IF sum < Word THEN sum ELSE Carried[(sum % Word) + sum \div Word]

(* Faulty variant: the carries are added back once.                        *)
software_checksum_Once(sum) ==
  (Word - 1) - (((sum % Word) + sum \div Word) % Word)

software_checksum(sum) == (Word - 1) - Carried[sum]

(* The words of a number, and of a page, whose last word is padded.        *)
NumberSum(b) == SumFunction([i \in {j \in 0 .. NBytes - 1 : j % 2 = 0} |->
                               b[i] * Byte + b[i + 1]])
PageSum(dlength) == (dlength \div 2) * (Filling * Byte + Filling)
                      + (dlength % 2) * Filling * Byte

(* The words that the checksums cover; a field that is always the same, or *)
(* of which nothing is said here, is left out.  The words of an echo after *)
(* its checksum, identifier and number first, count as data.               *)
Protocol == [icmp |-> 1, tcp |-> 6]
IpSum(f) ==
  f.total + f.ident + Protocol[f.proto] + f.ip_src + f.ip_dst + f.ip_checksum
EchoSum(f, length) ==
  f.icmp * Byte + f.checksum + ((length - 4) \div 2) * f.data
TcpSum(f, seq, ack) ==
  (f.total - IpHeader) + Protocol[f.proto] + f.ip_src + f.ip_dst
    + f.src_port + f.dst_port + NumberSum(seq) + NumberSum(ack) + f.checksum
    + PageSum(f.total - IpHeader - f.hlen)
-----------------------------------------------------------------------------
(* What is received.                                                       *)

ArpFrames(s) ==
  {[type |-> "arp", dst_mac |-> Everyone, src_mac |-> s, opcode |-> op,
    sender_mac |-> s, sender_ip |-> Ip[s],
    target_mac |-> Everyone, target_ip |-> Ip[h]] :
     op \in {"request", "reply"}, h \in Hosts \ {s}}

(* An IP packet of s for h; the fields of TCP are unused in an echo, and   *)
(* those of an echo in TCP.                                                *)
IpFrame(s, h, proto, total) ==
  [type |-> "ip", dst_mac |-> Avr, src_mac |-> s,
   total |-> total, ident |-> 0, proto |-> proto,
   ip_src |-> Ip[s], ip_dst |-> Ip[h], ip_checksum |-> 1, icmp |-> 8,
   data |-> 0, src_port |-> Port[s], dst_port |-> Http, flags |-> {},
   hlen |-> TcpHeader, checksum |-> 1]

(* Echo requests of each size, for the thermostat or another host, and an  *)
(* echo reply.                                                             *)
EchoFrames(s) ==
  {[IpFrame(s, h, "icmp", n) EXCEPT !.data = w] :
     h \in Hosts \ {s}, n \in EchoSizes, w \in EchoWords}
    \cup {[IpFrame(s, Avr, "icmp", 60) EXCEPT !.icmp = 0]}

(* Segments: the start and the end of a connection, a reset, an            *)
(* acknowledgement alone and one with a request, and the start of a        *)
(* connection to another port.                                             *)
Segment(s, flags, dlength) ==
  [IpFrame(s, Avr, "tcp", IpHeader + TcpHeader + dlength)
     EXCEPT !.flags = flags]
Segments(s) ==
  {Segment(s, fl, 0) : fl \in {{"syn"}, {"ack", "fin"}, {"rst"}, {"ack"}}}
    \cup {Segment(s, {"ack"}, 5),
          [Segment(s, {"syn"}, 0) EXCEPT !.dst_port = Port[s]]}
-----------------------------------------------------------------------------
(* The tests of a frame that has come in.                                  *)

arp_packet_is_arp(f) ==
  f.type = "arp" /\ f.opcode = "request" /\ f.target_ip = Ip[Avr]
ip_packet_is_ip(f) == f.type = "ip" /\ f.ip_dst = Ip[Avr]

EchoRequest(f) == f.proto = "icmp" /\ f.icmp = 8

tcp_get_dlength(f) ==
  IF f.total > IpHeader + f.hlen THEN f.total - IpHeader - f.hlen ELSE 0

(* What a frame can be answered by; "receive" is no answer, which half a   *)
(* request of a browser gets as well (http.c:221-225).                     *)
Answers(f) ==
  IF f.type = "arp"
  THEN {IF arp_packet_is_arp(f) THEN "arp" ELSE "receive"}
  ELSE IF ~ip_packet_is_ip(f) THEN {"receive"}
  ELSE IF EchoRequest(f) THEN {"echo"}
  ELSE IF f.proto # "tcp" \/ f.dst_port # Http THEN {"receive"}
  ELSE IF "syn" \in f.flags THEN {"synack"}
  ELSE IF "ack" \notin f.flags THEN {"receive"}
  ELSE IF tcp_get_dlength(f) = 0
  THEN {IF "fin" \in f.flags THEN "finack" ELSE "receive"}
  ELSE {"ack", "receive"}

(* A frame of s comes in, and its addresses are kept.                      *)
Take(f, s) ==
  /\ next = "receive"
  /\ rxtx_buffer' = f
  /\ sent' = 0
  /\ client_mac' = f.src_mac
  /\ h_asker' = s
  /\ UNCHANGED ip_identfier

ReceiveArp(s) ==
  \E f \in ArpFrames(s) :
    /\ Take(f, s)
    /\ next' \in Answers(f)
    /\ UNCHANGED <<numbers, client_ip, dest_port>>

ReceiveEcho(s) ==
  \E f \in EchoFrames(s) :
    /\ Take(f, s)
    /\ client_ip' = f.ip_src
    /\ next' \in Answers(f)
    /\ UNCHANGED <<numbers, dest_port>>

(* The numbers of a segment that gets no answer are never read.            *)
ReceiveSegment(s) ==
  \E f \in Segments(s) :
    /\ Take(f, s)
    /\ client_ip' = f.ip_src
    /\ dest_port' = f.src_port
    /\ \E to \in Answers(f) :
         \/ to = "receive" /\ next' = to /\ UNCHANGED numbers
         \/ to # "receive" /\ \E n \in Requests : Numbers!Receive(n, to)
-----------------------------------------------------------------------------
(* The headers of an answer.                                               *)

eth_generate_header(b, type, dest_mac) ==
  [b EXCEPT !.dst_mac = dest_mac, !.src_mac = Avr, !.type = type]

ip_generate_header(b, total_length, protocol, dest_ip) ==
  LET cleared == [b EXCEPT !.total = total_length, !.ident = ip_identfier,
                           !.proto = protocol, !.ip_dst = dest_ip,
                           !.ip_src = Ip[Avr], !.ip_checksum = 0]
  IN  [cleared EXCEPT !.ip_checksum = software_checksum(IpSum(cleared))]

(* arp_generate_packet is given the sender's IP address where it lies in   *)
(* the buffer, and copies it before it writes its own there.               *)
(* Faulty variant: the other way round.                                    *)
arp_generate_packet_Own(b, dest_mac) ==
  LET own == [b EXCEPT !.sender_mac = Avr, !.sender_ip = Ip[Avr]]
  IN  [own EXCEPT !.target_mac = dest_mac, !.target_ip = own.sender_ip]

arp_generate_packet(b, dest_mac) ==
  LET back == [b EXCEPT !.target_mac = dest_mac, !.target_ip = b.sender_ip]
  IN  [back EXCEPT !.sender_mac = Avr, !.sender_ip = Ip[Avr]]

arp_send_reply ==
  /\ next = "arp"
  /\ rxtx_buffer' =
       arp_generate_packet(
         [eth_generate_header(rxtx_buffer, "arp", client_mac)
            EXCEPT !.opcode = "reply"], client_mac)
  /\ sent' = EthHeader + ArpPacket
  /\ next' = "receive"
  /\ UNCHANGED <<numbers, asker, ip_identfier>>

(* The reply has the total length and the data of the request; whatever    *)
(* that length, the frame is of 74 bytes and the checksum covers the data  *)
(* of an echo of 60.                                                       *)
icmp_send_reply ==
  /\ next = "echo"
  /\ LET cleared == [ip_generate_header(
                       eth_generate_header(rxtx_buffer, "ip", client_mac),
                       rxtx_buffer.total, "icmp", client_ip)
                       EXCEPT !.icmp = 0, !.checksum = 0]
     IN  rxtx_buffer' = [cleared EXCEPT
                           !.checksum =
                             software_checksum(EchoSum(cleared, IcmpPacket))]
  /\ sent' = EthHeader + IpHeader + IcmpPacket
  /\ ip_identfier' = (ip_identfier + 1) % IdMod
  /\ next' = "receive"
  /\ UNCHANGED <<numbers, asker>>

(* The rest of tcp_send_packet, when TcpReply has set the numbers.         *)

(* Faulty variant: the port is read from the buffer, which the first       *)
(* packet of an answer has overwritten.                                    *)
AnswerPort_InPlace == rxtx_buffer.src_port
AnswerPort == dest_port

(* Faulty variant: the option of a SYN is left out.                        *)
IpTotal_NoOption(dlength, options) == IpHeader + TcpHeader + dlength
IpTotal(dlength, options) == IpHeader + TcpHeader + dlength + options

Packet(dlength, flags, options) ==
  LET cleared == [ip_generate_header(
                    eth_generate_header(rxtx_buffer, "ip", client_mac),
                    IpTotal(dlength, options), "tcp", client_ip)
                    EXCEPT !.hlen = TcpHeader + options, !.flags = flags,
                           !.dst_port = AnswerPort, !.src_port = Http,
                           !.checksum = 0]
  IN  /\ rxtx_buffer' = [cleared EXCEPT !.checksum =
                           software_checksum(TcpSum(cleared, SEQ', SEQACK'))]
      /\ sent' = EthHeader + IpHeader + TcpHeader + dlength + options
      /\ ip_identfier' = (ip_identfier + 1) % IdMod
      /\ UNCHANGED asker

SynAck == Numbers!SendSynAck /\ Packet(0, {"syn", "ack"}, 4)
FinAck == Numbers!SendFinAck /\ Packet(0, {"ack"}, 0)
Ack    == Numbers!SendAck /\ Packet(0, {"ack"}, 0)
Page   == \E dlength \in Lengths :
            /\ Numbers!SendPage(dlength)
            /\ Packet(dlength, IF next \in {"part1", "part3"}
                               THEN {"ack", "fin"} ELSE {"ack"}, 0)

Init ==
  /\ Numbers!Init
  /\ rxtx_buffer = [type |-> "none"]
  /\ sent = 0
  /\ client_mac = Everyone
  /\ client_ip = 0
  /\ dest_port = 0
  /\ ip_identfier = 1
  /\ h_asker = Avr

Receive == \E s \in Stations : ReceiveArp(s) \/ ReceiveEcho(s) \/ ReceiveSegment(s)

Next == Receive \/ arp_send_reply \/ icmp_send_reply
          \/ SynAck \/ FinAck \/ Ack \/ Page

Spec == Init /\ [][Next]_vars
-----------------------------------------------------------------------------
Contiguous    == Numbers!Contiguous
AcksFirstByte == Numbers!AcksFirstByte

(* Every frame of an answer goes to the host that asked, by its hardware   *)
(* address, its IP address and its port, and comes from the thermostat's,  *)
(* though each is written over the request or over the frame before        *)
(* (main.c:38-49, http.c:25, arp.c:28-38).                                 *)
AnswersGoToAsker ==
  sent > 0 =>
    /\ rxtx_buffer.dst_mac = h_asker /\ rxtx_buffer.src_mac = Avr
    /\ rxtx_buffer.type = "arp" =>
         /\ rxtx_buffer.target_mac = h_asker
         /\ rxtx_buffer.target_ip = Ip[h_asker]
         /\ rxtx_buffer.sender_mac = Avr /\ rxtx_buffer.sender_ip = Ip[Avr]
    /\ rxtx_buffer.type = "ip" =>
         rxtx_buffer.ip_dst = Ip[h_asker] /\ rxtx_buffer.ip_src = Ip[Avr]
    /\ (rxtx_buffer.type = "ip" /\ rxtx_buffer.proto = "tcp") =>
         rxtx_buffer.dst_port = Port[h_asker] /\ rxtx_buffer.src_port = Http

(* An echo of another size than the one the code knows: the frame is cut   *)
(* or padded, and the checksum is taken over other bytes than the receiver *)
(* takes it over (icmp.c:32, 88-99).  Nothing is claimed of its length or  *)
(* of its checksum.                                                        *)
OddEcho == rxtx_buffer.proto = "icmp" /\ rxtx_buffer.total # IpHeader + IcmpPacket

(* What the headers say of an IP packet's length is what is handed to the  *)
(* controller, the option of a SYN included (tcp.c:203-238, icmp.c:88-99). *)
LengthsAgree ==
  (sent > 0 /\ rxtx_buffer.type = "ip") =>
    \/ OddEcho
    \/ /\ sent = EthHeader + rxtx_buffer.total
       /\ rxtx_buffer.proto = "tcp" =>
            rxtx_buffer.hlen - TcpHeader
              = (IF "syn" \in rxtx_buffer.flags THEN 4 ELSE 0)

(* The receiver, who takes a checksum over the length that the IP header   *)
(* tells, finds it right: for pages of odd length, whatever the field held *)
(* before, and however often carries must be added back (ethernet.c:52-70, *)
(* ip.c:49-57, tcp.c:262-285).  The reply to an echo is right if its data  *)
(* is of the 32 bytes that the code sums (icmp.c:25-34).                   *)
Verified(sum) == Carried[sum] = Word - 1
ChecksumVerifies ==
  (sent > 0 /\ rxtx_buffer.type = "ip") =>
    /\ Verified(IpSum(rxtx_buffer))
    /\ rxtx_buffer.proto = "tcp" => Verified(TcpSum(rxtx_buffer, SEQ, SEQACK))
    /\ rxtx_buffer.proto = "icmp" =>
         \/ OddEcho
         \/ Verified(EchoSum(rxtx_buffer, rxtx_buffer.total - IpHeader))
=============================================================================
