------------------------------ MODULE Enc28j60 ------------------------------
(***************************************************************************)
(* The driver of the ethernet controller, src/src/enc28j60.c, and the      *)
(* controller itself as far as the driver relies on it.  The controller    *)
(* stores what it receives in a ring of its own memory while the driver    *)
(* takes frames out of it, register by register; it sends from a single    *)
(* buffer, on its own as well.  Either may be reset at any time, since     *)
(* enc28j60_init resets the controller whenever the program starts.        *)
(*                                                                         *)
(* A cell of the ring stands for some bytes: a header (next packet,        *)
(* length, status) takes one, the data of a frame f.len, its CRC one.      *)
(***************************************************************************)
EXTENDS Integers, Sequences, FiniteSetsExt

CONSTANTS RingLen,     \* cells of the receive ring, bytes 0 to 6691
          MaxCount,    \* 255, the range of EPKTCNT
          MaxFrame,    \* MAX_FRAMELEN, the longest frame with its CRC
          MaxData,     \* MAX_RXTX_BUFFER - 1, the longest data taken
          MaxAnswers,  \* the most frames sent in answer to one: 4
          Network,     \* the frames on the network: [dst, type, len]
          Nothing      \* no frame

Crc   == 1
Cells == 0 .. RingLen - 1

ASSUME EncAssumption ==
  /\ RingLen \in Nat /\ MaxCount \in Nat \ {0} /\ MaxAnswers \in Nat
  /\ MaxFrame \in Nat /\ MaxData \in Nat
  /\ MaxFrame - Crc <= MaxData
  /\ MaxFrame + 1 < RingLen
  /\ \A f \in Network : f.len \in Nat \ {0}
  /\ Nothing \notin Network

VARIABLES Enc28j60Bank,     \* the bank the driver believes selected
          next_packet_ptr,  \* where the next frame begins
          data_length,      \* of the frame being taken
          buf,              \* rxtx_buffer, as long as the data in it
          answers,          \* frames that may still be sent in answer
          pc,               \* what the driver does next
          ECON1_BSEL,       \* the bits of the bank really selected
          RXEN, EPKTCNT, ERXRDPT, ERXWRPT, ERDPT,
          mem,              \* the cells of the ring
          ECON1_TXRTS, EIR_TXERIF,
          h_fate            \* history: what became of the last frame sent

driver   == <<next_packet_ptr, data_length, buf, answers>>
banks    == <<Enc28j60Bank, ECON1_BSEL>>
receiver == <<RXEN, EPKTCNT, ERXRDPT, ERXWRPT, mem>>
sender   == <<ECON1_TXRTS, EIR_TXERIF, h_fate>>
vars     == <<driver, banks, receiver, ERDPT, sender, pc>>

(* A cell is a header or holds data of a frame; Nothing is old contents.   *)
Header(next, length, ok) ==
  [next |-> next, length |-> length, ok |-> ok, data |-> Nothing]
Data(f) == [next |-> 0, length |-> 0, ok |-> FALSE, data |-> f]

TypeOK ==
  /\ Enc28j60Bank \in 0 .. 3
  /\ ECON1_BSEL \in SUBSET {0, 1}
  /\ {next_packet_ptr, ERXRDPT, ERXWRPT, ERDPT} \subseteq Cells
  /\ data_length \in 0 .. MaxData
  /\ buf \in Seq(Network \cup {Nothing})
  /\ answers \in 0 .. MaxAnswers
  /\ pc \in {"reset", "poll", "pointer", "header", "data", "free", "done",
             "check"}
  /\ EPKTCNT \in 0 .. MaxCount
  /\ DOMAIN mem = Cells
  /\ {RXEN, ECON1_TXRTS, EIR_TXERIF} \subseteq {0, 1}
  /\ h_fate \in {"none", "pending", "out", "failed", "cancelled"}
-----------------------------------------------------------------------------
(* Banks of registers.                                                     *)

Bits(b) == {i \in {0, 1} : IF i = 0 THEN b % 2 = 1 ELSE b \div 2 = 1}

(* enc28j60SetBank: nothing is written if the bank is the one believed to  *)
(* be selected; s is the cached bank and the bits really selected.         *)
(* Faulty variant: the bits of the bank before are not cleared.            *)
SetBank_NoClear(s, b) ==
  IF b = s.cached THEN s ELSE [cached |-> b, selected |-> s.selected \cup Bits(b)]

SetBank(s, b) ==
  IF b = s.cached THEN s ELSE [cached |-> b, selected |-> Bits(b)]

Select(b) ==
  LET s == SetBank([cached |-> Enc28j60Bank, selected |-> ECON1_BSEL], b)
  IN  Enc28j60Bank' = s.cached /\ ECON1_BSEL' = s.selected

(* A register is reached if its bank is the one selected now.              *)
Reached(b) == ECON1_BSEL' = Bits(b)
-----------------------------------------------------------------------------
(* The controller.                                                         *)

(* At least one cell stays free between what is written and ERXRDPT.       *)
Free == (ERXRDPT - ERXWRPT - 1) % RingLen

(* The filter set by enc28j60_init: frames to this station, and broadcasts *)
(* of ARP; and no frame that is too long.                                  *)
Passes(f) ==
  /\ f.dst = "own" \/ (f.dst = "broadcast" /\ f.type = "arp")
  /\ f.len + Crc <= MaxFrame

Size(f) == 1 + f.len + Crc

(* The cells from the write pointer on, filled.                            *)
Written(content) ==
  [c \in Cells |-> LET i == (c - ERXWRPT) % RingLen
                   IN  IF i < Len(content) THEN content[i + 1] ELSE mem[c]]

Accept(f, ok) ==
  LET next == (ERXWRPT + Size(f)) % RingLen
  IN  /\ Passes(f)
      /\ EPKTCNT < MaxCount
      /\ Size(f) <= Free
      /\ mem' = Written(<<Header(next, f.len + Crc, ok)>>
                          \o [i \in 1 .. f.len + Crc |-> Data(f)])
      /\ ERXWRPT' = next
      /\ EPKTCNT' = EPKTCNT + 1

(* A frame with a bad CRC, one that is filtered out, or one there is no    *)
(* room for leaves traces in the free cells only.                          *)
Discard ==
  /\ mem' = Written([i \in 1 .. Free |-> Data(Nothing)])
  /\ UNCHANGED <<EPKTCNT, ERXWRPT>>

Arrive ==
  /\ RXEN = 1
  /\ (\E f \in Network, ok \in BOOLEAN : Accept(f, ok)) \/ Discard
  /\ UNCHANGED <<driver, banks, RXEN, ERXRDPT, ERDPT, sender, pc>>

(* A transmission ends, well or in an error.  It lasts longer than the two *)
(* bytes on the SPI bus between its start and the check that follows.      *)
Transmit ==
  /\ ECON1_TXRTS = 1
  /\ pc # "check"
  /\ ECON1_TXRTS' = 0
  /\ \/ h_fate' = "out" /\ UNCHANGED EIR_TXERIF
     \/ h_fate' = "failed" /\ EIR_TXERIF' = 1
  /\ UNCHANGED <<driver, banks, receiver, ERDPT, pc>>
-----------------------------------------------------------------------------
(* enc28j60_init, in two steps: the reset, and the set-up, which goes      *)
(* through the banks of the registers it writes, the PHY's in between, and *)
(* enables reception last.                                                 *)

ClearHost ==
  /\ Enc28j60Bank' = 0
  /\ data_length' = 0
  /\ buf' = <<>>
  /\ answers' = 0
  /\ h_fate' = "none"

ResetController ==
  /\ ECON1_BSEL' = {}
  /\ RXEN' = 0
  /\ EPKTCNT' = 0
  /\ ERXWRPT' = 0
  /\ ECON1_TXRTS' = 0
  /\ EIR_TXERIF' = 0

(* Faulty variant: the reset pin and the reset command are left out.       *)
Reset_HostOnly ==
  /\ ClearHost
  /\ next_packet_ptr' = 0
  /\ pc' = "reset"
  /\ UNCHANGED <<ECON1_BSEL, receiver, ERDPT, ECON1_TXRTS, EIR_TXERIF>>

Reset ==
  /\ ClearHost
  /\ ResetController
  /\ next_packet_ptr' = 0
  /\ pc' = "reset"
  /\ UNCHANGED <<ERXRDPT, ERDPT, mem>>

(* enc28j60PhyWrite: the PHY is reached through two banks.                 *)
PhyWrite(s) == SetBank(SetBank(s, 2), 3)

SetUpBanks(s) ==
  LET mac == SetBank(SetBank(SetBank(s, 0), 2), 3)
      phy == PhyWrite(PhyWrite(mac))
  IN  SetBank(SetBank(SetBank(phy, 1), 2), 0)

SetUp ==
  /\ pc = "reset"
  /\ LET s == SetUpBanks([cached |-> Enc28j60Bank, selected |-> ECON1_BSEL])
     IN  Enc28j60Bank' = s.cached /\ ECON1_BSEL' = s.selected
  /\ next_packet_ptr' = 0
  /\ ERXRDPT' = 0
  /\ RXEN' = 1
  /\ pc' = "poll"
  /\ UNCHANGED <<data_length, buf, answers, EPKTCNT, ERXWRPT, ERDPT, mem,
                 sender>>

Init ==
  /\ Enc28j60Bank = 0 /\ ECON1_BSEL = {}
  /\ next_packet_ptr = 0 /\ data_length = 0 /\ buf = <<>> /\ answers = 0
  /\ RXEN = 0 /\ EPKTCNT = 0 /\ ERXRDPT = 0 /\ ERXWRPT = 0 /\ ERDPT = 0
  /\ mem = [c \in Cells |-> Data(Nothing)]
  /\ ECON1_TXRTS = 0 /\ EIR_TXERIF = 0 /\ h_fate = "none"
  /\ pc = "reset"
-----------------------------------------------------------------------------
(* enc28j60_packet_receive, one action per access to what the controller   *)
(* changes as well, or reads.                                              *)

(* Faulty variant: the count is not looked at.                             *)
Poll_NoTest ==
  /\ pc = "poll"
  /\ Select(1)
  /\ pc' = "pointer"
  /\ UNCHANGED <<driver, receiver, ERDPT, sender>>

(* A register of another bank may hold anything.                           *)
Poll ==
  /\ pc = "poll"
  /\ Select(1)
  /\ \E count \in IF Reached(1) THEN {EPKTCNT} ELSE {0, 1} :
       \/ count = 0 /\ buf' = <<>> /\ answers' = 0 /\ UNCHANGED pc
       \/ count # 0 /\ pc' = "pointer" /\ UNCHANGED <<buf, answers>>
  /\ UNCHANGED <<next_packet_ptr, data_length, receiver, ERDPT, sender>>

SetReadPointer ==
  /\ pc = "pointer"
  /\ Select(0)
  /\ ERDPT' = IF Reached(0) THEN next_packet_ptr ELSE ERDPT
  /\ pc' = "header"
  /\ UNCHANGED <<driver, receiver, sender>>

(* Faulty variant: the space is freed before the data is read.             *)
ReadHeader_FreeFirst ==
  /\ pc = "header"
  /\ next_packet_ptr' = mem[ERDPT].next
  /\ ERXRDPT' = mem[ERDPT].next
  /\ data_length' = IF mem[ERDPT].ok
                    THEN Min({mem[ERDPT].length - Crc, MaxData})
                    ELSE 0
  /\ ERDPT' = (ERDPT + 1) % RingLen
  /\ pc' = "data"
  /\ UNCHANGED <<buf, answers, banks, RXEN, EPKTCNT, ERXWRPT, mem, sender>>

ReadHeader ==
  /\ pc = "header"
  /\ next_packet_ptr' = mem[ERDPT].next
  /\ data_length' = IF mem[ERDPT].ok
                    THEN Min({mem[ERDPT].length - Crc, MaxData})
                    ELSE 0
  /\ ERDPT' = (ERDPT + 1) % RingLen
  /\ pc' = "data"
  /\ UNCHANGED <<buf, answers, banks, receiver, sender>>

ReadData ==
  /\ pc = "data"
  /\ buf' = [i \in 1 .. data_length |-> mem[(ERDPT + i - 1) % RingLen].data]
  /\ ERDPT' = (ERDPT + data_length) % RingLen
  /\ answers' = IF data_length = 0 THEN 0 ELSE MaxAnswers
  /\ pc' = "free"
  /\ UNCHANGED <<next_packet_ptr, data_length, banks, receiver, sender>>

(* The controller takes the new pointer when its high byte is written.     *)
FreeSpace ==
  /\ pc = "free"
  /\ Select(0)
  /\ ERXRDPT' = IF Reached(0) THEN next_packet_ptr ELSE ERXRDPT
  /\ pc' = "done"
  /\ UNCHANGED <<driver, RXEN, EPKTCNT, ERXWRPT, mem, ERDPT, sender>>

(* Faulty variant: the count is taken down only for a frame handed over.   *)
Done_DataOnly ==
  /\ pc = "done"
  /\ EPKTCNT' = IF data_length = 0 THEN EPKTCNT ELSE EPKTCNT - 1
  /\ pc' = "poll"
  /\ UNCHANGED <<driver, banks, RXEN, ERXRDPT, ERXWRPT, mem, ERDPT, sender>>

Done ==
  /\ pc = "done"
  /\ EPKTCNT' = EPKTCNT - 1
  /\ pc' = "poll"
  /\ UNCHANGED <<driver, banks, RXEN, ERXRDPT, ERXWRPT, mem, ERDPT, sender>>
-----------------------------------------------------------------------------
(* enc28j60_packet_send: the frame is written into the one transmit        *)
(* buffer, whatever it still holds, and started; then errors are looked at.*)
Send ==
  /\ pc = "poll"
  /\ answers > 0
  /\ answers' = answers - 1
  /\ Select(0)
  /\ ECON1_TXRTS' = 1
  /\ h_fate' = "pending"
  /\ pc' = "check"
  /\ UNCHANGED <<next_packet_ptr, data_length, buf, receiver, ERDPT,
                 EIR_TXERIF>>

CheckError ==
  /\ pc = "check"
  /\ Select(0)
  /\ \E error \in IF Reached(0) THEN {EIR_TXERIF} ELSE {0, 1} :
       \/ error = 0 /\ UNCHANGED <<ECON1_TXRTS, h_fate>>
       \/ error = 1 /\ ECON1_TXRTS' = 0 /\ h_fate' = "cancelled"
  /\ pc' = "poll"
  /\ UNCHANGED <<driver, receiver, ERDPT, EIR_TXERIF>>

Driver == \/ SetUp \/ Poll \/ SetReadPointer \/ ReadHeader \/ ReadData
          \/ FreeSpace \/ Done \/ Send \/ CheckError

Next == Driver \/ Arrive \/ Transmit \/ Reset

Spec == Init /\ [][Next]_vars

(* The driver goes on, and transmissions that are not stopped end.         *)
FairSpec == Spec /\ WF_vars(Driver) /\ SF_vars(Transmit)
-----------------------------------------------------------------------------
(* The bank the driver believes selected is the one the controller has     *)
(* selected, over any order of calls, early returns and restarts: every    *)
(* register the driver names is the one it reads or writes                 *)
(* (enc28j60.c:38-64, 100-134).                                            *)
BankKnown == ECON1_BSEL = Bits(Enc28j60Bank)

(* The header of the n-th frame from the one the driver reads next.        *)
Start[n \in 0 .. MaxCount] ==
  IF n = 0 THEN next_packet_ptr ELSE mem[Start[n - 1]].next

(* The frame that is being taken is no longer among them.                  *)
InHand  == pc \in {"data", "free", "done"}
Waiting == IF InHand THEN EPKTCNT - 1 ELSE EPKTCNT

Contents(p, n) == [i \in 1 .. n |-> mem[(p + i - 1) % RingLen].data]

(* Data that is one whole frame, or parts of several.                      *)
Whole(data) ==
  IF data = <<>> THEN Nothing
  ELSE IF \E f \in Network : data = [i \in 1 .. f.len |-> f]
       THEN data[1] ELSE [torn |-> data]

FrameAt(p) ==
  IF mem[p].ok THEN Whole(Contents((p + 1) % RingLen, mem[p].length - Crc))
               ELSE Nothing

queue ==
  (IF pc = "data" THEN <<Whole(Contents(ERDPT, data_length))>> ELSE <<>>)
    \o [n \in 1 .. Waiting |-> FrameAt(Start[n - 1])]

(* The driver, with the controller receiving between any two of its steps, *)
(* behaves as a queue: every frame accepted is handed over, whole, once    *)
(* and in order, and none is left behind, over any number of turns of the  *)
(* ring, damaged frames and restarts (enc28j60.c:312-374).                 *)
FQ == INSTANCE FrameQueue
        WITH Frame <- {f \in Network : Passes(f)}, received <- Whole(buf)
Queue == FQ!Spec

(* The three views of the ring agree: from where the driver reads next,    *)
(* one header for each packet counted leads to the write pointer; and what *)
(* they hold and what is being read is out of the controller's reach       *)
(* (enc28j60.c:322-371).                                                   *)
RingConsistent ==
  RXEN = 1 =>
    /\ Start[Waiting] = ERXWRPT
    /\ \A n \in 0 .. Waiting :
         (Start[n] - ERXRDPT) % RingLen <= (ERXWRPT - ERXRDPT) % RingLen
    /\ pc = "data" => \A i \in 0 .. data_length - 1 :
         (ERDPT + i - ERXRDPT) % RingLen < (ERXWRPT - ERXRDPT) % RingLen

(* "Reset the transmit logic problem": as long as answers are sent and no  *)
(* further transmission fails, frames go out again (enc28j60.c:284-287).   *)
SendsAgain ==
  ([]<>(pc = "check") /\ <>[][Driver \/ Arrive \/ h_fate' = "out"]_vars)
    => []<>(h_fate = "out")
=============================================================================
