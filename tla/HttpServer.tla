----------------------------- MODULE HttpServer -----------------------------
(***************************************************************************)
(* The web server, http_webserver_process of src/src/http.c, called by     *)
(* server_process (src/src/main.c) with the frame that has waited longest  *)
(* in the receive ring, at most one per pass of the main loop.  It keeps   *)
(* no connections.  A browser may put the header of a POST and its body in *)
(* two segments: post_data remembers, for all clients together, that a     *)
(* header has been seen without a command.                                 *)
(*                                                                         *)
(* Segments without data change nothing and are left out: SYN and FIN,     *)
(* which are answered, and bare acknowledgements, which are not.           *)
(*                                                                         *)
(* The browsers are part of the description.  A client is a connection of  *)
(* one; two clients at one station have the same address.  It sends one    *)
(* request, gets a page, and is used again when nothing of its last use is *)
(* on the way.  Segments and answers may be lost, in part or whole.        *)
(* Answers come late, and the client's TCP sends again, too early or in    *)
(* time, whatever has not been acknowledged.  The server acknowledges one  *)
(* byte of each segment (AcksFirstByte in TcpReply), so that after an      *)
(* answer the rest of the request is still to be sent again.               *)
(***************************************************************************)
EXTENDS Integers, Sequences

CONSTANTS Clients,
          Address,    \* the last three bytes of the address of each client
          Commands,   \* bound: the commands <<name, value>> each may ask
                      \* for; NoCommand asks for the page as it is
          RxSlots,    \* bound: frames the receive ring holds
          MaxLost,    \* bound: segments and answers lost
          MaxEarly    \* bound: requests sent again without need

Addresses == {Address[c] : c \in Clients}
NoCommand == <<"none", "0">>
NoAddress == "000000"

Pages   == {"page"} \X {"1", "2"}
Filters == {"mac"} \X {"0", "1"}
Handed  == ({"sub"} \X {"1", "2", "u", "d"})
             \cup ({"hvac"} \X {"0", "1", "2", "3", "p", "s", "a", "m", "x"})
             \cup ({"adcsrc"} \X {"0", "1", "2", "3", "u", "d"})
AllCommands == Pages \cup Filters \cup Handed

ASSUME HttpAssumption ==
  /\ DOMAIN Address = Clients
  /\ NoAddress \notin Addresses
  /\ Commands \in [Clients -> SUBSET (AllCommands \cup {NoCommand})]
  /\ RxSlots \in Nat \ {0}
  /\ MaxLost \in Nat /\ MaxEarly \in Nat

VARIABLES web_page, post_data,
          mac_filter, mac_filter_address,
          handed,     \* the last command handed to the lights, the dial,
                      \* the relays or the sensor
          rx,         \* the frames in the receive ring
          pending,    \* the segments each client has yet to send
          asked,      \* the command each client asked for last
          waiting,    \* the clients that wait for an answer
          unacked,    \* what of its request a client has no acknowledgement
                      \* for: all, all but some of the first segment's
                      \* bytes, or the end, in which no command is left
          coming,     \* the answers on the way to each client, by what will
                      \* be left to acknowledge
          lost,       \* segments and answers lost so far
          early,      \* requests sent again without need so far
          h_runs,     \* history: how often the command asked for has run
          h_lost,     \* history: answers lost since it was asked for
          h_early,    \* history: how often it was sent again without need
          h_torn      \* history: clients whose request came in two parts,
                      \* went wrong and has not been run yet

filter  == <<mac_filter, mac_filter_address>>
server  == <<web_page, post_data, filter, handed>>
browser == <<pending, asked, waiting, unacked>>
history == <<h_runs, h_lost, h_early, h_torn>>
vars    == <<server, rx, browser, coming, lost, early, history>>

Segment(c, kind) == [from |-> c, kind |-> kind]

(* A request for the page, a POST in one segment or in two, what is left   *)
(* of a POST without its first bytes, and what is left without a command.  *)
Kinds == {"get", "post", "head", "body", "tail", "end"}
Parts == {"all", "tail", "end"}

TypeOK ==
  /\ web_page \in {1, 2}
  /\ post_data \in {0, 1}
  /\ mac_filter \in {0, 1}
  /\ mac_filter_address \in Addresses \cup {NoAddress}
  /\ handed \in AllCommands \cup {NoCommand}
  /\ rx \in Seq([from : Clients, kind : Kinds]) /\ Len(rx) <= RxSlots
  /\ pending \in [Clients -> Seq([from : Clients, kind : Kinds])]
  /\ asked \in [Clients -> AllCommands \cup {NoCommand}]
  /\ waiting \subseteq Clients
  /\ unacked \in [Clients -> Parts]
  /\ coming \in [Clients -> Seq(Parts)]
  /\ lost \in 0 .. MaxLost
  /\ early \in 0 .. MaxEarly
  /\ h_runs \in [Clients -> Nat]
  /\ h_lost \in [Clients -> 0 .. MaxLost]
  /\ h_early \in [Clients -> 0 .. MaxEarly]
  /\ h_torn \subseteq Clients

Init ==
  /\ web_page = 1
  /\ post_data = 0
  /\ mac_filter = 0
  /\ mac_filter_address = NoAddress
  /\ handed = NoCommand
  /\ rx = <<>>
  /\ pending = [c \in Clients |-> <<>>]
  /\ asked = [c \in Clients |-> NoCommand]
  /\ waiting = {}
  /\ unacked = [c \in Clients |-> "all"]
  /\ coming = [c \in Clients |-> <<>>]
  /\ lost = 0
  /\ early = 0
  /\ h_runs = [c \in Clients |-> 0]
  /\ h_lost = [c \in Clients |-> 0]
  /\ h_early = [c \in Clients |-> 0]
  /\ h_torn = {}
-----------------------------------------------------------------------------
(* The browsers.                                                           *)

InRing(c) ==
  \E i \in 1 .. Len(rx) : rx[i].from = c

(* What a client sends: a GET; a POST, in one segment or in two; or again  *)
(* what has not been acknowledged of it.                                   *)
Forms(c, cmd, part) ==
  CASE part = "end" -> {<<Segment(c, "end")>>}
    [] part = "tail" -> {<<Segment(c, "tail")>>,
                         <<Segment(c, "end"), Segment(c, "body")>>}
    [] part = "all" /\ cmd = NoCommand -> {<<Segment(c, "get")>>}
    [] OTHER -> {<<Segment(c, "post")>>,
                 <<Segment(c, "head"), Segment(c, "body")>>}

(* The user asks for the page, or presses a button on it.                  *)
Ask(c) ==
  /\ c \notin waiting /\ pending[c] = <<>> /\ ~InRing(c) /\ coming[c] = <<>>
  /\ \E cmd \in Commands[c] :
       /\ asked' = [asked EXCEPT ![c] = cmd]
       /\ \E form \in Forms(c, cmd, "all") :
            pending' = [pending EXCEPT ![c] = form]
  /\ waiting' = waiting \cup {c}
  /\ unacked' = [unacked EXCEPT ![c] = "all"]
  /\ h_runs' = [h_runs EXCEPT ![c] = 0]
  /\ h_lost' = [h_lost EXCEPT ![c] = 0]
  /\ h_early' = [h_early EXCEPT ![c] = 0]
  /\ h_torn' = h_torn \ {c}
  /\ UNCHANGED <<server, rx, coming, lost, early>>

Send(c) ==
  /\ pending[c] # <<>>
  /\ pending' = [pending EXCEPT ![c] = Tail(@)]
  /\ \/ /\ Len(rx) < RxSlots
        /\ rx' = Append(rx, Head(pending[c]))
        /\ UNCHANGED <<lost, h_torn>>
     \/ /\ lost < MaxLost
        /\ lost' = lost + 1
        /\ h_torn' = h_torn \cup
             {d \in {c} : Head(pending[c]).kind \in {"head", "body"}
                            /\ h_runs[c] = 0}
        /\ UNCHANGED rx
  /\ UNCHANGED <<server, asked, waiting, unacked, coming, early,
                 h_runs, h_lost, h_early>>

SendAgain(c) ==
  /\ pending[c] = <<>>
  /\ \E form \in Forms(c, asked[c], unacked[c]) :
       pending' = [pending EXCEPT ![c] = form]
  /\ UNCHANGED <<server, rx, asked, waiting, unacked, coming, lost,
                 h_runs, h_lost, h_torn>>

(* In time: all that arrived has been served, and an answer is missed.     *)
Retransmit(c) ==
  /\ c \in waiting /\ ~InRing(c) /\ coming[c] = <<>>
  /\ SendAgain(c)
  /\ UNCHANGED <<early, h_early>>

(* Too early, when the request or its answer is still on the way; or after *)
(* the answer, the bytes that it has not acknowledged.                     *)
RetransmitEarly(c) ==
  /\ \/ c \in waiting /\ (InRing(c) \/ coming[c] # <<>>)
     \/ c \notin waiting /\ unacked[c] # "all"
  /\ early < MaxEarly
  /\ early' = early + 1
  /\ h_early' = [h_early EXCEPT ![c] = @ + 1]
  /\ SendAgain(c)

(* The answer reaches the client, or its page is lost, with or without the *)
(* acknowledgement.                                                        *)
Acknowledge(c) ==
  unacked' = [unacked EXCEPT ![c] = IF @ = "end" THEN @ ELSE Head(coming[c])]

Arrive(c) ==
  /\ coming[c] # <<>>
  /\ coming' = [coming EXCEPT ![c] = Tail(@)]
  /\ \/ /\ waiting' = waiting \ {c}
        /\ Acknowledge(c)
        /\ UNCHANGED <<lost, h_lost>>
     \/ /\ lost < MaxLost
        /\ lost' = lost + 1
        /\ h_lost' = [h_lost EXCEPT ![c] = @ + 1]
        /\ Acknowledge(c) \/ UNCHANGED unacked
        /\ UNCHANGED waiting
  /\ UNCHANGED <<server, rx, pending, asked, early, h_runs, h_early, h_torn>>
-----------------------------------------------------------------------------
(* The answer, an acknowledgement of one byte and the parts of the page.   *)
Answer(c, kind) ==
  coming' = [coming EXCEPT ![c] =
               Append(@, IF kind \in {"post", "head", "tail"}
                         THEN "tail" ELSE "end")]

(* The first segment of a client's POST has been served, the second is the *)
(* next to come, and the command has not been run.                         *)
HalfWay(c) ==
  /\ h_runs[c] = 0
  /\ \/ \E i \in 1 .. Len(rx) :
          /\ rx[i] = Segment(c, "body")
          /\ \A j \in 1 .. i - 1 : rx[j].from # c
     \/ ~InRing(c) /\ pending[c] = <<Segment(c, "body")>>

(* Faulty variant: the address of the second segment is not compared.      *)
FilterPass_HeaderOnly(c) ==
  post_data = 1 \/ mac_filter = 0 \/ mac_filter_address = Address[c]

(* mac_filter_pass, worked out again for every segment before it is used.  *)
FilterPass(c) == mac_filter = 0 \/ mac_filter_address = Address[c]

SetPage(value) ==
  /\ web_page' = IF value = "1" THEN 1 ELSE 2
  /\ UNCHANGED <<filter, handed>>

SetFilter(c, value) ==
  /\ \/ /\ value = "0"
        /\ mac_filter' = 0
        /\ UNCHANGED mac_filter_address
     \/ /\ value = "1"
        /\ mac_filter' = 1
        /\ mac_filter_address' = Address[c]
  /\ UNCHANGED <<web_page, handed>>

HandOver(cmd) ==
  /\ handed' = cmd
  /\ UNCHANGED <<web_page, filter>>

(* The page may be chosen by anyone; the rest needs to pass the filter.    *)
Execute(c, cmd) ==
  \/ cmd \in Pages /\ SetPage(cmd[2])
  \/ cmd \notin Pages /\ ~FilterPass(c)
       /\ UNCHANGED <<web_page, filter, handed>>
  \/ FilterPass(c) /\ cmd \in Filters /\ SetFilter(c, cmd[2])
  \/ FilterPass(c) /\ cmd \in Handed /\ HandOver(cmd)

IsPost == Head(rx).kind \in {"post", "head"} \/ post_data = 1
HasCommand == Head(rx).kind \in {"post", "body", "tail"}

(* Data that is not a POST: the page is sent.                              *)
ServePage ==
  /\ rx # <<>> /\ ~IsPost
  /\ rx' = Tail(rx)
  /\ Answer(Head(rx).from, Head(rx).kind)
  /\ UNCHANGED <<server, browser, lost, early, history>>

(* Faulty variant: the command is run and nothing is sent.                 *)
ServeCommand_NoAnswer ==
  /\ rx # <<>> /\ IsPost /\ HasCommand
  /\ rx' = Tail(rx)
  /\ LET c == Head(rx).from
     IN  /\ post_data' = 0
         /\ Execute(c, asked[c])
         /\ h_runs' = [h_runs EXCEPT ![c] = @ + 1]
         /\ h_torn' = (h_torn \cup {d \in Clients : HalfWay(d)}) \ {c}
  /\ UNCHANGED <<browser, coming, lost, early, h_lost, h_early>>

(* The command is run, of a POST or of what else holds one while post_data *)
(* is set.                                                                 *)
ServeCommand ==
  /\ rx # <<>> /\ IsPost /\ HasCommand
  /\ rx' = Tail(rx)
  /\ LET c == Head(rx).from
     IN  /\ post_data' = 0
         /\ Execute(c, asked[c])
         /\ Answer(c, Head(rx).kind)
         /\ h_runs' = [h_runs EXCEPT ![c] = @ + 1]
         /\ h_torn' = (h_torn \cup {d \in Clients : HalfWay(d)}) \ {c}
  /\ UNCHANGED <<browser, lost, early, h_lost, h_early>>

(* The first segment of a POST without a command is not answered.          *)
(* Faulty variant: it is answered with the page.                           *)
ServeHeader_Answer ==
  /\ rx # <<>> /\ IsPost /\ ~HasCommand
  /\ post_data = 0
  /\ rx' = Tail(rx)
  /\ post_data' = 1
  /\ Answer(Head(rx).from, Head(rx).kind)
  /\ UNCHANGED <<web_page, filter, handed, browser, lost, early, history>>

ServeHeader ==
  /\ rx # <<>> /\ IsPost /\ ~HasCommand
  /\ post_data = 0
  /\ rx' = Tail(rx)
  /\ post_data' = 1
  /\ UNCHANGED <<web_page, filter, handed, browser, coming, lost, early,
                 history>>

(* Data without a command, a GET too, when post_data is set already: it is *)
(* answered with the page, and post_data stays.                            *)
(* Faulty variant: it is not answered.                                     *)
ServeNoCommand_Silent ==
  /\ rx # <<>> /\ IsPost /\ ~HasCommand
  /\ post_data = 1
  /\ rx' = Tail(rx)
  /\ UNCHANGED <<server, browser, coming, lost, early, history>>

ServeNoCommand ==
  /\ rx # <<>> /\ IsPost /\ ~HasCommand
  /\ post_data = 1
  /\ rx' = Tail(rx)
  /\ LET c == Head(rx).from
     IN  /\ Answer(c, Head(rx).kind)
         /\ h_torn' = h_torn \cup
              {d \in {c} : Head(rx).kind = "head" /\ h_runs[c] = 0}
  /\ UNCHANGED <<server, browser, lost, early, h_runs, h_lost, h_early>>

Serve == ServePage \/ ServeCommand \/ ServeHeader \/ ServeNoCommand

Next == \/ Serve
        \/ \E c \in Clients : \/ Ask(c) \/ Send(c) \/ Arrive(c)
                              \/ Retransmit(c) \/ RetransmitEarly(c)

Spec == Init /\ [][Next]_vars

(* The main loop serves what has arrived; a segment that finds the ring    *)
(* full is sent again, and so is a request without an answer.              *)
FairSpec ==
  /\ Spec
  /\ WF_vars(Serve)
  /\ \A c \in Clients :
       SF_vars(Send(c)) /\ WF_vars(Arrive(c)) /\ WF_vars(Retransmit(c))
-----------------------------------------------------------------------------
(* While the address filter is on, a client with another address changes   *)
(* nothing but the page shown, whatever segments of other clients come in  *)
(* between: it neither moves the filter nor reaches the lights or the      *)
(* commands of the other components (http.c:79-219).                       *)
OnlyOwner ==
  [][mac_filter = 1 /\ <<filter, handed>>' # <<filter, handed>>
       => mac_filter_address = Address[Head(rx).from]]_vars

(* A button pressed once runs its command once, once more for each answer  *)
(* that was lost, in part or whole, and once more for each time its        *)
(* request was sent again without need: the server keeps no record that    *)
(* would tell a request sent again from a new one (http.c:75-226).  Of a   *)
(* POST in one segment even the bytes that the answer has not acknowledged *)
(* are enough, when post_data is set (http.c:75, 90-219).                  *)
OncePerLoss == \A c \in Clients : h_runs[c] <= 1 + h_lost[c] + h_early[c]

(* A client that has an answer to its POST has had its command run, unless *)
(* the POST came in two segments and one was lost, or another client's     *)
(* command was served between the two, or post_data was still set by some  *)
(* other POST when the first was served (http.c:75, 221-225).              *)
AnsweredMeansDone ==
  \A c \in Clients \ (waiting \cup h_torn) :
    asked[c] # NoCommand => h_runs[c] >= 1

(* Every request is answered in the end, also one of two segments, whose   *)
(* first is not answered at all.                                           *)
EveryRequestAnswered ==
  \A c \in Clients : c \in waiting ~> c \notin waiting
=============================================================================
