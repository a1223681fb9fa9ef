----------------------------- MODULE HttpProofs -----------------------------
(***************************************************************************)
(* Proofs about HttpServer, for any number of clients, any addresses and   *)
(* commands, any size of the receive ring, any number of losses and of     *)
(* requests sent again too early: only the owner of the address filter     *)
(* changes anything while it is on, a command runs at most once more than  *)
(* answers were lost and its request was sent again without need, and a    *)
(* client with an answer has had its command run unless its request was    *)
(* torn.                                                                   *)
(***************************************************************************)
EXTENDS HttpServer, FiniteSets, FiniteSetTheorems, TLAPS

Segments == [from : Clients, kind : Kinds]
Runnable == {"post", "body", "tail"}

(* What a client may have left to send.                                    *)
One(c, k) == <<Segment(c, k)>>
Two(c, k) == <<Segment(c, k), Segment(c, "body")>>

QueueInv ==
  \A c \in Clients :
    \/ pending[c] = <<>>
    \/ \E k \in Kinds \ {"head"} : pending[c] = One(c, k)
    \/ \E k \in {"head", "end"} : pending[c] = Two(c, k)

(* The segments of a client that hold its command, and how many they are:  *)
(* in a sequence, and on their way from the client to the server.  What a  *)
(* client has left to send holds the command once, when it holds it.       *)
RunsIn(c, q) == {i \in 1 .. Len(q) : q[i].from = c /\ q[i].kind \in Runnable}
Count(c, q) == Cardinality(RunsIn(c, q))
Held(p) == IF \E i \in 1 .. Len(p) : p[i].kind \in Runnable THEN 1 ELSE 0
ToRun(c) == Count(c, rx) + Held(pending[c])

(* Every run, and every copy of the command that is still on its way, is   *)
(* paid for: by the click, by an answer lost or by sending early.  A run   *)
(* of a client that waits has its answer coming, or the answer was lost.   *)
RunsInv ==
  \A c \in Clients :
    /\ h_lost[c] <= lost
    /\ h_early[c] <= early
    /\ h_runs[c] + ToRun(c) <= 1 + h_lost[c] + h_early[c]
    /\ c \in waiting => h_runs[c] <= Len(coming[c]) + h_lost[c]

(* The segment that is served next for a client, q being the ring, p what  *)
(* the client has left to send and pd the value of post_data, holds its    *)
(* command and will be read as a POST, or is a header whose body follows.  *)
FirstAt(c, q, i) == q[i].from = c /\ \A j \in 1 .. i - 1 : q[j].from # c

Follows(c, q, p, i) ==
  \/ \E j \in i + 1 .. Len(q) :
       q[j] = Segment(c, "body") /\ \A k \in i + 1 .. j - 1 : q[k].from # c
  \/ p = One(c, "body") /\ \A k \in i + 1 .. Len(q) : q[k].from # c

Begun(c, q, p, pd) ==
  /\ (\A i \in 1 .. Len(q) : q[i].from # c)
       => \/ p \in {<<>>, One(c, "post"), Two(c, "head")}
          \/ p = One(c, "body") /\ pd = 1
  /\ \A i \in 1 .. Len(q) :
       FirstAt(c, q, i) => \/ q[i].kind = "post"
                           \/ q[i].kind = "body" /\ pd = 1
                           \/ q[i].kind = "head" /\ Follows(c, q, p, i)

(* A command that has not run, of a request that is not torn, is still to  *)
(* be answered and will be run when its first segment is served.           *)
FreshInv ==
  \A c \in Clients \ h_torn :
    asked[c] # NoCommand /\ h_runs[c] = 0
      => /\ c \in waiting /\ coming[c] = <<>> /\ unacked[c] = "all"
         /\ Begun(c, rx, pending[c], post_data)

IInv == TypeOK /\ QueueInv /\ RunsInv /\ FreshInv
-----------------------------------------------------------------------------
(* What a client has left to send.                                         *)

LEMMA FormOne ==
  ASSUME NEW c \in Clients, NEW k \in Kinds
  PROVE  /\ One(c, k) \in Seq(Segments) /\ One(c, k) # <<>>
         /\ Head(One(c, k)) = Segment(c, k) /\ Tail(One(c, k)) = <<>>
         /\ Held(One(c, k)) = IF k \in Runnable THEN 1 ELSE 0
<1>1. /\ One(c, k) \in Seq(Segments) /\ Len(One(c, k)) = 1
      /\ One(c, k)[1] = Segment(c, k)
  BY DEF One, Segments, Segment
<1>2. /\ One(c, k) # <<>>
      /\ Head(One(c, k)) = Segment(c, k) /\ Tail(One(c, k)) = <<>>
  BY DEF One
<1>3. Segment(c, k).kind = k
  BY DEF Segment
<1>4. Held(One(c, k)) = IF k \in Runnable THEN 1 ELSE 0
  <2>1. (\E i \in 1 .. Len(One(c, k)) : One(c, k)[i].kind \in Runnable)
          <=> k \in Runnable
    BY <1>1, <1>3
  <2>2. CASE k \in Runnable
    BY <2>1, <2>2 DEF Held
  <2>3. CASE k \notin Runnable
    <3>1. ~\E i \in 1 .. Len(One(c, k)) : One(c, k)[i].kind \in Runnable
      BY <2>1, <2>3
    <3>2. QED BY <2>3, <3>1, Zenon DEF Held
  <2>4. QED BY <2>2, <2>3
<1>5. QED BY <1>1, <1>2, <1>4

LEMMA FormTwo ==
  ASSUME NEW c \in Clients, NEW k \in Kinds
  PROVE  /\ Two(c, k) \in Seq(Segments) /\ Two(c, k) # <<>>
         /\ Head(Two(c, k)) = Segment(c, k)
         /\ Tail(Two(c, k)) = One(c, "body")
         /\ Held(Two(c, k)) = 1
<1>1. /\ Two(c, k) \in Seq(Segments) /\ Len(Two(c, k)) = 2
      /\ Two(c, k)[2] = Segment(c, "body")
  BY DEF Two, Segments, Segment, Kinds
<1>2. Head(Two(c, k)) = Segment(c, k) /\ Tail(Two(c, k)) = One(c, "body")
  BY DEF Two, One
<1>3. Segment(c, "body").kind = "body"
  BY DEF Segment
<1>4. Held(Two(c, k)) = 1
  <2>1. \E i \in 1 .. Len(Two(c, k)) : Two(c, k)[i].kind \in Runnable
    BY <1>1, <1>3 DEF Runnable
  <2>2. QED BY <2>1 DEF Held
<1>5. QED BY <1>1, <1>2, <1>4

LEMMA HeldNone == Held(<<>>) = 0
BY DEF Held

(* The forms differ in their length or in their first segment.             *)
LEMMA FormsDiffer ==
  ASSUME NEW c \in Clients, NEW k \in Kinds, NEW l \in Kinds
  PROVE  /\ One(c, k) # Two(c, l)
         /\ One(c, k) = One(c, l) => k = l
         /\ Two(c, k) = Two(c, l) => k = l
<1>1. Len(One(c, k)) = 1 /\ Len(Two(c, l)) = 2
  BY DEF One, Two
<1>2. Segment(c, k) = Segment(c, l) => k = l
  BY DEF Segment
<1>3. One(c, k) = One(c, l) => k = l
  BY <1>2, FormOne
<1>4. Two(c, k) = Two(c, l) => k = l
  BY <1>2, FormTwo
<1>5. QED BY <1>1, <1>3, <1>4

(* The segment a client sends next, and what is left then.                 *)
LEMMA QueueTail ==
  ASSUME NEW c \in Clients, NEW p, p # <<>>,
         \/ p = <<>>
         \/ \E k \in Kinds \ {"head"} : p = One(c, k)
         \/ \E k \in {"head", "end"} : p = Two(c, k)
  PROVE  \E k \in Kinds :
           /\ p \in Seq(Segments) /\ Head(p) = Segment(c, k)
           /\ \/ p = One(c, k) /\ k # "head" /\ Tail(p) = <<>>
              \/ /\ p = Two(c, k) /\ k \in {"head", "end"}
                 /\ Tail(p) = One(c, "body")
           /\ Held(p) = Held(Tail(p)) + IF k \in Runnable THEN 1 ELSE 0
<1>1. ASSUME NEW k \in Kinds \ {"head"}, p = One(c, k)
      PROVE  /\ p \in Seq(Segments) /\ Head(p) = Segment(c, k)
             /\ Tail(p) = <<>>
             /\ Held(p) = Held(Tail(p)) + IF k \in Runnable THEN 1 ELSE 0
  <2>1. /\ p \in Seq(Segments) /\ Head(p) = Segment(c, k)
        /\ Tail(p) = <<>>
        /\ Held(p) = IF k \in Runnable THEN 1 ELSE 0
    BY <1>1, FormOne
  <2>2. Held(Tail(p)) = 0
    BY <2>1, HeldNone
  <2>3. QED BY <2>1, <2>2
<1>2. ASSUME NEW k \in {"head", "end"}, p = Two(c, k)
      PROVE  /\ p \in Seq(Segments) /\ Head(p) = Segment(c, k)
             /\ Tail(p) = One(c, "body")
             /\ Held(p) = Held(Tail(p)) + IF k \in Runnable THEN 1 ELSE 0
  <2>1. k \in Kinds /\ k \notin Runnable /\ "body" \in Kinds /\ "body" \in Runnable
    BY DEF Kinds, Runnable
  <2>2. Held(One(c, "body")) = 1
    BY <2>1, FormOne
  <2>3. /\ p \in Seq(Segments) /\ Head(p) = Segment(c, k)
        /\ Tail(p) = One(c, "body")
        /\ Held(p) = 1
    BY <1>2, <2>1, FormTwo
  <2>4. Held(Tail(p)) = 1
    BY <2>2, <2>3
  <2>5. QED BY <2>1, <2>3, <2>4
<1>3. QED BY <1>1, <1>2 DEF Kinds

LEMMA FormsAre ==
  ASSUME NEW c \in Clients, NEW cmd, NEW part, NEW p \in Forms(c, cmd, part)
  PROVE  /\ \/ \E k \in Kinds \ {"head"} : p = One(c, k)
            \/ \E k \in {"head", "end"} : p = Two(c, k)
         /\ p \in Seq(Segments)
         /\ Held(p) \in 0 .. 1
         /\ part = "all" /\ cmd # NoCommand
              => p \in {One(c, "post"), Two(c, "head")}
<1>1. /\ \/ p \in {One(c, "end"), One(c, "tail"), One(c, "get"), One(c, "post")}
         \/ p \in {Two(c, "end"), Two(c, "head")}
      /\ part = "all" /\ cmd # NoCommand
           => p \in {One(c, "post"), Two(c, "head")}
  BY DEF Forms, One, Two
<1>2. /\ \/ \E k \in Kinds \ {"head"} : p = One(c, k)
         \/ \E k \in {"head", "end"} : p = Two(c, k)
  BY <1>1 DEF Kinds
<1>3. p \in Seq(Segments)
  BY <1>2, FormOne, FormTwo DEF Kinds
<1>4. Held(p) \in 0 .. 1
  BY DEF Held
<1>5. QED BY <1>1, <1>2, <1>3, <1>4
-----------------------------------------------------------------------------
(* How often a command is in the ring.                                     *)

LEMMA CountType ==
  ASSUME NEW c, NEW q \in Seq(Segments)
  PROVE  IsFiniteSet(RunsIn(c, q)) /\ Count(c, q) \in Nat
<1>1. IsFiniteSet(1 .. Len(q))
  BY FS_Interval
<1>2. RunsIn(c, q) \in SUBSET (1 .. Len(q))
  BY DEF RunsIn
<1>3. IsFiniteSet(RunsIn(c, q))
  BY <1>1, <1>2, FS_Subset
<1>4. QED BY <1>3, FS_CardinalityType DEF Count

LEMMA CountNone ==
  ASSUME NEW c, NEW q \in Seq(Segments), \A i \in 1 .. Len(q) : q[i].from # c
  PROVE  Count(c, q) = 0
<1>1. RunsIn(c, q) = {}
  BY DEF RunsIn
<1>2. QED BY <1>1, FS_EmptySet DEF Count

LEMMA CountAppend ==
  ASSUME NEW c, NEW q \in Seq(Segments), NEW e \in Segments
  PROVE  Count(c, Append(q, e))
           = Count(c, q)
               + IF e.from = c /\ e.kind \in Runnable THEN 1 ELSE 0
<1> DEFINE r == Append(q, e)
<1>1. /\ Len(q) \in Nat /\ Len(r) = Len(q) + 1 /\ r[Len(q) + 1] = e
      /\ \A i \in 1 .. Len(q) : r[i] = q[i]
  OBVIOUS
<1>2. IsFiniteSet(RunsIn(c, q)) /\ Count(c, q) \in Nat
  BY CountType
<1>3. Len(q) + 1 \notin RunsIn(c, q)
  BY <1>1 DEF RunsIn
<1>4. CASE e.from = c /\ e.kind \in Runnable
  <2>1. RunsIn(c, r) = RunsIn(c, q) \cup {Len(q) + 1}
    BY <1>1, <1>4 DEF RunsIn
  <2>2. Cardinality(RunsIn(c, r)) = Cardinality(RunsIn(c, q)) + 1
    BY <1>2, <1>3, <2>1, FS_AddElement
  <2>3. QED BY <1>4, <2>2 DEF Count
<1>5. CASE ~(e.from = c /\ e.kind \in Runnable)
  <2>1. RunsIn(c, r) = RunsIn(c, q)
    BY <1>1, <1>5 DEF RunsIn
  <2>2. QED BY <1>2, <1>5, <2>1 DEF Count
<1>6. QED BY <1>4, <1>5

(* Each segment that is left was there before, one place further on.       *)
LEMMA CountTail ==
  ASSUME NEW c, NEW q \in Seq(Segments), q # <<>>
  PROVE  Count(c, Tail(q))
           + (IF Head(q).from = c /\ Head(q).kind \in Runnable THEN 1 ELSE 0)
           <= Count(c, q)
<1> DEFINE r == Tail(q)
           S == RunsIn(c, r)
           T == RunsIn(c, q) \ {1}
           f == [i \in S |-> i + 1]
<1>1. /\ Len(q) \in Nat \ {0} /\ Len(r) = Len(q) - 1 /\ Head(q) = q[1]
      /\ \A i \in 1 .. Len(r) : i + 1 \in 1 .. Len(q) /\ r[i] = q[i + 1]
      /\ r \in Seq(Segments)
  OBVIOUS
<1>2. /\ IsFiniteSet(RunsIn(c, q)) /\ Count(c, q) \in Nat
      /\ Count(c, r) \in Nat
  BY <1>1, CountType
<1>3. S \subseteq 1 .. Len(r) /\ \A i \in S : i + 1 \in T
  BY <1>1 DEF RunsIn
<1>4. f \in Injection(S, T)
  <2>1. f \in [S -> T]
    BY <1>3
  <2>2. \A i, j \in S : f[i] = f[j] => i = j
    BY <1>1, <1>3
  <2>3. QED BY <2>1, <2>2 DEF Injection, IsInjective
<1>5. /\ IsFiniteSet(T)
      /\ Cardinality(T) = IF 1 \in RunsIn(c, q) THEN Count(c, q) - 1
                                                ELSE Count(c, q)
  BY <1>2, FS_RemoveElement DEF Count
<1>6. Cardinality(S) <= Cardinality(T)
  BY <1>4, <1>5, FS_Injection
<1>7. 1 \in RunsIn(c, q) <=> Head(q).from = c /\ Head(q).kind \in Runnable
  BY <1>1 DEF RunsIn
<1>8. QED BY <1>2, <1>5, <1>6, <1>7 DEF Count
-----------------------------------------------------------------------------
(* What is served next for a client, step by step.                         *)

(* The client sends its next segment.                                      *)
LEMMA BegunSend ==
  ASSUME NEW c \in Clients, NEW q \in Seq(Segments), NEW p, NEW pd,
         NEW k \in Kinds, p \in Seq(Segments), Head(p) = Segment(c, k),
         \/ p = One(c, k) /\ k # "head" /\ Tail(p) = <<>>
         \/ p = Two(c, k) /\ Tail(p) = One(c, "body"),
         p # <<>>, Begun(c, q, p, pd)
  PROVE  Begun(c, Append(q, Head(p)), Tail(p), pd)
<1> DEFINE r == Append(q, Segment(c, k))
<1>1. /\ Len(q) \in Nat /\ Len(r) = Len(q) + 1
      /\ r[Len(q) + 1] = Segment(c, k)
      /\ \A i \in 1 .. Len(q) : r[i] = q[i]
  BY DEF Segments, Segment
<1>2. Segment(c, k).from = c /\ Segment(c, k).kind = k
  BY DEF Segment
<1>3. \E i \in 1 .. Len(r) : r[i].from = c
  BY <1>1, <1>2
<1>4. SUFFICES ASSUME NEW i \in 1 .. Len(r), FirstAt(c, r, i)
               PROVE  \/ r[i].kind = "post"
                      \/ r[i].kind = "body" /\ pd = 1
                      \/ r[i].kind = "head" /\ Follows(c, r, Tail(p), i)
  BY <1>3 DEF Begun
<1>5. CASE i = Len(q) + 1
  <2>1. \A j \in 1 .. Len(q) : q[j].from # c
    BY <1>1, <1>4, <1>5 DEF FirstAt
  <2>2. \/ p \in {One(c, "post"), Two(c, "head")}
        \/ p = One(c, "body") /\ pd = 1
    BY <2>1 DEF Begun
  <2>3. \/ k = "post"
        \/ k = "body" /\ pd = 1
        \/ k = "head" /\ Tail(p) = One(c, "body")
    BY <2>2, FormsDiffer DEF Kinds
  <2>4. r[i].kind = k
    BY <1>1, <1>2, <1>5
  <2>5. Tail(p) = One(c, "body") => Follows(c, r, Tail(p), i)
    BY <1>1, <1>5 DEF Follows
  <2>6. QED BY <2>3, <2>4, <2>5
<1>6. CASE i \in 1 .. Len(q)
  <2>1. r[i] = q[i] /\ FirstAt(c, q, i)
    BY <1>1, <1>4, <1>6 DEF FirstAt
  <2>2. Follows(c, q, p, i) => Follows(c, r, Tail(p), i)
    <3>1. ASSUME NEW j \in i + 1 .. Len(q), q[j] = Segment(c, "body"),
                 \A l \in i + 1 .. j - 1 : q[l].from # c
          PROVE  Follows(c, r, Tail(p), i)
      <4>1. j \in i + 1 .. Len(r) /\ r[j] = Segment(c, "body")
        BY <1>1, <1>6, <3>1
      <4>2. \A l \in i + 1 .. j - 1 : r[l].from # c
        BY <1>1, <1>6, <3>1
      <4>3. QED BY <4>1, <4>2 DEF Follows
    <3>2. ASSUME p = One(c, "body"),
                 \A l \in i + 1 .. Len(q) : q[l].from # c
          PROVE  Follows(c, r, Tail(p), i)
      <4>1. k = "body"
        BY <3>2, FormsDiffer DEF Kinds
      <4>2. /\ Len(r) \in i + 1 .. Len(r) /\ r[Len(r)] = Segment(c, "body")
            /\ \A l \in i + 1 .. Len(r) - 1 : r[l].from # c
        BY <1>1, <1>6, <3>2, <4>1
      <4>3. QED BY <4>2 DEF Follows
    <3>3. QED BY <3>1, <3>2 DEF Follows
  <2>3. QED BY <1>6, <2>1, <2>2 DEF Begun
<1>7. QED BY <1>1, <1>5, <1>6

(* A segment of another client comes in.                                   *)
LEMMA BegunOther ==
  ASSUME NEW c, NEW q \in Seq(Segments), NEW p, NEW pd,
         NEW e \in Segments, e.from # c, Begun(c, q, p, pd)
  PROVE  Begun(c, Append(q, e), p, pd)
<1> DEFINE r == Append(q, e)
<1>1. /\ Len(q) \in Nat /\ Len(r) = Len(q) + 1 /\ r[Len(q) + 1] = e
      /\ \A i \in 1 .. Len(q) : r[i] = q[i]
  OBVIOUS
<1>2. (\A i \in 1 .. Len(r) : r[i].from # c)
        => \A i \in 1 .. Len(q) : q[i].from # c
  BY <1>1
<1>3. ASSUME NEW i \in 1 .. Len(r), FirstAt(c, r, i)
      PROVE  \/ r[i].kind = "post"
             \/ r[i].kind = "body" /\ pd = 1
             \/ r[i].kind = "head" /\ Follows(c, r, p, i)
  <2>1. i \in 1 .. Len(q) /\ r[i] = q[i] /\ FirstAt(c, q, i)
    BY <1>1, <1>3 DEF FirstAt
  <2>2. Follows(c, q, p, i) => Follows(c, r, p, i)
    <3>1. ASSUME NEW j \in i + 1 .. Len(q), q[j] = Segment(c, "body"),
                 \A l \in i + 1 .. j - 1 : q[l].from # c
          PROVE  Follows(c, r, p, i)
      <4>1. j \in i + 1 .. Len(r) /\ r[j] = Segment(c, "body")
        BY <1>1, <2>1, <3>1
      <4>2. \A l \in i + 1 .. j - 1 : r[l].from # c
        BY <1>1, <2>1, <3>1
      <4>3. QED BY <4>1, <4>2 DEF Follows
    <3>2. ASSUME p = One(c, "body"),
                 \A l \in i + 1 .. Len(q) : q[l].from # c
          PROVE  Follows(c, r, p, i)
      <4>1. \A l \in i + 1 .. Len(r) : r[l].from # c
        BY <1>1, <2>1, <3>2
      <4>2. QED BY <3>2, <4>1 DEF Follows
    <3>3. QED BY <3>1, <3>2 DEF Follows
  <2>3. QED BY <2>1, <2>2 DEF Begun
<1>4. QED BY <1>2, <1>3 DEF Begun

(* A segment that is neither header nor body is lost.                      *)
LEMMA BegunLose ==
  ASSUME NEW c \in Clients, NEW q, NEW p, NEW pd, NEW k \in Kinds,
         \/ p = One(c, k) /\ k # "head" /\ Tail(p) = <<>>
         \/ p = Two(c, k) /\ Tail(p) = One(c, "body"),
         p # <<>>, k \notin {"head", "body"}, Begun(c, q, p, pd)
  PROVE  Begun(c, q, Tail(p), pd)
<1>1. p # One(c, "body") /\ p # Two(c, "head")
  BY FormsDiffer DEF Kinds
<1>2. CASE \A i \in 1 .. Len(q) : q[i].from # c
  <2>1. p = One(c, "post")
    BY <1>1, <1>2 DEF Begun
  <2>2. Tail(p) = <<>>
    BY <2>1, FormOne DEF Kinds
  <2>3. \A i \in 1 .. Len(q) : ~FirstAt(c, q, i)
    BY <1>2 DEF FirstAt
  <2>4. QED BY <2>2, <2>3 DEF Begun
<1>3. CASE \E i \in 1 .. Len(q) : q[i].from = c
  <2>1. \A i \in 1 .. Len(q) : Follows(c, q, p, i) => Follows(c, q, Tail(p), i)
    BY <1>1 DEF Follows
  <2>2. QED BY <1>3, <2>1 DEF Begun
<1>4. QED BY <1>2, <1>3

(* The client makes its request, anew or again.                            *)
LEMMA BegunAgain ==
  ASSUME NEW c \in Clients, NEW q, NEW p, NEW pd,
         \/ /\ \A i \in 1 .. Len(q) : q[i].from # c
            /\ p \in {One(c, "post"), Two(c, "head")}
         \/ /\ \E i \in 1 .. Len(q) : q[i].from = c
            /\ Begun(c, q, <<>>, pd)
  PROVE  Begun(c, q, p, pd)
<1>1. CASE \A i \in 1 .. Len(q) : q[i].from # c
  BY <1>1 DEF Begun, FirstAt
<1>2. CASE \E i \in 1 .. Len(q) : q[i].from = c
  <2>1. <<>> # One(c, "body")
    BY FormOne DEF Kinds
  <2>2. \A i \in 1 .. Len(q) : Follows(c, q, <<>>, i) => Follows(c, q, p, i)
    BY <2>1 DEF Follows
  <2>3. QED BY <1>2, <2>2 DEF Begun
<1>3. QED BY <1>1, <1>2

(* A segment of another client is served, and either post_data is not      *)
(* reset or no body of this one is next.                                   *)
LEMMA BegunServed ==
  ASSUME NEW c \in Clients, NEW q \in Seq(Segments), NEW p, NEW pd, NEW pe,
         q # <<>>, Head(q).from # c, Begun(c, q, p, pd),
         \/ pd = 1 => pe = 1
         \/ /\ ~\E i \in 1 .. Len(q) : /\ q[i] = Segment(c, "body")
                                       /\ FirstAt(c, q, i)
            /\ ~/\ \A i \in 1 .. Len(q) : q[i].from # c
                /\ p = One(c, "body")
  PROVE  Begun(c, Tail(q), p, pe)
<1> DEFINE r == Tail(q)
<1>1. /\ Len(q) \in Nat \ {0} /\ Len(r) = Len(q) - 1 /\ Head(q) = q[1]
      /\ \A i \in 1 .. Len(r) : i + 1 \in 1 .. Len(q) /\ r[i] = q[i + 1]
      /\ \A i \in 2 .. Len(q) : i - 1 \in 1 .. Len(r) /\ r[i - 1] = q[i]
      /\ \A i \in 1 .. Len(q) : q[i] \in Segments
  OBVIOUS
<1>2. (\A i \in 1 .. Len(r) : r[i].from # c)
        <=> \A i \in 1 .. Len(q) : q[i].from # c
  <2>1. ASSUME \A i \in 1 .. Len(r) : r[i].from # c, NEW i \in 1 .. Len(q)
        PROVE  q[i].from # c
    BY <1>1, <2>1
  <2>2. QED BY <1>1, <2>1
<1>3. (\A i \in 1 .. Len(r) : r[i].from # c)
        => \/ p \in {<<>>, One(c, "post"), Two(c, "head")}
           \/ p = One(c, "body") /\ pe = 1
  BY <1>2 DEF Begun
<1>4. ASSUME NEW i \in 1 .. Len(r), FirstAt(c, r, i)
      PROVE  \/ r[i].kind = "post"
             \/ r[i].kind = "body" /\ pe = 1
             \/ r[i].kind = "head" /\ Follows(c, r, p, i)
  <2>1. i + 1 \in 1 .. Len(q) /\ r[i] = q[i + 1]
    BY <1>1
  <2>2. FirstAt(c, q, i + 1)
    <3>1. q[i + 1].from = c
      BY <1>4, <2>1 DEF FirstAt
    <3>2. ASSUME NEW j \in 1 .. i PROVE q[j].from # c
      <4>1. CASE j = 1
        BY <1>1, <4>1
      <4>2. CASE j \in 2 .. i
        <5>1. j - 1 \in 1 .. i - 1 /\ r[j - 1] = q[j]
          BY <1>1, <4>2
        <5>2. QED BY <1>4, <5>1 DEF FirstAt
      <4>3. QED BY <4>1, <4>2
    <3>3. QED BY <3>1, <3>2 DEF FirstAt
  <2>3. Follows(c, q, p, i + 1) => Follows(c, r, p, i)
    <3>1. ASSUME NEW j \in i + 2 .. Len(q), q[j] = Segment(c, "body"),
                 \A l \in i + 2 .. j - 1 : q[l].from # c
          PROVE  Follows(c, r, p, i)
      <4>1. j - 1 \in i + 1 .. Len(r) /\ r[j - 1] = Segment(c, "body")
        BY <1>1, <3>1
      <4>2. \A l \in i + 1 .. (j - 1) - 1 : r[l].from # c
        <5>1. ASSUME NEW l \in i + 1 .. (j - 1) - 1 PROVE r[l].from # c
          <6>1. l + 1 \in i + 2 .. j - 1 /\ r[l] = q[l + 1]
            BY <1>1, <3>1, <5>1
          <6>2. QED BY <3>1, <6>1
        <5>2. QED BY <5>1
      <4>3. QED BY <4>1, <4>2 DEF Follows
    <3>2. ASSUME p = One(c, "body"),
                 \A l \in i + 2 .. Len(q) : q[l].from # c
          PROVE  Follows(c, r, p, i)
      <4>1. \A l \in i + 1 .. Len(r) : r[l].from # c
        <5>1. ASSUME NEW l \in i + 1 .. Len(r) PROVE r[l].from # c
          <6>1. l + 1 \in i + 2 .. Len(q) /\ r[l] = q[l + 1]
            BY <1>1, <5>1
          <6>2. QED BY <3>2, <6>1
        <5>2. QED BY <5>1
      <4>2. QED BY <3>2, <4>1 DEF Follows
    <3>3. (i + 1) + 1 = i + 2
      BY <1>1
    <3>4. QED BY <3>1, <3>2, <3>3 DEF Follows
  <2>4. q[i + 1].kind = "body" /\ pd = 1 => pe = 1
    <3>1. q[i + 1].kind = "body" => q[i + 1] = Segment(c, "body")
      BY <1>1, <2>1, <2>2 DEF FirstAt, Segments, Segment
    <3>2. QED BY <2>1, <2>2, <3>1
  <2>5. QED BY <2>1, <2>2, <2>3, <2>4 DEF Begun
<1>5. QED BY <1>3, <1>4 DEF Begun

(* The header of the client is served, and sets post_data.                 *)
LEMMA BegunHeader ==
  ASSUME NEW c \in Clients, NEW q \in Seq(Segments), NEW p, NEW pd,
         q # <<>>, Head(q) = Segment(c, "head"), Begun(c, q, p, pd)
  PROVE  Begun(c, Tail(q), p, 1)
<1> DEFINE r == Tail(q)
<1>1. /\ Len(q) \in Nat \ {0} /\ Len(r) = Len(q) - 1 /\ Head(q) = q[1]
      /\ \A i \in 1 .. Len(r) : i + 1 \in 1 .. Len(q) /\ r[i] = q[i + 1]
      /\ \A i \in 2 .. Len(q) : i - 1 \in 1 .. Len(r) /\ r[i - 1] = q[i]
  OBVIOUS
<1>2. Follows(c, q, p, 1)
  <2>1. FirstAt(c, q, 1) /\ q[1].kind = "head"
    BY <1>1 DEF FirstAt, Segment
  <2>2. QED BY <1>1, <2>1 DEF Begun
<1>3. ASSUME NEW j \in 2 .. Len(q), q[j] = Segment(c, "body"),
             \A l \in 2 .. j - 1 : q[l].from # c
      PROVE  Begun(c, r, p, 1)
  <2>1. j - 1 \in 1 .. Len(r) /\ r[j - 1].from = c /\ r[j - 1].kind = "body"
    BY <1>1, <1>3 DEF Segment
  <2>2. ASSUME NEW i \in 1 .. Len(r), FirstAt(c, r, i) PROVE i = j - 1
    <3>1. CASE i < j - 1
      <4>1. i + 1 \in 2 .. j - 1 /\ r[i] = q[i + 1]
        BY <1>1, <1>3, <3>1
      <4>2. QED BY <1>3, <2>2, <4>1 DEF FirstAt
    <3>2. CASE i > j - 1
      <4>1. j - 1 \in 1 .. i - 1
        BY <1>1, <1>3, <3>2
      <4>2. QED BY <2>1, <2>2, <4>1 DEF FirstAt
    <3>3. QED BY <1>1, <1>3, <3>1, <3>2
  <2>3. QED BY <2>1, <2>2 DEF Begun
<1>4. ASSUME p = One(c, "body"), \A l \in 2 .. Len(q) : q[l].from # c
      PROVE  Begun(c, r, p, 1)
  <2>1. \A i \in 1 .. Len(r) : r[i].from # c
    BY <1>1, <1>4
  <2>2. QED BY <1>4, <2>1 DEF Begun, FirstAt
<1>5. QED BY <1>2, <1>3, <1>4 DEF Follows
-----------------------------------------------------------------------------
(* The steps of the browsers.                                              *)

LEMMA AskIInv == ASSUME IInv, NEW c \in Clients, Ask(c) PROVE IInv'
<1>1. TypeOK /\ QueueInv /\ RunsInv /\ FreshInv
  BY DEF IInv
<1>0. PICK cmd \in Commands[c] :
        /\ asked' = [asked EXCEPT ![c] = cmd]
        /\ \E form \in Forms(c, cmd, "all") :
             pending' = [pending EXCEPT ![c] = form]
  BY DEF Ask
<1>2. PICK form \in Forms(c, cmd, "all") :
        /\ asked' = [asked EXCEPT ![c] = cmd]
        /\ pending' = [pending EXCEPT ![c] = form]
  BY <1>0
<1>3. /\ \/ \E k \in Kinds \ {"head"} : form = One(c, k)
         \/ \E k \in {"head", "end"} : form = Two(c, k)
      /\ form \in Seq(Segments)
      /\ Held(form) \in 0 .. 1
      /\ cmd # NoCommand => form \in {One(c, "post"), Two(c, "head")}
      /\ cmd \in AllCommands \cup {NoCommand}
  <2>1. cmd \in AllCommands \cup {NoCommand}
    BY <1>2, HttpAssumption
  <2>2. QED BY <2>1, FormsAre
<1>4. /\ asked'[c] = cmd /\ pending'[c] = form /\ unacked'[c] = "all"
      /\ h_runs'[c] = 0 /\ h_lost'[c] = 0 /\ h_early'[c] = 0
      /\ c \in waiting' /\ waiting' = waiting \cup {c}
      /\ \A d \in Clients \ {c} :
           /\ asked'[d] = asked[d] /\ pending'[d] = pending[d]
           /\ unacked'[d] = unacked[d] /\ h_runs'[d] = h_runs[d]
           /\ h_lost'[d] = h_lost[d] /\ h_early'[d] = h_early[d]
  BY <1>1, <1>2 DEF Ask, TypeOK
<1>5. /\ rx' = rx /\ coming' = coming /\ lost' = lost /\ early' = early
      /\ coming[c] = <<>> /\ post_data' = post_data
      /\ h_torn' = h_torn \ {c}
      /\ \A i \in 1 .. Len(rx) : rx[i].from # c
  BY DEF Ask, InRing, server
<1>6. TypeOK'
  <2>1. 0 \in 0 .. MaxLost /\ 0 \in 0 .. MaxEarly /\ "all" \in Parts
    BY HttpAssumption DEF Parts
  <2>2. form \in Seq([from : Clients, kind : Kinds])
    BY <1>3 DEF Segments
  <2>3. /\ pending' \in [Clients -> Seq([from : Clients, kind : Kinds])]
        /\ asked' \in [Clients -> AllCommands \cup {NoCommand}]
    BY <1>1, <1>2, <1>3, <2>2 DEF TypeOK
  <2>4. /\ unacked' \in [Clients -> Parts]
        /\ h_runs' \in [Clients -> Nat]
        /\ h_lost' \in [Clients -> 0 .. MaxLost]
        /\ h_early' \in [Clients -> 0 .. MaxEarly]
        /\ waiting' \subseteq Clients /\ h_torn' \subseteq Clients
    BY <1>1, <2>1 DEF Ask, TypeOK
  <2>5. UNCHANGED <<web_page, post_data, mac_filter, mac_filter_address,
                    handed, rx, coming, lost, early>>
    BY DEF Ask, server, filter
  <2>6. QED BY <1>1, <2>3, <2>4, <2>5 DEF TypeOK
<1>7. QueueInv'
  BY <1>1, <1>3, <1>4 DEF QueueInv
<1>8. RunsInv'
  <2>1. Count(c, rx) = 0
    BY <1>1, <1>5, CountNone DEF TypeOK, Segments
  <2>2. ToRun(c)' = Held(form)
    BY <1>3, <1>4, <1>5, <2>1 DEF ToRun
  <2>3. \A d \in Clients \ {c} : ToRun(d)' = ToRun(d)
    BY <1>4, <1>5 DEF ToRun
  <2>4. Len(coming[c]) = 0 /\ lost \in Nat /\ early \in Nat
    BY <1>1, <1>5, HttpAssumption DEF TypeOK
  <2>5. /\ h_lost'[c] <= lost' /\ h_early'[c] <= early'
        /\ h_runs'[c] + ToRun(c)' <= 1 + h_lost'[c] + h_early'[c]
        /\ h_runs'[c] <= Len(coming'[c]) + h_lost'[c]
    BY <1>3, <1>4, <1>5, <2>2, <2>4
  <2>6. ASSUME NEW d \in Clients \ {c}
        PROVE  /\ h_lost'[d] <= lost' /\ h_early'[d] <= early'
               /\ h_runs'[d] + ToRun(d)' <= 1 + h_lost'[d] + h_early'[d]
               /\ d \in waiting' => h_runs'[d] <= Len(coming'[d]) + h_lost'[d]
    BY <1>1, <1>4, <1>5, <2>3 DEF RunsInv
  <2>7. QED BY <2>5, <2>6 DEF RunsInv
<1>9. FreshInv'
  <2>1. cmd # NoCommand => Begun(c, rx, form, post_data)
    BY <1>3, <1>5, BegunAgain
  <2>2. QED BY <1>1, <1>4, <1>5, <2>1 DEF FreshInv
<1>10. QED BY <1>6, <1>7, <1>8, <1>9 DEF IInv

LEMMA SendIInv == ASSUME IInv, NEW c \in Clients, Send(c) PROVE IInv'
<1> DEFINE p == pending[c]
<1>1. TypeOK /\ QueueInv /\ RunsInv /\ FreshInv
  BY DEF IInv
<1>2. PICK k \in Kinds :
        /\ p \in Seq(Segments) /\ Head(p) = Segment(c, k)
        /\ \/ p = One(c, k) /\ k # "head" /\ Tail(p) = <<>>
           \/ /\ p = Two(c, k) /\ k \in {"head", "end"}
              /\ Tail(p) = One(c, "body")
        /\ Held(p) = Held(Tail(p)) + IF k \in Runnable THEN 1 ELSE 0
  BY <1>1, QueueTail DEF QueueInv, Send
<1>3. /\ p # <<>> /\ pending'[c] = Tail(p)
      /\ \A d \in Clients \ {c} : pending'[d] = pending[d]
      /\ UNCHANGED <<web_page, post_data, mac_filter, mac_filter_address,
                     handed, asked, waiting, unacked, coming, early,
                     h_runs, h_lost, h_early>>
  BY <1>1 DEF Send, TypeOK, server, filter
<1>4. \/ /\ Len(rx) < RxSlots /\ rx' = Append(rx, Head(p))
         /\ lost' = lost /\ h_torn' = h_torn
      \/ /\ lost < MaxLost /\ lost' = lost + 1 /\ rx' = rx
         /\ h_torn' \subseteq h_torn \cup {c} /\ h_torn \subseteq h_torn'
         /\ k \in {"head", "body"} /\ h_runs[c] = 0 => c \in h_torn'
  <2>1. Head(p).kind = k
    BY <1>2 DEF Segment
  <2>2. QED BY <2>1 DEF Send
<1>5. /\ rx \in Seq(Segments) /\ Segment(c, k) \in Segments
      /\ Segment(c, k).from = c /\ Segment(c, k).kind = k
      /\ Held(p) \in 0 .. 1 /\ Held(Tail(p)) \in 0 .. 1
  BY <1>1 DEF TypeOK, Segments, Segment, Held
<1>6. TypeOK'
  <2>1. Tail(p) \in Seq(Segments)
    BY <1>2, <1>3
  <2>2. pending' \in [Clients -> Seq([from : Clients, kind : Kinds])]
    BY <1>1, <2>1 DEF Send, TypeOK, Segments
  <2>3. rx' \in Seq([from : Clients, kind : Kinds]) /\ Len(rx') <= RxSlots
    <3>1. CASE Len(rx) < RxSlots /\ rx' = Append(rx, Head(p))
      <4>1. rx' \in Seq(Segments) /\ Len(rx') = Len(rx) + 1 /\ Len(rx) \in Nat
        BY <1>2, <1>5, <3>1
      <4>2. QED BY <3>1, <4>1, HttpAssumption DEF Segments
    <3>2. CASE rx' = rx
      BY <1>1, <3>2 DEF TypeOK
    <3>3. QED BY <1>4, <3>1, <3>2
  <2>4. lost' \in 0 .. MaxLost /\ h_torn' \subseteq Clients
    <3>1. /\ lost \in 0 .. MaxLost /\ MaxLost \in Nat
          /\ h_torn \subseteq Clients /\ c \in Clients
      BY <1>1, HttpAssumption DEF TypeOK
    <3>2. lost' = lost \/ (lost < MaxLost /\ lost' = lost + 1)
      BY <1>4
    <3>3. h_torn' \subseteq h_torn \cup {c}
      BY <1>4
    <3>4. lost' \in 0 .. MaxLost
      BY <3>1, <3>2
    <3>5. h_torn' \subseteq Clients
      BY <3>1, <3>3
    <3>6. QED BY <3>4, <3>5
  <2>5. QED BY <1>1, <1>3, <2>2, <2>3, <2>4 DEF TypeOK
<1>7. QueueInv'
  <2>1. pending'[c] = <<>> \/ pending'[c] = One(c, "body")
    BY <1>2, <1>3
  <2>2. "body" \in Kinds \ {"head"}
    BY DEF Kinds
  <2>3. QED BY <1>1, <1>3, <2>1, <2>2 DEF QueueInv
<1>8. RunsInv'
  <2>1. \A d \in Clients : Count(d, rx) \in Nat
    BY <1>5, CountType
  <2>2. ASSUME NEW d \in Clients
        PROVE  ToRun(d)' \in Nat /\ ToRun(d)' <= ToRun(d)
    <3>1. CASE rx' = Append(rx, Segment(c, k))
      <4>1. Count(d, rx') = Count(d, rx)
              + IF d = c /\ k \in Runnable THEN 1 ELSE 0
        BY <1>5, <3>1, CountAppend
      <4>2. CASE d = c
        BY <1>2, <1>3, <1>5, <2>1, <4>1, <4>2 DEF ToRun
      <4>3. CASE d # c
        <5>1. Count(d, rx') = Count(d, rx) /\ Held(pending'[d]) = Held(pending[d])
          BY <1>3, <2>1, <4>1, <4>3
        <5>2. Held(pending[d]) \in 0 .. 1
          BY DEF Held
        <5>3. QED BY <2>1, <5>1, <5>2 DEF ToRun
      <4>4. QED BY <4>2, <4>3
    <3>2. CASE rx' = rx
      <4>1. Count(d, rx') = Count(d, rx)
        BY <3>2
      <4>2. Held(pending'[d]) \in 0 .. 1 /\ Held(pending[d]) \in 0 .. 1
        BY DEF Held
      <4>3. Held(pending'[d]) <= Held(pending[d])
        BY <1>2, <1>3, <1>5, <4>2
      <4>4. QED BY <2>1, <4>1, <4>2, <4>3 DEF ToRun
    <3>3. QED BY <1>2, <1>4, <3>1, <3>2
  <2>3. lost <= lost' /\ lost \in Nat /\ lost' \in Nat
    BY <1>1, <1>4, HttpAssumption DEF TypeOK
  <2>4. ASSUME NEW d \in Clients
        PROVE  /\ h_lost[d] \in Nat /\ h_early[d] \in Nat /\ h_runs[d] \in Nat
               /\ ToRun(d) \in Nat
    <3>1. Held(pending[d]) \in 0 .. 1
      BY DEF Held
    <3>2. QED BY <1>1, <2>1, <3>1, HttpAssumption DEF TypeOK, ToRun
  <2>5. ASSUME NEW d \in Clients
        PROVE  /\ h_lost'[d] <= lost' /\ h_early'[d] <= early'
               /\ h_runs'[d] + ToRun(d)' <= 1 + h_lost'[d] + h_early'[d]
               /\ d \in waiting' => h_runs'[d] <= Len(coming'[d]) + h_lost'[d]
    <3>1. /\ h_lost[d] <= lost /\ h_early[d] <= early
          /\ h_runs[d] + ToRun(d) <= 1 + h_lost[d] + h_early[d]
          /\ d \in waiting => h_runs[d] <= Len(coming[d]) + h_lost[d]
      BY <1>1 DEF RunsInv
    <3>2. QED BY <1>3, <2>2, <2>3, <2>4, <3>1
  <2>6. QED BY <2>5 DEF RunsInv
<1>9. FreshInv'
  <2>1. SUFFICES ASSUME NEW d \in Clients \ h_torn',
                        asked[d] # NoCommand, h_runs[d] = 0
                 PROVE  /\ d \in waiting /\ coming[d] = <<>>
                        /\ unacked[d] = "all"
                        /\ Begun(d, rx', pending'[d], post_data)
    BY <1>3 DEF FreshInv
  <2>2. /\ d \in waiting /\ coming[d] = <<>> /\ unacked[d] = "all"
        /\ Begun(d, rx, pending[d], post_data)
    BY <1>1, <1>4, <2>1 DEF FreshInv
  <2>3. CASE rx' = Append(rx, Segment(c, k)) /\ d = c
    <3>1. Begun(c, Append(rx, Head(p)), Tail(p), post_data)
      BY <1>2, <1>3, <1>5, <2>2, <2>3, BegunSend
    <3>2. QED BY <1>2, <1>3, <2>2, <2>3, <3>1
  <2>4. CASE rx' = Append(rx, Segment(c, k)) /\ d # c
    <3>1. Begun(d, Append(rx, Segment(c, k)), pending[d], post_data)
      BY <1>5, <2>2, <2>4, BegunOther
    <3>2. QED BY <1>3, <2>1, <2>2, <2>4, <3>1
  <2>5. CASE rx' = rx /\ d # c
    BY <1>3, <2>1, <2>2, <2>5
  <2>6. CASE rx' = rx /\ d = c /\ k \notin {"head", "body"}
    <3>1. Begun(c, rx, Tail(p), post_data)
      BY <1>2, <1>3, <2>2, <2>6, BegunLose
    <3>2. QED BY <1>3, <2>2, <2>6, <3>1
  <2>7. CASE rx' # Append(rx, Segment(c, k)) /\ d = c /\ k \in {"head", "body"}
    BY <1>2, <1>4, <2>1, <2>7
  <2>8. QED BY <1>2, <1>4, <2>3, <2>4, <2>5, <2>6, <2>7
<1>10. QED BY <1>6, <1>7, <1>8, <1>9 DEF IInv

(* What has not been acknowledged is sent again.                           *)
LEMMA AgainSends ==
  ASSUME TypeOK, QueueInv, NEW c \in Clients, SendAgain(c)
  PROVE  /\ pending[c] = <<>>
         /\ pending' \in [Clients -> Seq([from : Clients, kind : Kinds])]
         /\ QueueInv'
         /\ \A d \in Clients \ {c} :
              pending'[d] = pending[d] /\ ToRun(d)' = ToRun(d)
         /\ ToRun(c) \in Nat /\ ToRun(c)' \in Nat
         /\ ToRun(c)' <= ToRun(c) + 1
         /\ InRing(c) \/ ToRun(c) = 0
         /\ unacked[c] = "all" /\ asked[c] # NoCommand
              => pending'[c] \in {One(c, "post"), Two(c, "head")}
         /\ UNCHANGED <<web_page, post_data, mac_filter, mac_filter_address,
                        handed, rx, asked, waiting, unacked, coming, lost,
                        h_runs, h_lost, h_torn>>
<1>1. PICK form \in Forms(c, asked[c], unacked[c]) :
        pending' = [pending EXCEPT ![c] = form]
  BY DEF SendAgain
<1>2. /\ \/ \E k \in Kinds \ {"head"} : form = One(c, k)
         \/ \E k \in {"head", "end"} : form = Two(c, k)
      /\ form \in Seq(Segments)
      /\ Held(form) \in 0 .. 1
      /\ unacked[c] = "all" /\ asked[c] # NoCommand
           => form \in {One(c, "post"), Two(c, "head")}
  BY FormsAre
<1>3. /\ pending'[c] = form
      /\ \A d \in Clients \ {c} : pending'[d] = pending[d]
      /\ pending' \in [Clients -> Seq([from : Clients, kind : Kinds])]
  BY <1>1, <1>2 DEF TypeOK, Segments
<1>4. /\ pending[c] = <<>>
      /\ UNCHANGED <<web_page, post_data, mac_filter, mac_filter_address,
                     handed, rx, asked, waiting, unacked, coming, lost,
                     h_runs, h_lost, h_torn>>
  BY DEF SendAgain, server, filter
<1>5. rx \in Seq(Segments) /\ Count(c, rx) \in Nat
  BY CountType DEF TypeOK, Segments
<1>6. /\ ToRun(c) = Count(c, rx) /\ ToRun(c)' = Count(c, rx) + Held(form)
      /\ \A d \in Clients \ {c} : ToRun(d)' = ToRun(d)
  BY <1>3, <1>4, <1>5, HeldNone DEF ToRun
<1>7. InRing(c) \/ ToRun(c) = 0
  BY <1>5, <1>6, CountNone DEF InRing
<1>8. QueueInv'
  BY <1>2, <1>3 DEF QueueInv
<1>9. ToRun(c) \in Nat /\ ToRun(c)' \in Nat /\ ToRun(c)' <= ToRun(c) + 1
  BY <1>2, <1>5, <1>6
<1>10. unacked[c] = "all" /\ asked[c] # NoCommand
         => pending'[c] \in {One(c, "post"), Two(c, "head")}
  BY <1>2, <1>3
<1>11. QED BY <1>3, <1>4, <1>6, <1>7, <1>8, <1>9, <1>10

(* A command that is fresh stays so when its request is sent again.        *)
LEMMA AgainFresh ==
  ASSUME IInv, NEW c \in Clients, SendAgain(c),
         \/ c \in waiting
         \/ unacked[c] # "all"
  PROVE  FreshInv'
<1>1. TypeOK /\ QueueInv /\ FreshInv
  BY DEF IInv
<1>2. /\ pending[c] = <<>>
      /\ \A d \in Clients \ {c} : pending'[d] = pending[d]
      /\ unacked[c] = "all" /\ asked[c] # NoCommand
           => pending'[c] \in {One(c, "post"), Two(c, "head")}
      /\ UNCHANGED <<post_data, rx, asked, waiting, unacked, coming,
                     h_runs, h_torn>>
  BY <1>1, AgainSends
<1>3. ASSUME c \notin h_torn, asked[c] # NoCommand, h_runs[c] = 0
      PROVE  Begun(c, rx, pending'[c], post_data)
  <2>1. unacked[c] = "all" /\ Begun(c, rx, <<>>, post_data)
    BY <1>1, <1>2, <1>3 DEF FreshInv
  <2>2. QED BY <1>2, <1>3, <2>1, BegunAgain
<1>4. QED BY <1>1, <1>2, <1>3 DEF FreshInv

(* In time every run so far has its answer lost.                           *)
LEMMA RetransmitIInv ==
  ASSUME IInv, NEW c \in Clients, Retransmit(c)
  PROVE  IInv'
<1>1. TypeOK /\ QueueInv /\ RunsInv /\ FreshInv
  BY DEF IInv
<1>2. /\ c \in waiting /\ ~InRing(c) /\ coming[c] = <<>> /\ SendAgain(c)
      /\ early' = early /\ h_early' = h_early
  BY DEF Retransmit
<1>3. /\ pending' \in [Clients -> Seq([from : Clients, kind : Kinds])]
      /\ QueueInv'
      /\ \A d \in Clients \ {c} : ToRun(d)' = ToRun(d)
      /\ ToRun(c) \in Nat /\ ToRun(c)' \in Nat
      /\ ToRun(c)' <= ToRun(c) + 1 /\ ToRun(c) = 0
      /\ UNCHANGED <<web_page, post_data, mac_filter, mac_filter_address,
                     handed, rx, asked, waiting, unacked, coming, lost,
                     h_runs, h_lost, h_torn>>
  BY <1>1, <1>2, AgainSends
<1>4. TypeOK'
  BY <1>1, <1>2, <1>3 DEF TypeOK
<1>5. RunsInv'
  <2>1. h_runs[c] <= h_lost[c]
    <3>1. Len(coming[c]) = 0 /\ h_lost[c] \in Nat
      BY <1>1, <1>2 DEF TypeOK
    <3>2. QED BY <1>1, <1>2, <3>1 DEF RunsInv
  <2>2. h_runs[c] \in Nat /\ h_lost[c] \in Nat /\ h_early[c] \in Nat
    BY <1>1 DEF TypeOK
  <2>3. h_runs'[c] + ToRun(c)' <= 1 + h_lost'[c] + h_early'[c]
    BY <1>2, <1>3, <2>1, <2>2
  <2>4. QED BY <1>1, <1>2, <1>3, <2>3 DEF RunsInv
<1>6. FreshInv'
  BY <1>2, AgainFresh
<1>7. QED BY <1>3, <1>4, <1>5, <1>6 DEF IInv

(* Too early, the copy is counted.                                         *)
LEMMA RetransmitEarlyIInv ==
  ASSUME IInv, NEW c \in Clients, RetransmitEarly(c)
  PROVE  IInv'
<1>1. TypeOK /\ QueueInv /\ RunsInv /\ FreshInv
  BY DEF IInv
<1>2. /\ c \in waiting \/ unacked[c] # "all"
      /\ early < MaxEarly /\ early' = early + 1 /\ SendAgain(c)
      /\ h_early' = [h_early EXCEPT ![c] = @ + 1]
  BY DEF RetransmitEarly
<1>3. /\ pending' \in [Clients -> Seq([from : Clients, kind : Kinds])]
      /\ QueueInv'
      /\ \A d \in Clients \ {c} : ToRun(d)' = ToRun(d)
      /\ ToRun(c) \in Nat /\ ToRun(c)' \in Nat
      /\ ToRun(c)' <= ToRun(c) + 1
      /\ UNCHANGED <<web_page, post_data, mac_filter, mac_filter_address,
                     handed, rx, asked, waiting, unacked, coming, lost,
                     h_runs, h_lost, h_torn>>
  BY <1>1, <1>2, AgainSends
<1>4. /\ h_early'[c] = h_early[c] + 1
      /\ \A d \in Clients \ {c} : h_early'[d] = h_early[d]
      /\ h_early \in [Clients -> Nat] /\ h_runs \in [Clients -> Nat]
      /\ h_lost \in [Clients -> Nat]
      /\ early \in Nat
      /\ \A d \in Clients : h_early[d] <= early
  BY <1>1, <1>2 DEF TypeOK, RunsInv
<1>5. TypeOK'
  <2>1. early' \in 0 .. MaxEarly
    BY <1>1, <1>2, HttpAssumption DEF TypeOK
  <2>2. h_early[c] + 1 \in 0 .. MaxEarly
    BY <1>2, <1>4, HttpAssumption
  <2>3. h_early' \in [Clients -> 0 .. MaxEarly]
    BY <1>1, <1>2, <2>2 DEF TypeOK
  <2>4. QED BY <1>1, <1>3, <2>1, <2>3 DEF TypeOK
<1>6. RunsInv'
  <2>1. h_runs'[c] + ToRun(c)' <= 1 + h_lost'[c] + h_early'[c]
    <3>1. h_runs[c] + ToRun(c) <= 1 + h_lost[c] + h_early[c]
      BY <1>1 DEF RunsInv
    <3>2. QED BY <1>3, <1>4, <3>1
  <2>2. ASSUME NEW d \in Clients PROVE h_early'[d] <= early'
    BY <1>2, <1>4
  <2>3. QED BY <1>1, <1>3, <1>4, <2>1, <2>2 DEF RunsInv
<1>7. FreshInv'
  BY <1>2, AgainFresh
<1>8. QED BY <1>3, <1>5, <1>6, <1>7 DEF IInv

(* An answer comes in, or is lost.                                         *)
LEMMA ArriveIInv == ASSUME IInv, NEW c \in Clients, Arrive(c) PROVE IInv'
<1>1. TypeOK /\ QueueInv /\ RunsInv /\ FreshInv
  BY DEF IInv
<1>2. /\ coming[c] # <<>>
      /\ coming' = [coming EXCEPT ![c] = Tail(@)]
      /\ UNCHANGED <<web_page, post_data, mac_filter, mac_filter_address,
                     handed, rx, pending, asked, early, h_runs, h_early,
                     h_torn>>
  BY DEF Arrive, server, filter
<1>3. /\ coming[c] \in Seq(Parts) /\ coming'[c] = Tail(coming[c])
      /\ Head(coming[c]) \in Parts
      /\ Tail(coming[c]) \in Seq(Parts)
      /\ Len(coming[c]) = Len(coming'[c]) + 1
      /\ Len(coming'[c]) \in Nat
      /\ \A d \in Clients \ {c} : coming'[d] = coming[d]
  <2>1. coming[c] \in Seq(Parts) /\ coming[c] # <<>>
    BY <1>1, <1>2 DEF TypeOK
  <2>2. /\ coming'[c] = Tail(coming[c])
        /\ \A d \in Clients \ {c} : coming'[d] = coming[d]
    BY <1>1, <1>2 DEF TypeOK
  <2>3. /\ Head(coming[c]) \in Parts
        /\ Tail(coming[c]) \in Seq(Parts)
        /\ Len(coming[c]) = Len(Tail(coming[c])) + 1
        /\ Len(Tail(coming[c])) \in Nat
    BY <2>1
  <2>4. QED BY <2>1, <2>2, <2>3
<1>4. /\ \A d \in Clients \ {c} : unacked'[d] = unacked[d]
      /\ unacked' \in [Clients -> Parts]
  <2>1. unacked \in [Clients -> Parts]
    BY <1>1 DEF TypeOK
  <2>2. PICK part \in Parts : unacked' = [unacked EXCEPT ![c] = part]
    <3>1. CASE Acknowledge(c)
      <4>1. (IF unacked[c] = "end" THEN unacked[c] ELSE Head(coming[c])) \in Parts
        BY <1>3, <2>1
      <4>2. QED BY <3>1, <4>1 DEF Acknowledge
    <3>2. CASE UNCHANGED unacked
      <4>1. unacked' = [unacked EXCEPT ![c] = unacked[c]] /\ unacked[c] \in Parts
        BY <2>1, <3>2
      <4>2. QED BY <4>1
    <3>3. QED BY <3>1, <3>2 DEF Arrive
  <2>3. QED BY <2>1, <2>2
<1>5. \/ waiting' = waiting \ {c} /\ lost' = lost /\ h_lost' = h_lost
      \/ /\ waiting' = waiting /\ lost < MaxLost /\ lost' = lost + 1
         /\ h_lost' = [h_lost EXCEPT ![c] = @ + 1]
  BY DEF Arrive
<1>6. /\ lost \in Nat /\ lost \in 0 .. MaxLost
      /\ h_lost \in [Clients -> Nat] /\ h_runs \in [Clients -> Nat]
      /\ h_early \in [Clients -> Nat]
      /\ \A d \in Clients : h_lost[d] <= lost
  BY <1>1 DEF TypeOK, RunsInv
<1>7. TypeOK'
  <2>1. coming' \in [Clients -> Seq(Parts)]
    BY <1>1, <1>2, <1>3 DEF TypeOK
  <2>2. waiting' \subseteq Clients /\ lost' \in 0 .. MaxLost
    BY <1>1, <1>5, HttpAssumption DEF TypeOK
  <2>3. h_lost' \in [Clients -> 0 .. MaxLost]
    <3>1. CASE lost < MaxLost
      <4>1. h_lost[c] + 1 \in 0 .. MaxLost
        BY <1>6, <3>1, HttpAssumption
      <4>2. QED BY <1>1, <1>5, <4>1 DEF TypeOK
    <3>2. QED BY <1>1, <1>5, <3>1 DEF TypeOK
  <2>4. QED BY <1>1, <1>2, <1>4, <2>1, <2>2, <2>3 DEF TypeOK
<1>8. QueueInv'
  BY <1>1, <1>2 DEF QueueInv
<1>9. RunsInv'
  <2>1. \A d \in Clients : ToRun(d)' = ToRun(d)
    BY <1>2 DEF ToRun
  <2>2. ASSUME NEW d \in Clients PROVE ToRun(d) \in Nat
    <3>1. Count(d, rx) \in Nat
      BY <1>1, CountType DEF TypeOK, Segments
    <3>2. Held(pending[d]) \in 0 .. 1
      BY DEF Held
    <3>3. QED BY <3>1, <3>2 DEF ToRun
  <2>3. /\ h_lost'[c] \in {h_lost[c], h_lost[c] + 1}
        /\ lost' - lost = h_lost'[c] - h_lost[c]
        /\ \A d \in Clients \ {c} : h_lost'[d] = h_lost[d]
        /\ c \in waiting' => c \in waiting /\ h_lost'[c] = h_lost[c] + 1
        /\ \A d \in Clients \ {c} : d \in waiting' <=> d \in waiting
    BY <1>5, <1>6
  <2>4. /\ h_lost'[c] <= lost' /\ h_early'[c] <= early'
        /\ h_runs'[c] + ToRun(c)' <= 1 + h_lost'[c] + h_early'[c]
        /\ c \in waiting' => h_runs'[c] <= Len(coming'[c]) + h_lost'[c]
    <3>1. /\ h_lost[c] <= lost /\ h_early[c] <= early
          /\ h_runs[c] + ToRun(c) <= 1 + h_lost[c] + h_early[c]
          /\ c \in waiting => h_runs[c] <= Len(coming[c]) + h_lost[c]
      BY <1>1 DEF RunsInv
    <3>2. /\ lost' \in Nat /\ lost \in Nat
          /\ h_lost[c] \in Nat /\ h_runs[c] \in Nat /\ h_early[c] \in Nat
      BY <1>5, <1>6
    <3>3. /\ h_lost'[c] \in {h_lost[c], h_lost[c] + 1}
          /\ lost' - lost = h_lost'[c] - h_lost[c]
          /\ c \in waiting' => c \in waiting /\ h_lost'[c] = h_lost[c] + 1
          /\ Len(coming[c]) = Len(coming'[c]) + 1 /\ Len(coming'[c]) \in Nat
      BY <1>3, <2>3
    <3>4. /\ h_runs'[c] = h_runs[c] /\ h_early'[c] = h_early[c] /\ early' = early
          /\ ToRun(c)' = ToRun(c) /\ ToRun(c) \in Nat
      BY <1>2, <2>1, <2>2
    <3>5. h_lost'[c] <= lost' /\ h_early'[c] <= early'
      BY <3>1, <3>2, <3>3, <3>4
    <3>6. h_lost'[c] \in Nat /\ h_lost[c] <= h_lost'[c]
      BY <3>2, <3>3
    <3>7. h_runs'[c] + ToRun(c)' <= 1 + h_lost'[c] + h_early'[c]
      <4>1. h_runs[c] + ToRun(c) <= 1 + h_lost'[c] + h_early[c]
        BY <3>1, <3>2, <3>4, <3>6
      <4>2. QED BY <3>4, <4>1
    <3>8. ASSUME c \in waiting'
          PROVE  h_runs'[c] <= Len(coming'[c]) + h_lost'[c]
      <4>1. c \in waiting /\ h_lost'[c] = h_lost[c] + 1
        BY <3>3, <3>8
      <4>2. h_runs[c] <= Len(coming[c]) + h_lost[c]
        BY <3>1, <4>1
      <4>3. h_runs[c] <= (Len(coming'[c]) + 1) + h_lost[c]
        BY <3>3, <4>2
      <4>4. h_runs[c] <= Len(coming'[c]) + (h_lost[c] + 1)
        BY <3>2, <3>3, <4>3
      <4>5. QED BY <3>4, <4>1, <4>4
    <3>9. QED BY <3>5, <3>7, <3>8
  <2>5. ASSUME NEW d \in Clients \ {c}
        PROVE  /\ h_lost'[d] <= lost' /\ h_early'[d] <= early'
               /\ h_runs'[d] + ToRun(d)' <= 1 + h_lost'[d] + h_early'[d]
               /\ d \in waiting' => h_runs'[d] <= Len(coming'[d]) + h_lost'[d]
    <3>1. /\ h_lost[d] <= lost /\ h_early[d] <= early
          /\ h_runs[d] + ToRun(d) <= 1 + h_lost[d] + h_early[d]
          /\ d \in waiting => h_runs[d] <= Len(coming[d]) + h_lost[d]
      BY <1>1 DEF RunsInv
    <3>2. h_lost[d] <= lost'
      BY <1>5, <1>6
    <3>3. QED BY <1>2, <1>3, <2>1, <2>3, <3>1, <3>2
  <2>6. QED BY <2>4, <2>5 DEF RunsInv
<1>10. FreshInv'
  BY <1>1, <1>2, <1>3, <1>4, <1>5 DEF FreshInv
<1>11. QED BY <1>7, <1>8, <1>9, <1>10 DEF IInv
-----------------------------------------------------------------------------
(* The steps of the server.                                                *)

(* The oldest frame of the ring is served.                                 *)
LEMMA Served ==
  ASSUME TypeOK, QueueInv, rx # <<>>, rx' = Tail(rx), UNCHANGED pending,
         NEW c, c = Head(rx).from, NEW k, k = Head(rx).kind
  PROVE  /\ c \in Clients /\ k \in Kinds /\ Head(rx) = Segment(c, k)
         /\ rx \in Seq(Segments) /\ rx' \in Seq(Segments)
         /\ Len(rx') <= RxSlots
         /\ FirstAt(c, rx, 1) /\ 1 \in 1 .. Len(rx) /\ rx[1] = Segment(c, k)
         /\ QueueInv'
         /\ \A d \in Clients :
              /\ ToRun(d) \in Nat /\ ToRun(d)' \in Nat
              /\ ToRun(d)' <= ToRun(d)
         /\ k \in Runnable => ToRun(c)' + 1 <= ToRun(c)
<1>1. /\ rx \in Seq(Segments) /\ Len(rx) \in Nat \ {0} /\ Len(rx) <= RxSlots
      /\ Head(rx) = rx[1] /\ rx[1] \in Segments
      /\ Tail(rx) \in Seq(Segments) /\ Len(Tail(rx)) = Len(rx) - 1
  <2>1. rx \in Seq(Segments) /\ Len(rx) <= RxSlots
    BY DEF TypeOK, Segments
  <2>2. QED BY <2>1
<1>2. c \in Clients /\ k \in Kinds /\ rx[1] = Segment(c, k)
  BY <1>1 DEF Segments, Segment
<1>3. FirstAt(c, rx, 1)
  BY <1>1 DEF FirstAt
<1>4. Len(rx') <= RxSlots
  BY <1>1, HttpAssumption
<1>5. QueueInv'
  BY DEF QueueInv
<1>6. ASSUME NEW d \in Clients
      PROVE  /\ ToRun(d) \in Nat /\ ToRun(d)' \in Nat
             /\ ToRun(d)' <= ToRun(d)
             /\ d = c /\ k \in Runnable => ToRun(d)' + 1 <= ToRun(d)
  <2>1. Count(d, rx) \in Nat /\ Count(d, Tail(rx)) \in Nat
    BY <1>1, CountType
  <2>2. Count(d, Tail(rx))
          + (IF c = d /\ k \in Runnable THEN 1 ELSE 0) <= Count(d, rx)
    BY <1>1, CountTail
  <2>3. Held(pending[d]) \in 0 .. 1
    BY DEF Held
  <2>4. /\ ToRun(d) = Count(d, rx) + Held(pending[d])
        /\ ToRun(d)' = Count(d, Tail(rx)) + Held(pending[d])
    BY DEF ToRun
  <2>5. QED BY <2>1, <2>2, <2>3, <2>4
<1>7. QED BY <1>1, <1>2, <1>3, <1>4, <1>5, <1>6

LEMMA AnswerSends ==
  ASSUME TypeOK, NEW c \in Clients, NEW k, Answer(c, k)
  PROVE  /\ coming' \in [Clients -> Seq(Parts)]
         /\ Len(coming'[c]) = Len(coming[c]) + 1 /\ Len(coming[c]) \in Nat
         /\ \A d \in Clients \ {c} : coming'[d] = coming[d]
<1> DEFINE part == IF k \in {"post", "head", "tail"} THEN "tail" ELSE "end"
<1>1. part \in Parts
  BY DEF Parts
<1>2. coming' = [coming EXCEPT ![c] = Append(@, part)]
  BY DEF Answer
<1>3. QED BY <1>1, <1>2 DEF TypeOK

(* A segment is served that runs no command.                               *)
LEMMA RunsServed ==
  ASSUME TypeOK, QueueInv, RunsInv, rx # <<>>, rx' = Tail(rx),
         UNCHANGED <<pending, waiting, lost, early, h_runs, h_lost, h_early>>,
         \A d \in Clients :
           /\ Len(coming[d]) \in Nat /\ Len(coming'[d]) \in Nat
           /\ Len(coming[d]) <= Len(coming'[d])
  PROVE  RunsInv'
<1>1. \A d \in Clients :
        /\ ToRun(d) \in Nat /\ ToRun(d)' \in Nat /\ ToRun(d)' <= ToRun(d)
  BY Served
<1>2. ASSUME NEW d \in Clients
      PROVE  /\ h_lost'[d] <= lost' /\ h_early'[d] <= early'
             /\ h_runs'[d] + ToRun(d)' <= 1 + h_lost'[d] + h_early'[d]
             /\ d \in waiting' => h_runs'[d] <= Len(coming'[d]) + h_lost'[d]
  <2>1. /\ h_lost[d] <= lost /\ h_early[d] <= early
        /\ h_runs[d] + ToRun(d) <= 1 + h_lost[d] + h_early[d]
        /\ d \in waiting => h_runs[d] <= Len(coming[d]) + h_lost[d]
    BY DEF RunsInv
  <2>2. h_runs[d] \in Nat /\ h_lost[d] \in Nat /\ h_early[d] \in Nat
    BY DEF TypeOK
  <2>3. /\ h_lost'[d] = h_lost[d] /\ h_early'[d] = h_early[d]
        /\ h_runs'[d] = h_runs[d] /\ lost' = lost /\ early' = early
        /\ d \in waiting' <=> d \in waiting
    OBVIOUS
  <2>4. h_runs'[d] + ToRun(d)' <= 1 + h_lost'[d] + h_early'[d]
    BY <1>1, <2>1, <2>2, <2>3
  <2>5. d \in waiting' => h_runs'[d] <= Len(coming'[d]) + h_lost'[d]
    <3>1. /\ Len(coming[d]) \in Nat /\ Len(coming'[d]) \in Nat
          /\ Len(coming[d]) <= Len(coming'[d])
      OBVIOUS
    <3>2. QED BY <2>1, <2>2, <2>3, <3>1
  <2>6. QED BY <2>1, <2>3, <2>4, <2>5
<1>3. QED BY <1>2 DEF RunsInv

(* What is fresh of the other clients stays so, unless their second half   *)
(* was next and post_data is reset.                                        *)
LEMMA FreshServed ==
  ASSUME TypeOK, QueueInv, FreshInv, rx # <<>>, rx' = Tail(rx),
         UNCHANGED <<pending, asked, waiting, unacked>>,
         NEW c, c = Head(rx).from, NEW d \in Clients \ {c},
         d \notin h_torn, h_runs'[d] = h_runs[d], coming'[d] = coming[d],
         (post_data = 1 => post_data' = 1) \/ ~HalfWay(d),
         asked[d] # NoCommand, h_runs[d] = 0
  PROVE  /\ d \in waiting' /\ coming'[d] = <<>> /\ unacked'[d] = "all"
         /\ Begun(d, rx', pending'[d], post_data')
<1>1. /\ d \in waiting /\ coming[d] = <<>> /\ unacked[d] = "all"
      /\ Begun(d, rx, pending[d], post_data)
  BY DEF FreshInv
<1>2. rx \in Seq(Segments) /\ Head(rx).from # d
  BY DEF TypeOK, Segments
<1>3. \/ post_data = 1 => post_data' = 1
      \/ /\ ~\E i \in 1 .. Len(rx) : /\ rx[i] = Segment(d, "body")
                                     /\ FirstAt(d, rx, i)
         /\ ~/\ \A i \in 1 .. Len(rx) : rx[i].from # d
             /\ pending[d] = One(d, "body")
  BY DEF HalfWay, InRing, FirstAt, One
<1>4. Begun(d, Tail(rx), pending[d], post_data')
  BY <1>1, <1>2, <1>3, BegunServed
<1>5. QED BY <1>1, <1>4

LEMMA ServePageIInv == ASSUME IInv, ServePage PROVE IInv'
<1> SUFFICES ASSUME NEW c, c = Head(rx).from, NEW k, k = Head(rx).kind
             PROVE  IInv'
  OBVIOUS
<1>1. TypeOK /\ QueueInv /\ RunsInv /\ FreshInv
  BY DEF IInv
<1>2. /\ rx # <<>> /\ ~IsPost /\ rx' = Tail(rx) /\ Answer(c, k)
      /\ UNCHANGED <<web_page, post_data, mac_filter, mac_filter_address,
                     handed, pending, asked, waiting, unacked, lost, early,
                     h_runs, h_lost, h_early, h_torn>>
  BY DEF ServePage, server, filter, browser, history
<1>3. /\ c \in Clients /\ rx' \in Seq(Segments) /\ Len(rx') <= RxSlots
      /\ FirstAt(c, rx, 1) /\ 1 \in 1 .. Len(rx) /\ rx[1].kind = k
      /\ QueueInv'
  BY <1>1, <1>2, Served DEF Segment
<1>4. /\ coming' \in [Clients -> Seq(Parts)]
      /\ Len(coming'[c]) = Len(coming[c]) + 1 /\ Len(coming[c]) \in Nat
      /\ \A d \in Clients \ {c} : coming'[d] = coming[d]
  BY <1>1, <1>2, <1>3, AnswerSends
<1>5. TypeOK'
  BY <1>1, <1>2, <1>3, <1>4 DEF TypeOK, Segments
<1>6. RunsInv'
  <2>1. ASSUME NEW d \in Clients
        PROVE  /\ Len(coming[d]) \in Nat /\ Len(coming'[d]) \in Nat
               /\ Len(coming[d]) <= Len(coming'[d])
    <3>1. Len(coming[d]) \in Nat
      BY <1>1 DEF TypeOK
    <3>2. CASE d = c
      BY <1>4, <3>1, <3>2
    <3>3. CASE d # c
      <4>1. coming'[d] = coming[d]
        BY <1>4, <3>3
      <4>2. QED BY <3>1, <4>1
    <3>4. QED BY <3>2, <3>3
  <2>2. QED BY <1>1, <1>2, <2>1, RunsServed
<1>7. FreshInv'
  <2>1. ~(c \notin h_torn /\ asked[c] # NoCommand /\ h_runs[c] = 0)
    <3>1. k \notin {"post", "head"} /\ post_data # 1
      BY <1>2 DEF IsPost
    <3>2. QED BY <1>1, <1>3, <3>1 DEF FreshInv, Begun
  <2>2. ASSUME NEW d \in Clients \ h_torn, asked[d] # NoCommand, h_runs[d] = 0
        PROVE  /\ d \in waiting' /\ coming'[d] = <<>> /\ unacked'[d] = "all"
               /\ Begun(d, rx', pending'[d], post_data')
    BY <1>1, <1>2, <1>4, <2>1, <2>2, FreshServed
  <2>3. QED BY <1>2, <2>2 DEF FreshInv
<1>8. QED BY <1>3, <1>5, <1>6, <1>7 DEF IInv

LEMMA ExecuteTypes ==
  ASSUME TypeOK, NEW c \in Clients, Execute(c, asked[c])
  PROVE  /\ web_page' \in {1, 2} /\ mac_filter' \in {0, 1}
         /\ mac_filter_address' \in Addresses \cup {NoAddress}
         /\ handed' \in AllCommands \cup {NoCommand}
<1>1. asked[c] \in AllCommands \cup {NoCommand}
  BY DEF TypeOK
<1>2. Address[c] \in Addresses
  BY DEF Addresses
<1>3. ASSUME NEW value, SetPage(value)
      PROVE  web_page' \in {1, 2}
             /\ UNCHANGED <<mac_filter, mac_filter_address, handed>>
  BY <1>3 DEF SetPage, filter
<1>4. ASSUME NEW value, SetFilter(c, value)
      PROVE  /\ mac_filter' \in {0, 1}
             /\ mac_filter_address' \in {mac_filter_address, Address[c]}
             /\ UNCHANGED <<web_page, handed>>
  BY <1>4 DEF SetFilter
<1>5. ASSUME HandOver(asked[c])
      PROVE  /\ handed' = asked[c]
             /\ UNCHANGED <<web_page, mac_filter, mac_filter_address>>
  BY <1>5 DEF HandOver, filter
<1>6. CASE UNCHANGED <<web_page, filter, handed>>
  BY <1>6 DEF TypeOK, filter
<1>7. QED BY <1>1, <1>2, <1>3, <1>4, <1>5, <1>6 DEF Execute, TypeOK

LEMMA ServeCommandIInv == ASSUME IInv, ServeCommand PROVE IInv'
<1> SUFFICES ASSUME NEW c, c = Head(rx).from, NEW k, k = Head(rx).kind
             PROVE  IInv'
  OBVIOUS
<1>1. TypeOK /\ QueueInv /\ RunsInv /\ FreshInv
  BY DEF IInv
<1>2. /\ rx # <<>> /\ k \in Runnable /\ rx' = Tail(rx)
      /\ post_data' = 0 /\ Execute(c, asked[c]) /\ Answer(c, k)
      /\ h_runs' = [h_runs EXCEPT ![c] = @ + 1]
      /\ h_torn' = (h_torn \cup {d \in Clients : HalfWay(d)}) \ {c}
      /\ UNCHANGED <<pending, asked, waiting, unacked, lost, early,
                     h_lost, h_early>>
  BY DEF ServeCommand, HasCommand, Runnable, browser
<1>3. /\ c \in Clients /\ rx' \in Seq(Segments) /\ Len(rx') <= RxSlots
      /\ QueueInv'
      /\ \A d \in Clients :
           /\ ToRun(d) \in Nat /\ ToRun(d)' \in Nat /\ ToRun(d)' <= ToRun(d)
      /\ ToRun(c)' + 1 <= ToRun(c)
  <2>1. /\ c \in Clients /\ rx' \in Seq(Segments) /\ Len(rx') <= RxSlots
        /\ QueueInv'
    BY <1>1, <1>2, Served
  <2>2. \A d \in Clients :
          /\ ToRun(d) \in Nat /\ ToRun(d)' \in Nat /\ ToRun(d)' <= ToRun(d)
    BY <1>1, <1>2, Served
  <2>3. k \in Runnable => ToRun(c)' + 1 <= ToRun(c)
    BY <1>1, <1>2, Served
  <2>4. QED BY <1>2, <2>1, <2>2, <2>3
<1>4. /\ coming' \in [Clients -> Seq(Parts)]
      /\ Len(coming'[c]) = Len(coming[c]) + 1 /\ Len(coming[c]) \in Nat
      /\ \A d \in Clients \ {c} : coming'[d] = coming[d]
  BY <1>1, <1>2, <1>3, AnswerSends
<1>5. /\ h_runs'[c] = h_runs[c] + 1
      /\ \A d \in Clients \ {c} : h_runs'[d] = h_runs[d]
      /\ h_runs \in [Clients -> Nat] /\ h_lost \in [Clients -> Nat]
      /\ h_early \in [Clients -> Nat] /\ h_runs' \in [Clients -> Nat]
  <2>1. /\ h_runs \in [Clients -> Nat] /\ h_lost \in [Clients -> Nat]
        /\ h_early \in [Clients -> Nat]
    BY <1>1 DEF TypeOK
  <2>2. h_runs'[c] = h_runs[c] + 1
    BY <1>2, <1>3, <2>1
  <2>3. \A d \in Clients \ {c} : h_runs'[d] = h_runs[d]
    BY <1>2, <2>1
  <2>4. h_runs' \in [Clients -> Nat]
    BY <1>2, <1>3, <2>1
  <2>5. QED BY <2>1, <2>2, <2>3, <2>4
<1>6. TypeOK'
  <2>1. /\ web_page' \in {1, 2} /\ mac_filter' \in {0, 1}
        /\ mac_filter_address' \in Addresses \cup {NoAddress}
        /\ handed' \in AllCommands \cup {NoCommand}
    BY <1>1, <1>2, <1>3, ExecuteTypes
  <2>2. h_torn' \subseteq Clients
    BY <1>1, <1>2 DEF TypeOK
  <2>3. QED BY <1>1, <1>2, <1>3, <1>4, <1>5, <2>1, <2>2 DEF TypeOK, Segments
<1>7. RunsInv'
  <2>1. ASSUME NEW d \in Clients
        PROVE  /\ h_lost'[d] <= lost' /\ h_early'[d] <= early'
               /\ h_runs'[d] + ToRun(d)' <= 1 + h_lost'[d] + h_early'[d]
               /\ d \in waiting' => h_runs'[d] <= Len(coming'[d]) + h_lost'[d]
    <3>1. /\ h_lost[d] <= lost /\ h_early[d] <= early
          /\ h_runs[d] + ToRun(d) <= 1 + h_lost[d] + h_early[d]
          /\ d \in waiting => h_runs[d] <= Len(coming[d]) + h_lost[d]
      BY <1>1 DEF RunsInv
    <3>2. /\ h_runs[d] \in Nat /\ h_lost[d] \in Nat /\ h_early[d] \in Nat
      BY <1>5
    <3>3. CASE d = c
      <4>1. /\ h_runs'[d] = h_runs[d] + 1 /\ ToRun(d)' + 1 <= ToRun(d)
            /\ ToRun(d) \in Nat /\ ToRun(d)' \in Nat
            /\ Len(coming'[d]) = Len(coming[d]) + 1
            /\ Len(coming[d]) \in Nat
        BY <1>3, <1>4, <1>5, <3>3
      <4>2. /\ h_lost'[d] = h_lost[d] /\ h_early'[d] = h_early[d]
            /\ lost' = lost /\ early' = early
            /\ d \in waiting' <=> d \in waiting
        BY <1>2
      <4>3. h_runs'[d] + ToRun(d)' <= 1 + h_lost'[d] + h_early'[d]
        BY <3>1, <3>2, <4>1, <4>2
      <4>4. d \in waiting' => h_runs'[d] <= Len(coming'[d]) + h_lost'[d]
        BY <3>1, <3>2, <4>1, <4>2
      <4>5. QED BY <3>1, <4>2, <4>3, <4>4
    <3>4. CASE d # c
      <4>1. /\ h_lost'[d] = h_lost[d] /\ h_early'[d] = h_early[d]
            /\ lost' = lost /\ early' = early
            /\ d \in waiting' <=> d \in waiting
        BY <1>2
      <4>2. h_runs'[d] = h_runs[d] /\ coming'[d] = coming[d]
        BY <1>3, <1>4, <1>5, <3>4
      <4>3. ToRun(d)' <= ToRun(d) /\ ToRun(d) \in Nat /\ ToRun(d)' \in Nat
        BY <1>3, <1>4, <1>5, <3>4
      <4>4. QED BY <3>1, <3>2, <4>1, <4>2, <4>3
    <3>5. QED BY <3>3, <3>4
  <2>2. QED BY <2>1 DEF RunsInv
<1>8. FreshInv'
  <2>1. ASSUME NEW d \in Clients \ h_torn', asked[d] # NoCommand, h_runs'[d] = 0
        PROVE  /\ d \in waiting' /\ coming'[d] = <<>> /\ unacked'[d] = "all"
               /\ Begun(d, rx', pending'[d], post_data')
    <3>1. d # c
      BY <1>3, <1>5, <2>1
    <3>2. d \notin h_torn /\ ~HalfWay(d) /\ h_runs[d] = 0
      BY <1>2, <1>5, <2>1, <3>1
    <3>3. coming'[d] = coming[d] /\ h_runs'[d] = h_runs[d]
      BY <1>4, <1>5, <3>1
    <3>4. QED BY <1>1, <1>2, <2>1, <3>1, <3>2, <3>3, FreshServed
  <2>2. QED BY <1>2, <2>1 DEF FreshInv
<1>9. QED BY <1>3, <1>6, <1>7, <1>8 DEF IInv

LEMMA ServeHeaderIInv == ASSUME IInv, ServeHeader PROVE IInv'
<1> SUFFICES ASSUME NEW c, c = Head(rx).from, NEW k, k = Head(rx).kind
             PROVE  IInv'
  OBVIOUS
<1>1. TypeOK /\ QueueInv /\ RunsInv /\ FreshInv
  BY DEF IInv
<1>2. /\ rx # <<>> /\ rx' = Tail(rx) /\ k = "head"
      /\ post_data = 0 /\ post_data' = 1
      /\ UNCHANGED <<web_page, mac_filter, mac_filter_address, handed,
                     pending, asked, waiting, unacked, coming, lost, early,
                     h_runs, h_lost, h_early, h_torn>>
  BY DEF ServeHeader, IsPost, HasCommand, filter, browser, history
<1>3. /\ c \in Clients /\ rx \in Seq(Segments) /\ rx' \in Seq(Segments)
      /\ Len(rx') <= RxSlots /\ Head(rx) = Segment(c, "head") /\ QueueInv'
  BY <1>1, <1>2, Served
<1>4. TypeOK'
  BY <1>1, <1>2, <1>3 DEF TypeOK, Segments
<1>5. RunsInv'
  <2>1. \A d \in Clients : Len(coming[d]) \in Nat
    BY <1>1 DEF TypeOK
  <2>2. QED BY <1>1, <1>2, <2>1, RunsServed
<1>6. FreshInv'
  <2>1. ASSUME NEW d \in Clients \ h_torn, asked[d] # NoCommand, h_runs[d] = 0
        PROVE  /\ d \in waiting' /\ coming'[d] = <<>> /\ unacked'[d] = "all"
               /\ Begun(d, rx', pending'[d], post_data')
    <3>1. CASE d = c
      <4>1. /\ d \in waiting /\ coming[d] = <<>> /\ unacked[d] = "all"
            /\ Begun(d, rx, pending[d], post_data)
        BY <1>1, <2>1 DEF FreshInv
      <4>2. Begun(c, Tail(rx), pending[c], 1)
        BY <1>2, <1>3, <3>1, <4>1, BegunHeader
      <4>3. QED BY <1>2, <3>1, <4>1, <4>2
    <3>2. CASE d # c
      BY <1>1, <1>2, <2>1, <3>2, FreshServed
    <3>3. QED BY <3>1, <3>2
  <2>2. QED BY <1>2, <2>1 DEF FreshInv
<1>7. QED BY <1>3, <1>4, <1>5, <1>6 DEF IInv

LEMMA ServeNoCommandIInv == ASSUME IInv, ServeNoCommand PROVE IInv'
<1> SUFFICES ASSUME NEW c, c = Head(rx).from, NEW k, k = Head(rx).kind
             PROVE  IInv'
  OBVIOUS
<1>1. TypeOK /\ QueueInv /\ RunsInv /\ FreshInv
  BY DEF IInv
<1>2. /\ rx # <<>> /\ rx' = Tail(rx) /\ k \notin Runnable /\ Answer(c, k)
      /\ h_torn' = h_torn \cup {d \in {c} : k = "head" /\ h_runs[c] = 0}
      /\ UNCHANGED <<web_page, post_data, mac_filter, mac_filter_address,
                     handed, pending, asked, waiting, unacked, lost, early,
                     h_runs, h_lost, h_early>>
  BY DEF ServeNoCommand, HasCommand, Runnable, server, filter, browser
<1>3. /\ c \in Clients /\ rx' \in Seq(Segments) /\ Len(rx') <= RxSlots
      /\ FirstAt(c, rx, 1) /\ 1 \in 1 .. Len(rx) /\ rx[1].kind = k
      /\ QueueInv'
  BY <1>1, <1>2, Served DEF Segment
<1>4. /\ coming' \in [Clients -> Seq(Parts)]
      /\ Len(coming'[c]) = Len(coming[c]) + 1 /\ Len(coming[c]) \in Nat
      /\ \A d \in Clients \ {c} : coming'[d] = coming[d]
  BY <1>1, <1>2, <1>3, AnswerSends
<1>5. TypeOK'
  <2>1. h_torn' \subseteq Clients
    BY <1>1, <1>2, <1>3 DEF TypeOK
  <2>2. QED BY <1>1, <1>2, <1>3, <1>4, <2>1 DEF TypeOK, Segments
<1>6. RunsInv'
  <2>1. ASSUME NEW d \in Clients
        PROVE  /\ Len(coming[d]) \in Nat /\ Len(coming'[d]) \in Nat
               /\ Len(coming[d]) <= Len(coming'[d])
    <3>1. Len(coming[d]) \in Nat
      BY <1>1 DEF TypeOK
    <3>2. CASE d = c
      BY <1>4, <3>1, <3>2
    <3>3. CASE d # c
      <4>1. coming'[d] = coming[d]
        BY <1>4, <3>3
      <4>2. QED BY <3>1, <4>1
    <3>4. QED BY <3>2, <3>3
  <2>2. QED BY <1>1, <1>2, <2>1, RunsServed
<1>7. FreshInv'
  <2>1. ~(c \notin h_torn' /\ asked[c] # NoCommand /\ h_runs[c] = 0)
    <3>1. k = "head" /\ h_runs[c] = 0 => c \in h_torn'
      BY <1>2
    <3>2. c \notin h_torn /\ asked[c] # NoCommand /\ h_runs[c] = 0
            => k \in {"post", "body", "head"}
      BY <1>1, <1>3 DEF FreshInv, Begun
    <3>3. QED BY <1>2, <3>1, <3>2 DEF Runnable
  <2>2. ASSUME NEW d \in Clients \ h_torn', asked[d] # NoCommand, h_runs[d] = 0
        PROVE  /\ d \in waiting' /\ coming'[d] = <<>> /\ unacked'[d] = "all"
               /\ Begun(d, rx', pending'[d], post_data')
    <3>1. d # c /\ d \notin h_torn
      BY <1>2, <2>1, <2>2
    <3>2. QED BY <1>1, <1>2, <1>4, <2>2, <3>1, FreshServed
  <2>3. QED BY <1>2, <2>2 DEF FreshInv
<1>8. QED BY <1>3, <1>5, <1>6, <1>7 DEF IInv
-----------------------------------------------------------------------------
LEMMA InitIInv == ASSUME Init PROVE IInv
<1>1. TypeOK
  <2>1. <<>> \in Seq([from : Clients, kind : Kinds]) /\ Len(<<>>) <= RxSlots
        /\ <<>> \in Seq(Parts) /\ "all" \in Parts
    BY HttpAssumption DEF Parts
  <2>2. QED BY <2>1, HttpAssumption DEF Init, TypeOK
<1>2. QueueInv
  BY DEF Init, QueueInv
<1>3. RunsInv
  <2>1. ASSUME NEW c \in Clients
        PROVE  /\ h_lost[c] = 0 /\ h_runs[c] = 0 /\ h_early[c] = 0
               /\ lost = 0 /\ early = 0 /\ c \notin waiting
               /\ ToRun(c) = 0
    <3>1. rx = <<>> /\ pending[c] = <<>>
      BY DEF Init
    <3>2. Count(c, rx) = 0
      <4>1. rx \in Seq(Segments) /\ \A i \in 1 .. Len(rx) : rx[i].from # c
        BY <3>1
      <4>2. QED BY <4>1, CountNone
    <3>3. ToRun(c) = 0
      BY <3>1, <3>2, HeldNone DEF ToRun
    <3>4. /\ h_lost[c] = 0 /\ h_runs[c] = 0 /\ h_early[c] = 0
          /\ lost = 0 /\ early = 0 /\ c \notin waiting
      BY DEF Init
    <3>5. QED BY <3>3, <3>4
  <2>2. ASSUME NEW c \in Clients
        PROVE  /\ h_lost[c] <= lost /\ h_early[c] <= early
               /\ h_runs[c] + ToRun(c) <= 1 + h_lost[c] + h_early[c]
               /\ c \notin waiting
    <3>1. /\ h_lost[c] = 0 /\ h_runs[c] = 0 /\ h_early[c] = 0
          /\ lost = 0 /\ early = 0 /\ c \notin waiting
          /\ ToRun(c) = 0
      BY <2>1
    <3>2. QED BY <3>1
  <2>3. QED BY <2>2 DEF RunsInv
<1>4. FreshInv
  BY DEF Init, FreshInv
<1>5. QED BY <1>1, <1>2, <1>3, <1>4 DEF IInv

LEMMA StutterIInv == ASSUME IInv, UNCHANGED vars PROVE IInv'
<1>1. UNCHANGED <<web_page, post_data, mac_filter, mac_filter_address,
                  handed, rx, pending, asked, waiting, unacked, coming,
                  lost, early, h_runs, h_lost, h_early, h_torn>>
  BY DEF vars, server, filter, browser, history
<1>2. TypeOK'
  BY <1>1 DEF IInv, TypeOK
<1>3. \A c \in Clients : ToRun(c)' = ToRun(c)
  BY <1>1 DEF ToRun
<1>4. QueueInv' /\ RunsInv' /\ FreshInv'
  BY <1>1, <1>3 DEF IInv, QueueInv, RunsInv, FreshInv
<1>5. QED BY <1>2, <1>4 DEF IInv

(* The inductive invariant holds in every state of the web server and the  *)
(* browsers (http.c:27-222).                                               *)
THEOREM InductiveInvariant == Spec => []IInv
<1>1. Init => IInv
  BY InitIInv
<1>2. IInv /\ [Next]_vars => IInv'
  <2>1. SUFFICES ASSUME IInv, [Next]_vars PROVE IInv'
    OBVIOUS
  <2>2. CASE Serve
    BY <2>1, <2>2, ServePageIInv, ServeCommandIInv, ServeHeaderIInv,
       ServeNoCommandIInv DEF Serve
  <2>3. ASSUME NEW c \in Clients, Ask(c) PROVE IInv'
    BY <2>1, <2>3, AskIInv
  <2>4. ASSUME NEW c \in Clients, Send(c) PROVE IInv'
    BY <2>1, <2>4, SendIInv
  <2>5. ASSUME NEW c \in Clients, Arrive(c) PROVE IInv'
    BY <2>1, <2>5, ArriveIInv
  <2>6. ASSUME NEW c \in Clients, Retransmit(c) PROVE IInv'
    BY <2>1, <2>6, RetransmitIInv
  <2>7. ASSUME NEW c \in Clients, RetransmitEarly(c) PROVE IInv'
    BY <2>1, <2>7, RetransmitEarlyIInv
  <2>8. CASE UNCHANGED vars
    BY <2>1, <2>8, StutterIInv
  <2>9. QED BY <2>1, <2>2, <2>3, <2>4, <2>5, <2>6, <2>7, <2>8 DEF Next
<1>3. QED BY <1>1, <1>2, PTL DEF Spec

(* Every variable of the web server, of the receive ring and of the        *)
(* browsers keeps its type; the ring never holds more frames than it has   *)
(* room for (http.c:19-25).                                                *)
THEOREM TypeCorrect == Spec => []TypeOK
<1>1. IInv => TypeOK
  BY DEF IInv
<1>2. QED BY <1>1, InductiveInvariant, PTL

(* A button pressed once runs its command at most once more than answers   *)
(* were lost and its request was sent again without need, with any number  *)
(* of clients, answers that come late, and bytes sent again that an answer *)
(* has not acknowledged (http.c:70-217).                                   *)
THEOREM RunsOncePerLoss == Spec => []OncePerLoss
<1>1. IInv => OncePerLoss
  <2>1. SUFFICES ASSUME IInv, NEW c \in Clients
                 PROVE  h_runs[c] <= 1 + h_lost[c] + h_early[c]
    BY DEF OncePerLoss
  <2>2. ToRun(c) \in Nat
    <3>1. Count(c, rx) \in Nat
      BY <2>1, CountType DEF IInv, TypeOK, Segments
    <3>2. Held(pending[c]) \in 0 .. 1
      BY DEF Held
    <3>3. QED BY <3>1, <3>2 DEF ToRun
  <2>3. /\ h_runs[c] \in Nat /\ h_lost[c] \in Nat /\ h_early[c] \in Nat
        /\ h_runs[c] + ToRun(c) <= 1 + h_lost[c] + h_early[c]
    BY <2>1 DEF IInv, TypeOK, RunsInv
  <2>4. QED BY <2>2, <2>3
<1>2. QED BY <1>1, InductiveInvariant, PTL

(* A client with an answer to its POST has had its command run, unless the *)
(* POST came in two segments and one of them was lost, or another client's *)
(* command was served between them, or post_data was set already when the  *)
(* first was served (http.c:74, 211-215).                                  *)
THEOREM AnswerMeansDone == Spec => []AnsweredMeansDone
<1>1. IInv => AnsweredMeansDone
  <2>1. SUFFICES ASSUME IInv, NEW c \in Clients \ (waiting \cup h_torn),
                        asked[c] # NoCommand
                 PROVE  h_runs[c] >= 1
    BY DEF AnsweredMeansDone
  <2>2. h_runs[c] # 0 /\ h_runs[c] \in Nat
    BY <2>1 DEF IInv, FreshInv, TypeOK
  <2>3. QED BY <2>2
<1>2. QED BY <1>1, InductiveInvariant, PTL

(* While the filter is on, no step changes the filter or what is handed to *)
(* the lights and the other components, unless the frame served is the     *)
(* owner's.  No invariant is needed: the address is compared again for     *)
(* each segment that runs a command, whatever state post_data has been     *)
(* left in (http.c:77-210).                                                *)
THEOREM OwnerOnly == Spec => OnlyOwner
<1> DEFINE A == mac_filter = 1 /\ <<filter, handed>>' # <<filter, handed>>
                  => mac_filter_address = Address[Head(rx).from]
<1>1. [Next]_vars => [A]_vars
  <2>1. SUFFICES ASSUME Next, mac_filter = 1,
                        <<filter, handed>>' # <<filter, handed>>
                 PROVE  mac_filter_address = Address[Head(rx).from]
    OBVIOUS
  <2>2. CASE ServeCommand
    <3>1. Execute(Head(rx).from, asked[Head(rx).from])
      BY <2>2 DEF ServeCommand
    <3>2. FilterPass(Head(rx).from)
      BY <2>1, <3>1 DEF Execute, SetPage
    <3>3. QED BY <2>1, <3>2 DEF FilterPass
  <2>3. CASE ServePage \/ ServeHeader \/ ServeNoCommand
    BY <2>1, <2>3 DEF ServePage, ServeHeader, ServeNoCommand, server
  <2>4. CASE \E c \in Clients : \/ Ask(c) \/ Send(c) \/ Arrive(c)
                                \/ Retransmit(c) \/ RetransmitEarly(c)
    BY <2>1, <2>4
    DEF Ask, Send, Arrive, Retransmit, RetransmitEarly, SendAgain, server
  <2>5. QED BY <2>1, <2>2, <2>3, <2>4 DEF Next, Serve
<1>2. QED BY <1>1, PTL DEF Spec, OnlyOwner
=============================================================================
