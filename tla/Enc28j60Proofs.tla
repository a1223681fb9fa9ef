--------------------------- MODULE Enc28j60Proofs ---------------------------
(***************************************************************************)
(* Proofs about Enc28j60, for every ring, network and sequence of calls    *)
(* and restarts: the driver's copy of the selected bank is never wrong,    *)
(* the views of the ring agree, and frames come out as they went in.       *)
(***************************************************************************)
EXTENDS Enc28j60, SequenceTheorems, FiniteSetTheorems, WellFoundedInduction,
        TLAPS

(* A nonempty set of naturals has a least element.                         *)
LEMMA LeastNat ==
  ASSUME NEW T \in SUBSET Nat, T # {}
  PROVE  \E n \in T : \A m \in T : n <= m
<1> DEFINE R == OpToRel(<, Nat)
<1>1. IsWellFoundedOn(R, Nat)
  BY NatLessThanWellFounded
<1>2. \A n, m \in Nat : m < n => <<m, n>> \in R
  BY DEF OpToRel
<1> HIDE DEF R
<1>3. PICK n \in T : \A m \in T : ~ (<<m, n>> \in R)
  <2>1. T \subseteq Nat
    OBVIOUS
  <2>2. QED BY <1>1, <2>1, WFMin, Zenon
<1>4. ASSUME NEW m \in T PROVE n <= m
  <2>1. ~(m < n)
    BY <1>2, <1>3
  <2>2. QED BY <2>1
<1>5. QED BY <1>4

(* Induction over the naturals, for a set instead of a predicate.          *)
LEMMA NatInd ==
  ASSUME NEW S, 0 \in S, \A n \in Nat : n \in S => n + 1 \in S
  PROVE  Nat \subseteq S
<1> DEFINE T == Nat \ S
<1>1. SUFFICES ASSUME T # {} PROVE FALSE
  OBVIOUS
<1>2. PICK n \in T : \A m \in T : n <= m
  BY <1>1, LeastNat
<1>3. n # 0 /\ n - 1 \in Nat /\ n - 1 \notin T
  BY <1>2
<1>4. QED BY <1>2, <1>3

Known(s) == s.selected = Bits(s.cached)

(* After a reset the controller has bank 0 selected: no bit is set.        *)
LEMMA NoBits == Bits(0) = {}
  BY DEF Bits

(* SetBank keeps the two in step, whether it writes or not.                *)
LEMMA SetBankKnown ==
  ASSUME NEW s, Known(s), NEW b
  PROVE  Known(SetBank(s, b))
  BY DEF Known, SetBank

(* So does every selection of a bank, from one step of the driver ...      *)
LEMMA SelectKnown ==
  ASSUME BankKnown, NEW b, Select(b)
  PROVE  BankKnown'
<1> DEFINE s == [cached |-> Enc28j60Bank, selected |-> ECON1_BSEL]
<1>1. Known(s)
  BY DEF Known, BankKnown
<1>2. Known(SetBank(s, b))
  BY <1>1, SetBankKnown
<1>3. Enc28j60Bank' = SetBank(s, b).cached /\ ECON1_BSEL' = SetBank(s, b).selected
  BY DEF Select
<1> QED
  BY <1>2, <1>3 DEF Known, BankKnown

(* ... and the whole set-up, which goes through nine of them.              *)
LEMMA PhyWriteKnown ==
  ASSUME NEW s, Known(s)
  PROVE  Known(PhyWrite(s))
<1>1. Known(SetBank(s, 2))
  BY SetBankKnown
<1> QED
  BY <1>1, SetBankKnown DEF PhyWrite

LEMMA SetUpKnown ==
  ASSUME NEW s, Known(s)
  PROVE  Known(SetUpBanks(s))
<1> DEFINE mac == SetBank(SetBank(SetBank(s, 0), 2), 3)
           phy == PhyWrite(PhyWrite(mac))
<1>1. Known(SetBank(s, 0))
  BY SetBankKnown
<1>2. Known(SetBank(SetBank(s, 0), 2))
  BY <1>1, SetBankKnown
<1>3. Known(mac)
  BY <1>2, SetBankKnown
<1>4. Known(PhyWrite(mac))
  <2> HIDE DEF mac
  <2> QED BY <1>3, PhyWriteKnown
<1>5. Known(phy)
  <2> HIDE DEF mac
  <2> QED BY <1>4, PhyWriteKnown
<1> HIDE DEF phy
<1>6. Known(SetBank(phy, 1))
  BY <1>5, SetBankKnown
<1>7. Known(SetBank(SetBank(phy, 1), 2))
  BY <1>6, SetBankKnown
<1>8. Known(SetBank(SetBank(SetBank(phy, 1), 2), 0))
  BY <1>7, SetBankKnown
<1>9. SetUpBanks(s) = SetBank(SetBank(SetBank(phy, 1), 2), 0)
  BY DEF SetUpBanks, phy
<1> QED
  BY <1>8, <1>9

(* The bank is right at the start and after every step.                    *)
LEMMA BankInit == Init => BankKnown
  BY NoBits DEF Init, BankKnown

LEMMA BankNext == BankKnown /\ [Next]_vars => BankKnown'
<1> SUFFICES ASSUME BankKnown, [Next]_vars
             PROVE  BankKnown'
  OBVIOUS
<1>1. CASE SetUp
  <2> DEFINE s == [cached |-> Enc28j60Bank, selected |-> ECON1_BSEL]
  <2>1. Known(s)
    BY DEF Known, BankKnown
  <2>2. Known(SetUpBanks(s))
    BY <2>1, SetUpKnown
  <2>3. /\ Enc28j60Bank' = SetUpBanks(s).cached
        /\ ECON1_BSEL' = SetUpBanks(s).selected
    BY <1>1 DEF SetUp
  <2> QED
    BY <2>2, <2>3 DEF Known, BankKnown
<1>2. CASE Poll
  BY <1>2, SelectKnown DEF Poll
<1>3. CASE SetReadPointer
  BY <1>3, SelectKnown DEF SetReadPointer
<1>4. CASE ReadHeader
  BY <1>4 DEF ReadHeader, banks, BankKnown
<1>5. CASE ReadData
  BY <1>5 DEF ReadData, banks, BankKnown
<1>6. CASE FreeSpace
  BY <1>6, SelectKnown DEF FreeSpace
<1>7. CASE Done
  BY <1>7 DEF Done, banks, BankKnown
<1>8. CASE Send
  BY <1>8, SelectKnown DEF Send
<1>9. CASE CheckError
  BY <1>9, SelectKnown DEF CheckError
<1>10. CASE Arrive
  BY <1>10 DEF Arrive, banks, BankKnown
<1>11. CASE Transmit
  BY <1>11 DEF Transmit, banks, BankKnown
<1>12. CASE Reset
  BY <1>12, NoBits DEF Reset, ClearHost, ResetController, BankKnown
<1>13. CASE UNCHANGED vars
  BY <1>13 DEF vars, banks, BankKnown
<1> QED
  BY <1>1, <1>2, <1>3, <1>4, <1>5, <1>6, <1>7, <1>8, <1>9, <1>10, <1>11,
     <1>12, <1>13 DEF Next, Driver

(* The driver's copy of the selected bank is never wrong                   *)
(* (enc28j60.c:38-64).                                                     *)
THEOREM BankIsKnown == Spec => []BankKnown
  BY BankInit, BankNext, PTL DEF Spec
-----------------------------------------------------------------------------
(* Distances round the ring.                                               *)

Dist(c, r) == (c - r) % RingLen

LEMMA RingSize == RingLen \in Nat /\ RingLen > 1 /\ MaxCount \in Nat
BY EncAssumption

LEMMA Remainder ==
  ASSUME NEW n \in Int, NEW d \in Nat, d > 0,
         NEW q \in Int, NEW r \in 0 .. d - 1, n = q * d + r
  PROVE  n % d = r
OBVIOUS

LEMMA DistIs ==
  ASSUME NEW a \in Cells, NEW b \in Cells
  PROVE  /\ Dist(a, b) = IF a >= b THEN a - b ELSE a - b + RingLen
         /\ Dist(a, b) \in Cells
<1>1. a \in Int /\ b \in Int /\ a < RingLen /\ b < RingLen /\ a >= 0 /\ b >= 0
  BY RingSize DEF Cells
<1>2. CASE a >= b
  <2>1. a - b = 0 * RingLen + (a - b) /\ a - b \in 0 .. RingLen - 1
    BY <1>1, <1>2, RingSize
  <2>2. (a - b) % RingLen = a - b
    BY <2>1, RingSize, Remainder
  <2>3. QED BY <1>2, <2>1, <2>2 DEF Dist, Cells
<1>3. CASE ~(a >= b)
  <2>1. /\ a - b = -1 * RingLen + (a - b + RingLen)
        /\ a - b + RingLen \in 0 .. RingLen - 1 /\ a - b \in Int
    BY <1>1, <1>3, RingSize
  <2>2. (a - b) % RingLen = a - b + RingLen
    BY <2>1, RingSize, Remainder
  <2>3. QED BY <1>3, <2>1, <2>2 DEF Dist, Cells
<1>4. QED BY <1>2, <1>3

LEMMA DistNat ==
  \A a, b \in Cells : Dist(a, b) \in Nat /\ Dist(a, b) < RingLen
<1> SUFFICES ASSUME NEW a \in Cells, NEW b \in Cells
             PROVE  Dist(a, b) \in Nat /\ Dist(a, b) < RingLen
  OBVIOUS
<1> DEFINE d == Dist(a, b)
<1>1. d \in Cells
  BY DistIs
<1> HIDE DEF d
<1>2. d \in Nat /\ d < RingLen
  BY <1>1, RingSize DEF Cells
<1> QED
  BY <1>2 DEF d

(* A cell further on.                                                      *)
LEMMA AddIs ==
  ASSUME NEW a \in Cells, NEW k \in 0 .. RingLen
  PROVE  /\ (a + k) % RingLen = IF a + k < RingLen THEN a + k
                                ELSE a + k - RingLen
         /\ (a + k) % RingLen \in Cells
<1>1. a \in Int /\ k \in Int /\ a < RingLen /\ k <= RingLen /\ a >= 0 /\ k >= 0
  BY RingSize DEF Cells
<1>2. CASE a + k < RingLen
  <2>1. a + k = 0 * RingLen + (a + k) /\ a + k \in 0 .. RingLen - 1
    BY <1>1, <1>2, RingSize
  <2>2. (a + k) % RingLen = a + k
    BY <2>1, RingSize, Remainder
  <2>3. QED BY <1>2, <2>1, <2>2 DEF Cells
<1>3. CASE ~(a + k < RingLen)
  <2>1. /\ a + k = 1 * RingLen + (a + k - RingLen)
        /\ a + k - RingLen \in 0 .. RingLen - 1 /\ a + k \in Int
    BY <1>1, <1>3, RingSize
  <2>2. (a + k) % RingLen = a + k - RingLen
    BY <2>1, RingSize, Remainder
  <2>3. QED BY <1>3, <2>1, <2>2 DEF Cells
<1>4. QED BY <1>2, <1>3

LEMMA DistAdd ==
  ASSUME NEW a \in Cells, NEW r \in Cells, NEW k \in Nat,
         Dist(a, r) + k < RingLen
  PROVE  /\ Dist((a + k) % RingLen, r) = Dist(a, r) + k
         /\ (a + k - r) % RingLen = Dist(a, r) + k
         /\ (a + k) % RingLen \in Cells
<1>1. /\ Dist(a, r) = (IF a >= r THEN a - r ELSE a - r + RingLen)
      /\ a \in Int /\ r \in Int /\ a < RingLen /\ r < RingLen
      /\ a >= 0 /\ r >= 0
  BY DistIs, RingSize DEF Cells
<1>2. k \in 0 .. RingLen
  BY <1>1, RingSize
<1>3. /\ (a + k) % RingLen = (IF a + k < RingLen THEN a + k
                              ELSE a + k - RingLen)
      /\ (a + k) % RingLen \in Cells
  BY <1>2, AddIs
<1> DEFINE c == (a + k) % RingLen
<1> HIDE DEF c
<1>4. c \in Cells /\ c = IF a + k < RingLen THEN a + k ELSE a + k - RingLen
  BY <1>3 DEF c
<1>5. Dist(c, r) = IF c >= r THEN c - r ELSE c - r + RingLen
  BY <1>4, DistIs
<1>6. Dist(c, r) = Dist(a, r) + k
  BY <1>1, <1>4, <1>5, RingSize
<1>7. (a + k - r) % RingLen = Dist(a, r) + k
  <2> DEFINE d == Dist(a, r) + k
             n == a + k - r
  <2>1. d \in 0 .. RingLen - 1 /\ n \in Int
    BY <1>1, RingSize
  <2>2. n = 0 * RingLen + d \/ n = -1 * RingLen + d
    BY <1>1, RingSize
  <2> HIDE DEF d, n
  <2>3. n % RingLen = d
    BY <2>1, <2>2, RingSize, Remainder
  <2>4. QED BY <2>3 DEF d, n
<1>8. QED BY <1>4, <1>6, <1>7 DEF c

(* What is freed is taken off.                                             *)
LEMMA DistLess ==
  ASSUME NEW c \in Cells, NEW p \in Cells, NEW r \in Cells,
         Dist(p, r) <= Dist(c, r)
  PROVE  Dist(c, p) = Dist(c, r) - Dist(p, r)
<1>1. /\ Dist(c, r) = (IF c >= r THEN c - r ELSE c - r + RingLen)
      /\ Dist(p, r) = (IF p >= r THEN p - r ELSE p - r + RingLen)
      /\ Dist(c, p) = (IF c >= p THEN c - p ELSE c - p + RingLen)
  BY DistIs
<1>2. /\ c \in Int /\ r \in Int /\ p \in Int
      /\ c < RingLen /\ r < RingLen /\ p < RingLen
      /\ c >= 0 /\ r >= 0 /\ p >= 0
  BY RingSize DEF Cells
<1>3. QED BY <1>1, <1>2, RingSize

(* Free cells: one fewer than are not used.                                *)
LEMMA FreeIs ==
  ASSUME NEW r \in Cells, NEW w \in Cells
  PROVE  (r - w - 1) % RingLen = RingLen - 1 - Dist(w, r)
<1>1. /\ Dist(w, r) = (IF w >= r THEN w - r ELSE w - r + RingLen)
      /\ w \in Int /\ r \in Int /\ w < RingLen /\ r < RingLen
      /\ w >= 0 /\ r >= 0
  BY DistIs, RingSize DEF Cells
<1> DEFINE d == RingLen - 1 - Dist(w, r)
           n == r - w - 1
<1>2. d \in 0 .. RingLen - 1 /\ n \in Int
  BY <1>1, RingSize
<1>3. n = -1 * RingLen + d \/ n = 0 * RingLen + d
  BY <1>1, RingSize
<1> HIDE DEF d, n
<1>4. n % RingLen = d
  BY <1>2, <1>3, RingSize, Remainder
<1>5. QED BY <1>4 DEF d, n
-----------------------------------------------------------------------------
(* The chain of headers: from a cell on, in some contents of the ring.     *)

Chain(p, m) ==
  LET S[n \in 0 .. MaxCount] == IF n = 0 THEN p ELSE m[S[n - 1]].next
  IN  S

LEMMA StartIsChain ==
  Start = Chain(next_packet_ptr, mem) /\ Start' = Chain(next_packet_ptr', mem')
BY DEF Start, Chain

LEMMA ChainSteps ==
  ASSUME NEW p \in Cells, NEW m, \A c \in Cells : m[c].next \in Cells
  PROVE  /\ Chain(p, m)[0] = p
         /\ \A n \in 1 .. MaxCount : Chain(p, m)[n] = m[Chain(p, m)[n - 1]].next
         /\ \A n \in 0 .. MaxCount : Chain(p, m)[n] \in Cells
<1> DEFINE D == 0 .. MaxCount
           Follows(f, n) == /\ f \in [0 .. n -> Cells] /\ f[0] = p
                            /\ \A i \in 1 .. n : f[i] = m[f[i - 1]].next
           G == {n \in Nat : \E f : Follows(f, n)}
           Is(f) == f = [n \in D |-> IF n = 0 THEN p ELSE m[f[n - 1]].next]
<1>1. 0 \in G
  <2>1. Follows([i \in 0 .. 0 |-> p], 0)
    OBVIOUS
  <2> HIDE DEF Follows
  <2>2. QED BY <2>1
<1>2. ASSUME NEW n \in Nat, n \in G PROVE n + 1 \in G
  <2>1. PICK f : Follows(f, n)
    BY <1>2
  <2> DEFINE g == [i \in 0 .. n + 1 |-> IF i = n + 1 THEN m[f[n]].next ELSE f[i]]
  <2>2. f[n] \in Cells /\ m[f[n]].next \in Cells
    BY <2>1
  <2>3. g \in [0 .. n + 1 -> Cells] /\ g[0] = p
    BY <2>1, <2>2
  <2>4. ASSUME NEW i \in 1 .. n + 1 PROVE g[i] = m[g[i - 1]].next
    <3>1. CASE i = n + 1
      BY <3>1
    <3>2. CASE i # n + 1
      BY <2>1, <3>2
    <3>3. QED BY <3>1, <3>2
  <2>5. Follows(g, n + 1)
    <3> HIDE DEF g
    <3>1. QED BY <2>3, <2>4
  <2> HIDE DEF Follows, g
  <2>6. QED BY <2>5
<1>3. Nat \subseteq G
  <2> HIDE DEF G
  <2>1. QED BY <1>1, <1>2, NatInd
<1>4. PICK f : Follows(f, MaxCount)
  <2> HIDE DEF Follows
  <2>1. QED BY <1>3, RingSize
<1>5. f \in [D -> Cells]
  BY <1>4
<1>6. ASSUME NEW n \in D
      PROVE  f[n] = IF n = 0 THEN p ELSE m[f[n - 1]].next
  BY <1>4, RingSize
<1>7. Is(f)
  <2>1. f = [n \in D |-> f[n]]
    BY <1>5
  <2> HIDE DEF D
  <2>2. QED BY <1>6, <2>1
<1>8. Is(Chain(p, m))
  <2>1. Chain(p, m) = CHOOSE g : Is(g)
    BY DEF Chain
  <2> HIDE DEF Is
  <2>2. QED BY <1>7, <2>1
<1> DEFINE C == Chain(p, m)
<1>9. ASSUME NEW n \in D
      PROVE  C[n] = IF n = 0 THEN p ELSE m[C[n - 1]].next
  BY <1>8
<1> HIDE DEF C
<1> DEFINE T == {n \in Nat : n <= MaxCount => C[n] \in Cells}
<1>10. 0 \in T
  BY <1>9, RingSize
<1>11. ASSUME NEW n \in Nat, n \in T PROVE n + 1 \in T
  <2>1. SUFFICES ASSUME n + 1 <= MaxCount PROVE C[n + 1] \in Cells
    OBVIOUS
  <2>2. n + 1 \in D /\ n + 1 # 0 /\ (n + 1) - 1 = n /\ n <= MaxCount
    BY <2>1, RingSize
  <2>3. C[n] \in Cells
    BY <1>11, <2>2
  <2>4. C[n + 1] = m[C[n]].next
    BY <1>9, <2>2
  <2>5. QED BY <2>3, <2>4
<1>12. Nat \subseteq T
  <2> HIDE DEF T
  <2>1. QED BY <1>10, <1>11, NatInd
<1>13. C[0] = p
  BY <1>9, RingSize
<1>14. \A n \in 1 .. MaxCount : C[n] = m[C[n - 1]].next
  BY <1>9, RingSize
<1>15. \A n \in 0 .. MaxCount : C[n] \in Cells
  BY <1>12, RingSize
<1>16. QED BY <1>13, <1>14, <1>15 DEF C

(* The chain from the second header on.                                    *)
LEMMA ChainShift ==
  ASSUME NEW p \in Cells, NEW m, \A c \in Cells : m[c].next \in Cells
  PROVE  \A n \in 0 .. MaxCount - 1 : Chain(m[p].next, m)[n] = Chain(p, m)[n + 1]
<1> DEFINE A == Chain(m[p].next, m)
           C == Chain(p, m)
           T == {n \in Nat : n < MaxCount => A[n] = C[n + 1]}
<1>1. /\ A[0] = m[p].next /\ C[0] = p
      /\ \A n \in 1 .. MaxCount : A[n] = m[A[n - 1]].next
      /\ \A n \in 1 .. MaxCount : C[n] = m[C[n - 1]].next
  BY ChainSteps
<1> HIDE DEF A, C
<1>2. 0 \in T
  <2>1. SUFFICES ASSUME 0 < MaxCount PROVE A[0] = C[0 + 1]
    OBVIOUS
  <2>2. 1 \in 1 .. MaxCount /\ 1 - 1 = 0 /\ 0 + 1 = 1
    BY <2>1, RingSize
  <2>3. QED BY <1>1, <2>2
<1>3. ASSUME NEW n \in Nat, n \in T PROVE n + 1 \in T
  <2>1. SUFFICES ASSUME n + 1 < MaxCount PROVE A[n + 1] = C[(n + 1) + 1]
    OBVIOUS
  <2>2. /\ n + 1 \in 1 .. MaxCount /\ (n + 1) + 1 \in 1 .. MaxCount
        /\ (n + 1) - 1 = n /\ ((n + 1) + 1) - 1 = n + 1 /\ n < MaxCount
    BY <2>1, RingSize
  <2>3. A[n] = C[n + 1]
    BY <1>3, <2>2
  <2>4. A[n + 1] = m[A[n]].next /\ C[(n + 1) + 1] = m[C[n + 1]].next
    BY <1>1, <2>2
  <2>5. QED BY <2>3, <2>4
<1>4. Nat \subseteq T
  <2> HIDE DEF T
  <2>1. QED BY <1>2, <1>3, NatInd
<1>5. QED BY <1>4, RingSize DEF A, C

(* Contents that have the same headers make the same chain.                *)
LEMMA ChainKept ==
  ASSUME NEW p \in Cells, NEW m, \A c \in Cells : m[c].next \in Cells,
         NEW l, \A c \in Cells : l[c].next \in Cells,
         NEW k \in 0 .. MaxCount,
         \A n \in 0 .. k - 1 : l[Chain(p, m)[n]] = m[Chain(p, m)[n]]
  PROVE  \A n \in 0 .. k : Chain(p, l)[n] = Chain(p, m)[n]
<1> DEFINE A == Chain(p, l)
           C == Chain(p, m)
           T == {n \in Nat : n <= k => A[n] = C[n]}
<1>1. /\ A[0] = p /\ C[0] = p
      /\ \A n \in 1 .. MaxCount : A[n] = l[A[n - 1]].next
      /\ \A n \in 1 .. MaxCount : C[n] = m[C[n - 1]].next
      /\ \A n \in 0 .. k - 1 : l[C[n]] = m[C[n]]
  BY ChainSteps
<1> HIDE DEF A, C
<1>2. 0 \in T
  BY <1>1
<1>3. ASSUME NEW n \in Nat, n \in T PROVE n + 1 \in T
  <2>1. SUFFICES ASSUME n + 1 <= k PROVE A[n + 1] = C[n + 1]
    OBVIOUS
  <2>2. /\ n + 1 \in 1 .. MaxCount /\ (n + 1) - 1 = n /\ n <= k
        /\ n \in 0 .. k - 1
    BY <2>1, RingSize
  <2>3. A[n] = C[n] /\ l[C[n]] = m[C[n]]
    BY <1>1, <1>3, <2>2
  <2>4. A[n + 1] = l[A[n]].next /\ C[n + 1] = m[C[n]].next
    BY <1>1, <2>2
  <2>5. QED BY <2>3, <2>4
<1>4. Nat \subseteq T
  <2> HIDE DEF T
  <2>1. QED BY <1>2, <1>3, NatInd
<1>5. QED BY <1>4, RingSize DEF A, C
-----------------------------------------------------------------------------
(* The ring: from p one header for each of k packets leads to w, each a    *)
(* frame away from the next, and none beyond what is freed only from r on. *)

Ring(m, p, r, w, k) ==
  /\ Chain(p, m)[k] = w
  /\ \A n \in 0 .. k - 1 :
       /\ m[Chain(p, m)[n]].length \in 1 + Crc .. MaxFrame
       /\ Dist(Chain(p, m)[n + 1], r)
            = Dist(Chain(p, m)[n], r) + 1 + m[Chain(p, m)[n]].length

CellType == [next : Cells, length : Nat, ok : BOOLEAN,
             data : Network \cup {Nothing}]
Contained(m) == m \in [Cells -> CellType]

LEMMA NextCell ==
  ASSUME NEW m, Contained(m)
  PROVE  /\ \A c \in Cells : m[c].next \in Cells
         /\ \A c \in Cells : m[c].length \in Nat
BY DEF Contained, CellType

(* The headers lie in the order in which they are linked.                  *)
LEMMA RingInOrder ==
  ASSUME NEW m, Contained(m), NEW p \in Cells, NEW r \in Cells, NEW w \in Cells,
         NEW k \in 0 .. MaxCount, Ring(m, p, r, w, k)
  PROVE  \A j \in 0 .. k : \A n \in 0 .. j :
           Dist(Chain(p, m)[n], r) <= Dist(Chain(p, m)[j], r)
<1> DEFINE C == Chain(p, m)
           D(n) == Dist(C[n], r)
           T == {j \in Nat : j <= k => \A n \in 0 .. j : D(n) <= D(j)}
<1>1. /\ \A n \in 0 .. MaxCount : C[n] \in Cells
      /\ \A n \in 0 .. k - 1 : m[C[n]].length \in Nat
                               /\ D(n + 1) = D(n) + 1 + m[C[n]].length
  BY ChainSteps, NextCell, RingSize DEF Ring
<1>2. \A n \in 0 .. k : D(n) \in Nat
  <2>1. SUFFICES ASSUME NEW n \in 0 .. k PROVE D(n) \in Nat
    OBVIOUS
  <2>2. C[n] \in Cells
    BY <1>1, RingSize
  <2> HIDE DEF C
  <2>3. QED BY <2>2, DistNat
<1>3. \A n \in 0 .. k - 1 : D(n) <= D(n + 1)
  <2> HIDE DEF C
  <2>1. SUFFICES ASSUME NEW n \in 0 .. k - 1 PROVE D(n) <= D(n + 1)
    OBVIOUS
  <2>2. D(n) \in Nat /\ D(n + 1) = D(n) + 1 + m[C[n]].length
        /\ m[C[n]].length \in Nat
    BY <1>1, <1>2, RingSize
  <2> HIDE DEF D
  <2>3. QED BY <2>2
<1> HIDE DEF D, C
<1>4. 0 \in T
  BY <1>2, RingSize
<1>5. ASSUME NEW j \in Nat, j \in T PROVE j + 1 \in T
  <2>1. SUFFICES ASSUME j + 1 <= k, NEW n \in 0 .. j + 1
                 PROVE  D(n) <= D(j + 1)
    OBVIOUS
  <2>2. j \in 0 .. k - 1 /\ j + 1 \in 0 .. k /\ j \in 0 .. k /\ n \in 0 .. k
    BY <2>1, RingSize
  <2>3. D(j) <= D(j + 1) /\ D(j) \in Nat /\ D(j + 1) \in Nat /\ D(n) \in Nat
    BY <1>2, <1>3, <2>2
  <2>4. CASE n = j + 1
    BY <2>3, <2>4
  <2>5. CASE n \in 0 .. j
    <3>1. D(n) <= D(j)
      BY <1>5, <2>1, <2>5, RingSize
    <3>2. QED BY <2>3, <3>1
  <2>6. QED BY <2>1, <2>4, <2>5
<1>6. Nat \subseteq T
  <2> HIDE DEF T
  <2>1. QED BY <1>4, <1>5, NatInd
<1>7. QED BY <1>6, RingSize DEF D, C

(* Nothing is in the ring of a controller that has just been set up.       *)
LEMMA RingEmpty ==
  ASSUME NEW m, Contained(m), NEW p \in Cells, NEW r \in Cells
  PROVE  Ring(m, p, r, p, 0)
BY ChainSteps, NextCell, RingSize DEF Ring

(* The first packet is taken: the chain begins at the second.              *)
LEMMA RingTaken ==
  ASSUME NEW m, Contained(m), NEW p \in Cells, NEW r \in Cells, NEW w \in Cells,
         NEW k \in 1 .. MaxCount, Ring(m, p, r, w, k)
  PROVE  /\ Ring(m, m[p].next, r, w, k - 1)
         /\ m[p].length \in 1 + Crc .. MaxFrame
         /\ Dist(m[p].next, r) = Dist(p, r) + 1 + m[p].length
         /\ m[p].next \in Cells
<1> DEFINE q == m[p].next
           C == Chain(p, m)
           A == Chain(q, m)
<1>1. /\ q \in Cells
      /\ C[0] = p
      /\ \A n \in 1 .. MaxCount : C[n] = m[C[n - 1]].next
      /\ \A n \in 0 .. MaxCount - 1 : A[n] = C[n + 1]
  BY ChainSteps, ChainShift, NextCell
<1>2. /\ C[k] = w
      /\ \A n \in 0 .. k - 1 :
           /\ m[C[n]].length \in 1 + Crc .. MaxFrame
           /\ Dist(C[n + 1], r) = Dist(C[n], r) + 1 + m[C[n]].length
  BY DEF Ring
<1> HIDE DEF A, C
<1>3. 0 \in 0 .. k - 1 /\ 0 + 1 = 1 /\ 1 \in 1 .. MaxCount /\ 1 - 1 = 0
      /\ k - 1 \in 0 .. MaxCount - 1 /\ (k - 1) + 1 = k
  BY RingSize
<1>4. C[1] = q
  BY <1>1, <1>3
<1>5. m[p].length \in 1 + Crc .. MaxFrame /\ Dist(q, r) = Dist(p, r) + 1 + m[p].length
  BY <1>1, <1>2, <1>3, <1>4
<1>6. A[k - 1] = w
  BY <1>1, <1>2, <1>3
<1>7. ASSUME NEW n \in 0 .. (k - 1) - 1
      PROVE  /\ m[A[n]].length \in 1 + Crc .. MaxFrame
             /\ Dist(A[n + 1], r) = Dist(A[n], r) + 1 + m[A[n]].length
  <2>1. n + 1 \in 0 .. k - 1 /\ n \in 0 .. MaxCount - 1
        /\ n + 1 \in 0 .. MaxCount - 1
    BY RingSize
  <2>2. A[n] = C[n + 1] /\ A[n + 1] = C[(n + 1) + 1]
    BY <1>1, <2>1
  <2>3. QED BY <1>2, <2>1, <2>2
<1>8. Ring(m, q, r, w, k - 1)
  BY <1>6, <1>7 DEF Ring, A
<1>9. QED BY <1>1, <1>5, <1>8

(* What lies before the first header is freed.                             *)
LEMMA RingFreed ==
  ASSUME NEW m, Contained(m), NEW p \in Cells, NEW r \in Cells, NEW w \in Cells,
         NEW k \in 0 .. MaxCount, Ring(m, p, r, w, k)
  PROVE  Ring(m, p, p, w, k)
<1> DEFINE C == Chain(p, m)
<1>1. /\ C[0] = p
      /\ \A n \in 0 .. MaxCount : C[n] \in Cells
  BY ChainSteps, NextCell
<1>2. /\ C[k] = w
      /\ \A n \in 0 .. k - 1 :
           /\ m[C[n]].length \in 1 + Crc .. MaxFrame
           /\ Dist(C[n + 1], r) = Dist(C[n], r) + 1 + m[C[n]].length
  BY DEF Ring
<1>3. \A n \in 0 .. k : Dist(p, r) <= Dist(C[n], r)
  <2>1. \A j \in 0 .. k : \A n \in 0 .. j : Dist(C[n], r) <= Dist(C[j], r)
    BY RingInOrder
  <2> HIDE DEF C
  <2>2. QED BY <1>1, <2>1, RingSize
<1> HIDE DEF C
<1>4. \A n \in 0 .. k : Dist(C[n], p) = Dist(C[n], r) - Dist(p, r)
  <2>1. \A n \in 0 .. k : C[n] \in Cells
    BY <1>1, RingSize
  <2>2. QED BY <1>3, <2>1, DistLess
<1>5. ASSUME NEW n \in 0 .. k - 1
      PROVE  Dist(C[n + 1], p) = Dist(C[n], p) + 1 + m[C[n]].length
  <2>1. n \in 0 .. k /\ n + 1 \in 0 .. k /\ n \in 0 .. MaxCount
        /\ n + 1 \in 0 .. MaxCount
    BY RingSize
  <2>2. C[n] \in Cells /\ C[n + 1] \in Cells
    BY <1>1, <2>1
  <2>3. Dist(C[n], r) \in Int /\ Dist(p, r) \in Int /\ m[C[n]].length \in Int
    BY <2>2, DistNat, NextCell
  <2>4. /\ Dist(C[n], p) = Dist(C[n], r) - Dist(p, r)
        /\ Dist(C[n + 1], p) = Dist(C[n + 1], r) - Dist(p, r)
        /\ Dist(C[n + 1], r) = Dist(C[n], r) + 1 + m[C[n]].length
    BY <1>2, <1>4, <2>1
  <2>5. QED BY <2>3, <2>4
<1>6. QED BY <1>2, <1>5 DEF Ring, C

(* Frames that wait are kept as long as the cells in use are.              *)
Kept(l, m, r, w) ==
  \A c \in Cells : Dist(c, r) < Dist(w, r) => l[c] = m[c]

LEMMA RingKept ==
  ASSUME NEW m, Contained(m), NEW l, Contained(l),
         NEW p \in Cells, NEW r \in Cells, NEW w \in Cells,
         NEW k \in 0 .. MaxCount, Ring(m, p, r, w, k), Kept(l, m, r, w)
  PROVE  /\ \A n \in 0 .. k : Chain(p, l)[n] = Chain(p, m)[n]
         /\ \A n \in 0 .. k - 1 : l[Chain(p, m)[n]] = m[Chain(p, m)[n]]
         /\ Ring(l, p, r, w, k)
<1> DEFINE C == Chain(p, m)
           A == Chain(p, l)
<1>1. /\ \A n \in 0 .. MaxCount : C[n] \in Cells
      /\ \A n \in 0 .. k - 1 : m[C[n]].length \in Nat
      /\ C[k] = w
      /\ \A n \in 0 .. k - 1 :
           /\ m[C[n]].length \in 1 + Crc .. MaxFrame
           /\ Dist(C[n + 1], r) = Dist(C[n], r) + 1 + m[C[n]].length
  BY ChainSteps, NextCell, RingSize DEF Ring
<1>2. \A j \in 0 .. k : \A n \in 0 .. j : Dist(C[n], r) <= Dist(C[j], r)
  BY RingInOrder
<1>3. ASSUME NEW n \in 0 .. k - 1 PROVE l[C[n]] = m[C[n]]
  <2> HIDE DEF C
  <2>1. /\ n \in 0 .. MaxCount /\ n + 1 \in 0 .. MaxCount /\ n + 1 \in 0 .. k
        /\ k \in 0 .. k /\ n + 1 \in 0 .. k
    BY RingSize
  <2>2. C[n] \in Cells /\ C[n + 1] \in Cells
    BY <1>1, <2>1
  <2>3. Dist(C[n], r) \in Int /\ Dist(C[n + 1], r) \in Int /\ Dist(w, r) \in Int
    BY <2>2, DistNat
  <2>4. Dist(C[n + 1], r) = Dist(C[n], r) + 1 + m[C[n]].length
        /\ m[C[n]].length \in Nat
    BY <1>1
  <2>5. Dist(C[n + 1], r) <= Dist(w, r)
    BY <1>1, <1>2, <2>1
  <2>6. Dist(C[n], r) < Dist(w, r)
    BY <2>3, <2>4, <2>5
  <2>7. QED BY <2>2, <2>6 DEF Kept
<1>4. \A n \in 0 .. k : A[n] = C[n]
  BY <1>3, ChainKept, NextCell
<1> HIDE DEF A, C
<1>5. ASSUME NEW n \in 0 .. k - 1
      PROVE  /\ l[A[n]].length \in 1 + Crc .. MaxFrame
             /\ Dist(A[n + 1], r) = Dist(A[n], r) + 1 + l[A[n]].length
  <2>1. n \in 0 .. k /\ n + 1 \in 0 .. k
    BY RingSize
  <2>2. A[n] = C[n] /\ A[n + 1] = C[n + 1] /\ l[C[n]] = m[C[n]]
    BY <1>3, <1>4, <2>1
  <2>3. QED BY <1>1, <2>2
<1>6. A[k] = w
  BY <1>1, <1>4, RingSize
<1>7. Ring(l, p, r, w, k)
  BY <1>5, <1>6 DEF Ring, A
<1>8. QED BY <1>3, <1>4, <1>7 DEF A, C

(* A packet is added at the end.                                           *)
LEMMA RingGrows ==
  ASSUME NEW l, Contained(l),
         NEW p \in Cells, NEW r \in Cells, NEW w \in Cells,
         NEW k \in 0 .. MaxCount - 1, Ring(l, p, r, w, k),
         l[w].length \in 1 + Crc .. MaxFrame,
         Dist(l[w].next, r) = Dist(w, r) + 1 + l[w].length
  PROVE  Ring(l, p, r, l[w].next, k + 1)
<1> DEFINE C == Chain(p, l)
<1>1. /\ \A n \in 1 .. MaxCount : C[n] = l[C[n - 1]].next
      /\ C[k] = w
      /\ \A n \in 0 .. k - 1 :
           /\ l[C[n]].length \in 1 + Crc .. MaxFrame
           /\ Dist(C[n + 1], r) = Dist(C[n], r) + 1 + l[C[n]].length
  BY ChainSteps, NextCell DEF Ring
<1> HIDE DEF C
<1>2. k + 1 \in 1 .. MaxCount /\ (k + 1) - 1 = k
  BY RingSize
<1>3. C[k + 1] = l[w].next
  BY <1>1, <1>2
<1>4. ASSUME NEW n \in 0 .. (k + 1) - 1
      PROVE  /\ l[C[n]].length \in 1 + Crc .. MaxFrame
             /\ Dist(C[n + 1], r) = Dist(C[n], r) + 1 + l[C[n]].length
  <2>1. n \in 0 .. k - 1 \/ n = k
    BY RingSize
  <2>2. CASE n \in 0 .. k - 1
    BY <1>1, <2>2
  <2>3. CASE n = k
    BY <1>1, <1>3, <2>3
  <2>4. QED BY <2>1, <2>2, <2>3
<1>5. QED BY <1>3, <1>4 DEF Ring, C
-----------------------------------------------------------------------------
(* What arrives is written into free cells.                                *)

LEMMA DistSame == \A c \in Cells : Dist(c, c) = 0
<1> SUFFICES ASSUME NEW c \in Cells PROVE Dist(c, c) = 0
  OBVIOUS
<1>1. c \in Int
  BY RingSize DEF Cells
<1> QED
  BY <1>1, DistIs

LEMMA WrittenIs ==
  ASSUME Contained(mem), ERXRDPT \in Cells, ERXWRPT \in Cells,
         NEW n \in Nat, NEW content, content \in Seq(CellType),
         Len(content) = n, n <= Free
  PROVE  /\ Contained(Written(content))
         /\ Kept(Written(content), mem, ERXRDPT, ERXWRPT)
         /\ \A i \in 0 .. n - 1 :
              Written(content)[(ERXWRPT + i) % RingLen] = content[i + 1]
<1> DEFINE w == ERXWRPT
           r == ERXRDPT
           l == Written(content)
<1>1. \A c \in Cells :
        l[c] = IF Dist(c, w) < n THEN content[Dist(c, w) + 1] ELSE mem[c]
  BY DEF Written, Dist
<1>2. l = [c \in Cells |-> l[c]]
  BY DEF Written
<1>3. \A i \in 1 .. n : content[i] \in CellType
  OBVIOUS
<1>4. n <= RingLen - 1 - Dist(w, r) /\ Dist(w, r) \in Nat
  BY FreeIs, DistNat DEF Free
<1> HIDE DEF l, w, r
<1>5. w \in Cells /\ r \in Cells
  BY DEF w, r
<1>6. ASSUME NEW c \in Cells PROVE l[c] \in CellType
  <2>1. Dist(c, w) \in Nat
    BY <1>5, DistNat
  <2>2. CASE Dist(c, w) < n
    <3>1. Dist(c, w) + 1 \in 1 .. n
      BY <2>1, <2>2
    <3>2. QED BY <1>1, <1>3, <2>2, <3>1
  <2>3. CASE ~(Dist(c, w) < n)
    BY <1>1, <2>3 DEF Contained
  <2>4. QED BY <2>2, <2>3
<1>7. Contained(l)
  BY <1>2, <1>6 DEF Contained
<1>8. ASSUME NEW c \in Cells, Dist(c, r) < Dist(w, r) PROVE l[c] = mem[c]
  <2>1. /\ Dist(c, r) = (IF c >= r THEN c - r ELSE c - r + RingLen)
        /\ Dist(w, r) = (IF w >= r THEN w - r ELSE w - r + RingLen)
        /\ Dist(c, w) = (IF c >= w THEN c - w ELSE c - w + RingLen)
    BY <1>5, DistIs
  <2>2. /\ c \in Int /\ r \in Int /\ w \in Int
        /\ c < RingLen /\ r < RingLen /\ w < RingLen
        /\ c >= 0 /\ r >= 0 /\ w >= 0
    BY <1>5, RingSize DEF Cells
  <2>3. Dist(c, w) = Dist(c, r) - Dist(w, r) + RingLen
    BY <1>8, <2>1, <2>2, RingSize
  <2>4. Dist(c, r) \in Nat
    BY <1>5, DistNat
  <2>5. ~(Dist(c, w) < n)
    BY <1>4, <2>3, <2>4, RingSize
  <2>6. QED BY <1>1, <2>5
<1>9. ASSUME NEW i \in 0 .. n - 1
      PROVE  l[(w + i) % RingLen] = content[i + 1]
  <2>1. Dist(w, w) = 0
    BY <1>5, DistSame
  <2>2. i \in Nat /\ Dist(w, w) + i < RingLen /\ i < n
    BY <1>4, <2>1, RingSize
  <2>3. (w + i) % RingLen \in Cells /\ Dist((w + i) % RingLen, w) = Dist(w, w) + i
    BY <1>5, <2>2, DistAdd
  <2>4. Dist((w + i) % RingLen, w) = i
    BY <2>1, <2>2, <2>3
  <2> DEFINE c == (w + i) % RingLen
  <2> HIDE DEF c
  <2>5. c \in Cells /\ Dist(c, w) = i
    BY <2>3, <2>4 DEF c
  <2>6. l[c] = content[i + 1]
    BY <1>1, <2>2, <2>5
  <2>7. QED BY <2>6 DEF c
<1>10. Kept(l, mem, r, w)
  BY <1>8 DEF Kept
<1>11. QED BY <1>7, <1>9, <1>10 DEF l, w, r

(* The cells of a frame: its header, then its data and CRC.                *)
FrameCells(next, f, ok) ==
  <<Header(next, f.len + Crc, ok)>> \o [i \in 1 .. f.len + Crc |-> Data(f)]

LEMMA FrameCellsAre ==
  ASSUME NEW f \in Network, NEW ok \in BOOLEAN, NEW next \in Cells
  PROVE  /\ Size(f) \in Nat /\ f.len \in Nat /\ f.len > 0
         /\ Size(f) = 2 + f.len
         /\ FrameCells(next, f, ok) \in Seq(CellType)
         /\ Len(FrameCells(next, f, ok)) = Size(f)
         /\ FrameCells(next, f, ok)[1] = Header(next, f.len + Crc, ok)
         /\ \A i \in 1 .. f.len + Crc : FrameCells(next, f, ok)[i + 1] = Data(f)
<1> DEFINE k == f.len + Crc
           a == <<Header(next, k, ok)>>
           b == [i \in 1 .. k |-> Data(f)]
<1>1. f.len \in Nat /\ f.len > 0 /\ k \in Nat /\ Crc = 1 /\ k = f.len + 1
  BY EncAssumption DEF Crc
<1>2. Header(next, k, ok) \in CellType
  BY <1>1 DEF Header, CellType
<1>3. 0 \in Cells
  BY RingSize DEF Cells
<1>4. Data(f) \in CellType
  BY <1>3 DEF Data, CellType
<1> HIDE DEF k
<1>5. a \in Seq(CellType) /\ Len(a) = 1 /\ a[1] = Header(next, k, ok)
  BY <1>2
<1>6. b \in Seq(CellType) /\ Len(b) = k /\ \A i \in 1 .. k : b[i] = Data(f)
  BY <1>1, <1>4
<1> HIDE DEF a, b
<1>7. /\ a \o b \in Seq(CellType) /\ Len(a \o b) = 1 + k
      /\ (a \o b)[1] = a[1]
      /\ \A i \in 1 .. k : (a \o b)[i + 1] = b[i]
  <2>1. /\ a \o b \in Seq(CellType) /\ Len(a \o b) = Len(a) + Len(b)
        /\ \A i \in 1 .. Len(a) + Len(b) :
             (a \o b)[i] = IF i <= Len(a) THEN a[i] ELSE b[i - Len(a)]
    BY <1>5, <1>6, ConcatProperties
  <2>2. (a \o b)[1] = a[1]
    BY <1>1, <1>5, <1>6, <2>1
  <2>3. ASSUME NEW i \in 1 .. k PROVE (a \o b)[i + 1] = b[i]
    <3>1. i + 1 \in 1 .. Len(a) + Len(b) /\ ~(i + 1 <= Len(a))
          /\ (i + 1) - Len(a) = i
      BY <1>1, <1>5, <1>6
    <3>2. QED BY <2>1, <3>1
  <2>4. QED BY <1>5, <1>6, <2>1, <2>2, <2>3
<1>8. FrameCells(next, f, ok) = a \o b
  BY DEF FrameCells, a, b, k
<1>9. Size(f) = 1 + k /\ Size(f) = 2 + f.len
  BY <1>1 DEF Size, k
<1>10. QED
  BY <1>1, <1>5, <1>6, <1>7, <1>8, <1>9 DEF k

(* A frame that the controller accepts.                                    *)
AcceptedCells(f, ok) ==
  /\ Contained(mem') /\ Kept(mem', mem, ERXRDPT, ERXWRPT)
  /\ ERXWRPT' \in Cells
  /\ mem'[ERXWRPT] = Header(ERXWRPT', f.len + Crc, ok)
  /\ f.len + Crc \in 1 + Crc .. MaxFrame
  /\ Dist(ERXWRPT', ERXRDPT) = Dist(ERXWRPT, ERXRDPT) + 1 + (f.len + Crc)
  /\ \A i \in 1 .. f.len + Crc : mem'[(ERXWRPT + i) % RingLen] = Data(f)

LEMMA AcceptIs ==
  ASSUME Contained(mem), ERXRDPT \in Cells, ERXWRPT \in Cells,
         NEW f \in Network, NEW ok \in BOOLEAN, Accept(f, ok)
  PROVE  AcceptedCells(f, ok)
<1> DEFINE w == ERXWRPT
           r == ERXRDPT
           next == (w + Size(f)) % RingLen
           content == FrameCells(next, f, ok)
<1>1. /\ mem' = Written(content) /\ ERXWRPT' = next
      /\ Size(f) <= Free /\ f.len + Crc <= MaxFrame
  BY DEF Accept, FrameCells, Passes
<1>2. Size(f) \in Nat /\ f.len \in Nat /\ f.len > 0 /\ Size(f) = 2 + f.len
  <2>1. 0 \in Cells
    BY RingSize DEF Cells
  <2>2. QED BY <2>1, FrameCellsAre
<1>3. Dist(w, r) \in Nat /\ Free = RingLen - 1 - Dist(w, r)
  BY FreeIs, DistNat DEF Free
<1>4. Dist(w, r) + Size(f) < RingLen
  BY <1>1, <1>2, <1>3, RingSize
<1>5. Dist(next, r) = Dist(w, r) + Size(f) /\ next \in Cells
  BY <1>2, <1>4, DistAdd
<1> HIDE DEF next
<1>6. /\ content \in Seq(CellType) /\ Len(content) = Size(f)
      /\ content[1] = Header(next, f.len + Crc, ok)
      /\ \A i \in 1 .. f.len + Crc : content[i + 1] = Data(f)
  BY <1>5, FrameCellsAre
<1> HIDE DEF content
<1>7. /\ Contained(Written(content)) /\ Kept(Written(content), mem, r, w)
      /\ \A i \in 0 .. Size(f) - 1 :
           Written(content)[(w + i) % RingLen] = content[i + 1]
  BY <1>1, <1>2, <1>6, WrittenIs
<1>8. (w + 0) % RingLen = w
  <2>1. w \in Int /\ w < RingLen /\ 0 \in 0 .. RingLen /\ w + 0 = w
    BY RingSize DEF Cells
  <2>2. QED BY <2>1, AddIs
<1> HIDE DEF w, r
<1>9. mem'[w] = Header(next, f.len + Crc, ok)
  <2>1. 0 \in 0 .. Size(f) - 1 /\ 0 + 1 = 1
    BY <1>2
  <2>2. mem'[(w + 0) % RingLen] = content[0 + 1]
    BY <1>1, <1>7, <2>1
  <2>3. QED BY <1>6, <1>8, <2>1, <2>2
<1>10. \A i \in 1 .. f.len + Crc : mem'[(w + i) % RingLen] = Data(f)
  <2>1. \A i \in 1 .. f.len + Crc : i \in 0 .. Size(f) - 1
    BY <1>2 DEF Crc
  <2>2. QED BY <1>1, <1>6, <1>7, <2>1
<1>11. f.len + Crc \in 1 + Crc .. MaxFrame /\ Size(f) = 1 + (f.len + Crc)
  BY <1>1, <1>2, EncAssumption DEF Crc
<1>12. Dist(next, r) = Dist(w, r) + 1 + (f.len + Crc)
  BY <1>2, <1>3, <1>5, <1>11 DEF Crc
<1>13. QED
  BY <1>1, <1>5, <1>7, <1>9, <1>10, <1>11, <1>12 DEF AcceptedCells, w, r

(* A frame that it does not.                                               *)
LEMMA DiscardIs ==
  ASSUME Contained(mem), ERXRDPT \in Cells, ERXWRPT \in Cells, Discard
  PROVE  Contained(mem') /\ Kept(mem', mem, ERXRDPT, ERXWRPT)
<1> DEFINE content == [i \in 1 .. Free |-> Data(Nothing)]
<1>1. Free \in Nat
  BY FreeIs, DistNat, RingSize DEF Free
<1>2. 0 \in Cells
  BY RingSize DEF Cells
<1>3. Data(Nothing) \in CellType
  BY <1>2 DEF Data, CellType
<1>4. content \in Seq(CellType) /\ Len(content) = Free
  BY <1>1, <1>3
<1>5. mem' = Written(content)
  BY DEF Discard
<1> HIDE DEF content
<1>6. QED BY <1>1, <1>4, <1>5, WrittenIs
-----------------------------------------------------------------------------
(* The inductive invariant: what each place in the driver's code implies,  *)
(* and the ring between what is freed and what is written.                 *)

PcInv ==
  /\ RXEN = (IF pc = "reset" THEN 0 ELSE 1)
  /\ pc = "reset" => EPKTCNT = 0 /\ ERXWRPT = 0
  /\ pc \in {"pointer", "header", "data", "free", "done"} => EPKTCNT >= 1
  /\ pc = "header" => ERDPT = next_packet_ptr

RingInv ==
  RXEN = 1 =>
    /\ Ring(mem, next_packet_ptr, ERXRDPT, ERXWRPT, Waiting)
    /\ pc = "data" => Dist(ERDPT, ERXRDPT) + data_length
                        <= Dist(next_packet_ptr, ERXRDPT)

IInv == TypeOK /\ Contained(mem) /\ BankKnown /\ PcInv /\ RingInv

LEMMA SelectReaches ==
  ASSUME BankKnown, NEW b, Select(b)
  PROVE  Enc28j60Bank' = b /\ ECON1_BSEL' = Bits(b) /\ Reached(b)
<1>1. Enc28j60Bank' = b
  BY DEF Select, SetBank
<1>2. ECON1_BSEL' = Bits(Enc28j60Bank')
  BY SelectKnown DEF BankKnown
<1>3. QED BY <1>1, <1>2 DEF Reached

LEMMA BitsType == \A b : Bits(b) \in SUBSET {0, 1}
BY DEF Bits

LEMMA InvTypes ==
  ASSUME IInv
  PROVE  /\ ERXRDPT \in Cells /\ ERXWRPT \in Cells /\ ERDPT \in Cells
         /\ next_packet_ptr \in Cells /\ Contained(mem)
         /\ EPKTCNT \in 0 .. MaxCount /\ data_length \in 0 .. MaxData
         /\ RXEN = 1 => Waiting \in 0 .. MaxCount
         /\ pc \in {"pointer", "header"} => RXEN = 1 /\ Waiting \in 1 .. MaxCount
BY RingSize DEF IInv, TypeOK, PcInv, Waiting, InHand

(* A step that changes neither the ring nor the place in it.               *)
LEMMA RingSame ==
  ASSUME IInv, UNCHANGED <<RXEN, ERXRDPT, ERXWRPT, mem, next_packet_ptr>>,
         Waiting' = Waiting,
         pc' = "data" => pc = "data" /\ UNCHANGED <<ERDPT, data_length>>
  PROVE  RingInv'
BY DEF IInv, RingInv, Dist

LEMMA PollKeeps == ASSUME IInv, Poll PROVE IInv'
<1>1. BankKnown /\ pc = "poll" /\ Select(1)
  BY DEF IInv, Poll
<1>2. Enc28j60Bank' = 1 /\ ECON1_BSEL' = Bits(1) /\ Reached(1)
  BY <1>1, SelectReaches
<1>3. \/ EPKTCNT = 0 /\ buf' = <<>> /\ answers' = 0 /\ pc' = pc
      \/ EPKTCNT # 0 /\ pc' = "pointer" /\ UNCHANGED <<buf, answers>>
  BY <1>2 DEF Poll
<1>4. UNCHANGED <<next_packet_ptr, data_length, receiver, ERDPT, sender>>
  BY DEF Poll
<1>5. TypeOK'
  <2>1. buf' \in Seq(Network \cup {Nothing})
    <3>1. CASE buf' = <<>>
      BY <3>1
    <3>2. QED BY <1>3, <3>1 DEF IInv, TypeOK
  <2>2. answers' \in 0 .. MaxAnswers
    BY <1>3, EncAssumption DEF IInv, TypeOK
  <2>3. pc' \in {"poll", "pointer"}
    BY <1>1, <1>3
  <2>4. QED
    BY <1>2, <1>4, <2>1, <2>2, <2>3, BitsType
    DEF IInv, TypeOK, receiver, sender
<1>6. Contained(mem') /\ BankKnown'
  BY <1>2, <1>4 DEF IInv, receiver, BankKnown
<1>7. PcInv'
  BY <1>1, <1>3, <1>4 DEF IInv, TypeOK, PcInv, receiver
<1>8. RingInv'
  <2>1. Waiting' = Waiting
    BY <1>1, <1>3, <1>4 DEF Waiting, InHand, receiver
  <2>2. QED BY <1>1, <1>3, <1>4, <2>1, RingSame DEF receiver
<1>9. QED BY <1>5, <1>6, <1>7, <1>8 DEF IInv

LEMMA PointerKeeps == ASSUME IInv, SetReadPointer PROVE IInv'
<1>1. BankKnown /\ pc = "pointer" /\ Select(0) /\ pc' = "header"
  BY DEF IInv, SetReadPointer
<1>2. Enc28j60Bank' = 0 /\ ECON1_BSEL' = Bits(0) /\ Reached(0)
  BY <1>1, SelectReaches
<1>3. ERDPT' = next_packet_ptr /\ UNCHANGED <<driver, receiver, sender>>
  BY <1>2 DEF SetReadPointer
<1>4. TypeOK'
  BY <1>1, <1>2, <1>3, BitsType DEF IInv, TypeOK, driver, receiver, sender
<1>5. Contained(mem') /\ BankKnown'
  BY <1>2, <1>3 DEF IInv, receiver, BankKnown
<1>6. PcInv'
  BY <1>1, <1>3 DEF IInv, PcInv, receiver, driver
<1>7. RingInv'
  <2>1. Waiting' = Waiting
    BY <1>1, <1>3 DEF Waiting, InHand, receiver
  <2>2. QED BY <1>1, <1>3, <2>1, RingSame DEF receiver, driver
<1>8. QED BY <1>4, <1>5, <1>6, <1>7 DEF IInv

(* What the driver finds in the header it reads.                           *)
HeaderRead(length) ==
  /\ length = mem[next_packet_ptr].length
  /\ length \in 1 + Crc .. MaxFrame
  /\ Ring(mem, next_packet_ptr', ERXRDPT, ERXWRPT, Waiting - 1)
  /\ Dist(next_packet_ptr', ERXRDPT)
       = Dist(next_packet_ptr, ERXRDPT) + 1 + length
  /\ next_packet_ptr' = mem[next_packet_ptr].next
  /\ next_packet_ptr' \in Cells
  /\ ERDPT' = (next_packet_ptr + 1) % RingLen
  /\ ERDPT' \in Cells
  /\ Dist(ERDPT', ERXRDPT) = Dist(next_packet_ptr, ERXRDPT) + 1
  /\ data_length' = IF mem[next_packet_ptr].ok THEN length - Crc ELSE 0
  /\ Waiting' = Waiting - 1
  /\ Dist(next_packet_ptr, ERXRDPT) \in Nat

LEMMA MinOfTwo ==
  ASSUME NEW a \in Int, NEW b \in Int, a <= b
  PROVE  Min({a, b}) = a
<1>1. a \in {a, b} /\ \A y \in {a, b} : a =< y
  OBVIOUS
<1>2. \A x \in {a, b} : (\A y \in {a, b} : x =< y) => x = a
  OBVIOUS
<1>3. QED BY <1>1, <1>2 DEF Min

LEMMA HeaderIsRead ==
  ASSUME IInv, ReadHeader
  PROVE  HeaderRead(mem[next_packet_ptr].length)
<1> DEFINE p == next_packet_ptr
           length == mem[p].length
           q == mem[p].next
           r == ERXRDPT
<1>1. /\ pc = "header" /\ ERDPT = p /\ pc' = "data"
      /\ EPKTCNT' = EPKTCNT
      /\ Ring(mem, p, r, ERXWRPT, Waiting)
      /\ p \in Cells /\ r \in Cells /\ ERXWRPT \in Cells /\ Contained(mem)
      /\ Waiting \in 1 .. MaxCount
  BY InvTypes DEF IInv, PcInv, RingInv, ReadHeader, receiver
<1>2. /\ next_packet_ptr' = q
      /\ data_length' = IF mem[p].ok THEN Min({length - Crc, MaxData}) ELSE 0
      /\ ERDPT' = (p + 1) % RingLen
  BY <1>1 DEF ReadHeader
<1>3. /\ Ring(mem, q, r, ERXWRPT, Waiting - 1)
      /\ length \in 1 + Crc .. MaxFrame
      /\ Dist(q, r) = Dist(p, r) + 1 + length
      /\ q \in Cells
  BY <1>1, RingTaken
<1>4. Waiting' = Waiting - 1
  BY <1>1 DEF Waiting, InHand
<1> HIDE DEF p, length, q, r
<1>5. Dist(q, r) \in Nat /\ Dist(q, r) < RingLen /\ Dist(p, r) \in Nat
  BY <1>1, <1>3, DistNat
<1>6. length \in Int /\ length >= 1 + Crc /\ length <= MaxFrame
  BY <1>3, EncAssumption DEF Crc
<1>7. Min({length - Crc, MaxData}) = length - Crc
  BY <1>6, EncAssumption, MinOfTwo DEF Crc
<1>8. Dist(p, r) + 1 < RingLen /\ 1 \in Nat
  BY <1>3, <1>5, <1>6, RingSize DEF Crc
<1>9. (p + 1) % RingLen \in Cells /\ Dist((p + 1) % RingLen, r) = Dist(p, r) + 1
  BY <1>1, <1>8, DistAdd
<1>10. HeaderRead(length)
  BY <1>1, <1>2, <1>3, <1>4, <1>5, <1>7, <1>9
  DEF HeaderRead, p, length, q, r
<1>11. QED BY <1>10 DEF length, p

LEMMA ReadHeaderKeeps == ASSUME IInv, ReadHeader PROVE IInv'
<1> DEFINE length == mem[next_packet_ptr].length
<1>1. HeaderRead(length)
  BY HeaderIsRead
<1> HIDE DEF length
<1>2. /\ pc = "header" /\ pc' = "data"
      /\ UNCHANGED <<buf, answers, banks, receiver, sender>>
  BY DEF ReadHeader
<1>3. length \in Int /\ length >= 1 + Crc /\ length <= MaxFrame
  BY <1>1, EncAssumption DEF HeaderRead, Crc
<1>4. data_length' \in 0 .. MaxData
  BY <1>1, <1>3, EncAssumption DEF HeaderRead, Crc
<1>5. TypeOK'
  BY <1>1, <1>2, <1>4 DEF IInv, TypeOK, HeaderRead, banks, receiver, sender
<1>6. Contained(mem') /\ BankKnown'
  BY <1>2 DEF IInv, receiver, banks, BankKnown
<1>7. PcInv'
  BY <1>2 DEF IInv, PcInv, receiver
<1>8. RingInv'
  <2>1. Ring(mem', next_packet_ptr', ERXRDPT', ERXWRPT', Waiting')
    BY <1>1, <1>2 DEF HeaderRead, receiver
  <2>2. Dist(ERDPT', ERXRDPT) + data_length' <= Dist(next_packet_ptr', ERXRDPT)
    BY <1>1, <1>3 DEF HeaderRead, Crc
  <2>3. ERXRDPT' = ERXRDPT
    BY <1>2 DEF receiver
  <2>4. Dist(ERDPT, ERXRDPT)' = Dist(ERDPT', ERXRDPT)
        /\ Dist(next_packet_ptr, ERXRDPT)' = Dist(next_packet_ptr', ERXRDPT)
    BY <2>3 DEF Dist
  <2>5. QED BY <2>1, <2>2, <2>4 DEF RingInv
<1>9. QED BY <1>5, <1>6, <1>7, <1>8 DEF IInv

LEMMA ReadDataKeeps == ASSUME IInv, ReadData PROVE IInv'
<1>1. /\ pc = "data" /\ pc' = "free"
      /\ buf' = [i \in 1 .. data_length |-> mem[(ERDPT + i - 1) % RingLen].data]
      /\ ERDPT' = (ERDPT + data_length) % RingLen
      /\ answers' = IF data_length = 0 THEN 0 ELSE MaxAnswers
      /\ UNCHANGED <<next_packet_ptr, data_length, banks, receiver, sender>>
  BY DEF ReadData
<1>2. /\ ERDPT \in Cells /\ ERXRDPT \in Cells /\ next_packet_ptr \in Cells
      /\ data_length \in Nat /\ Contained(mem)
  BY InvTypes, EncAssumption
<1>3. /\ Dist(ERDPT, ERXRDPT) \in Nat
      /\ Dist(ERDPT, ERXRDPT) + data_length < RingLen
  <2>1. Dist(ERDPT, ERXRDPT) + data_length <= Dist(next_packet_ptr, ERXRDPT)
    BY <1>1 DEF IInv, PcInv, RingInv
  <2>2. /\ Dist(ERDPT, ERXRDPT) \in Nat
        /\ Dist(next_packet_ptr, ERXRDPT) \in Nat
        /\ Dist(next_packet_ptr, ERXRDPT) < RingLen
    BY <1>2, DistNat
  <2>3. QED BY <1>2, <2>1, <2>2, RingSize
<1>4. ERDPT' \in Cells
  BY <1>1, <1>2, <1>3, DistAdd
<1>5. buf' \in Seq(Network \cup {Nothing})
  <2>1. ASSUME NEW i \in 1 .. data_length
        PROVE  mem[(ERDPT + i - 1) % RingLen].data \in Network \cup {Nothing}
    <3>1. i - 1 \in Nat /\ Dist(ERDPT, ERXRDPT) + (i - 1) < RingLen
      BY <1>2, <1>3, RingSize
    <3>2. (ERDPT + (i - 1)) % RingLen \in Cells
      BY <1>2, <3>1, DistAdd
    <3>3. ERDPT + (i - 1) = ERDPT + i - 1
      BY <1>2, RingSize DEF Cells
    <3>4. QED BY <1>2, <3>2, <3>3 DEF Contained, CellType
  <2>2. QED BY <1>1, <1>2, <2>1
<1>6. TypeOK'
  <2>1. answers' \in 0 .. MaxAnswers
    BY <1>1, EncAssumption
  <2>2. QED BY <1>1, <1>4, <1>5, <2>1
            DEF IInv, TypeOK, banks, receiver, sender
<1>7. Contained(mem') /\ BankKnown'
  BY <1>1 DEF IInv, receiver, banks, BankKnown
<1>8. PcInv'
  BY <1>1 DEF IInv, PcInv, receiver
<1>9. RingInv'
  <2>1. Waiting' = Waiting
    BY <1>1 DEF Waiting, InHand, receiver
  <2>2. QED BY <1>1, <2>1, RingSame DEF receiver
<1>10. QED BY <1>6, <1>7, <1>8, <1>9 DEF IInv

LEMMA FreeKeeps == ASSUME IInv, FreeSpace PROVE IInv'
<1>1. BankKnown /\ pc = "free" /\ Select(0) /\ pc' = "done"
  BY DEF IInv, FreeSpace
<1>2. Enc28j60Bank' = 0 /\ ECON1_BSEL' = Bits(0) /\ Reached(0)
  BY <1>1, SelectReaches
<1>3. /\ ERXRDPT' = next_packet_ptr
      /\ UNCHANGED <<driver, RXEN, EPKTCNT, ERXWRPT, mem, ERDPT, sender>>
  BY <1>2 DEF FreeSpace
<1>4. TypeOK'
  BY <1>1, <1>2, <1>3, BitsType DEF IInv, TypeOK, driver, sender
<1>5. Contained(mem') /\ BankKnown'
  BY <1>2, <1>3 DEF IInv, BankKnown
<1>6. PcInv'
  BY <1>1, <1>3 DEF IInv, PcInv
<1>7. RingInv'
  <2>1. Waiting' = Waiting
    BY <1>1, <1>3 DEF Waiting, InHand
  <2>2. RXEN = 1
    BY <1>1 DEF IInv, PcInv
  <2>3. Ring(mem, next_packet_ptr, ERXRDPT, ERXWRPT, Waiting)
    BY <2>2 DEF IInv, RingInv
  <2>4. Ring(mem, next_packet_ptr, next_packet_ptr, ERXWRPT, Waiting)
    BY <2>2, <2>3, RingFreed, InvTypes
  <2>5. QED BY <1>1, <1>3, <2>1, <2>4 DEF RingInv, driver
<1>8. QED BY <1>4, <1>5, <1>6, <1>7 DEF IInv

LEMMA DoneKeeps == ASSUME IInv, Done PROVE IInv'
<1>1. /\ pc = "done" /\ pc' = "poll" /\ EPKTCNT' = EPKTCNT - 1
      /\ UNCHANGED <<driver, banks, RXEN, ERXRDPT, ERXWRPT, mem, ERDPT, sender>>
  BY DEF Done
<1>2. EPKTCNT >= 1 /\ EPKTCNT \in 0 .. MaxCount
  BY <1>1 DEF IInv, TypeOK, PcInv
<1>3. EPKTCNT' \in 0 .. MaxCount
  BY <1>1, <1>2, RingSize
<1>4. TypeOK'
  BY <1>1, <1>3 DEF IInv, TypeOK, driver, banks, sender
<1>5. Contained(mem') /\ BankKnown'
  BY <1>1 DEF IInv, banks, BankKnown
<1>6. PcInv'
  BY <1>1 DEF IInv, PcInv
<1>7. RingInv'
  <2>1. Waiting' = Waiting
    BY <1>1 DEF Waiting, InHand
  <2>2. QED BY <1>1, <2>1, RingSame DEF driver
<1>8. QED BY <1>4, <1>5, <1>6, <1>7 DEF IInv

LEMMA SendKeeps == ASSUME IInv, Send PROVE IInv'
<1>1. /\ BankKnown /\ pc = "poll" /\ Select(0) /\ pc' = "check"
      /\ answers > 0 /\ answers' = answers - 1
      /\ ECON1_TXRTS' = 1 /\ h_fate' = "pending"
      /\ UNCHANGED <<next_packet_ptr, data_length, buf, receiver, ERDPT,
                     EIR_TXERIF>>
  BY DEF IInv, Send
<1>2. Enc28j60Bank' = 0 /\ ECON1_BSEL' = Bits(0)
  BY <1>1, SelectReaches
<1>3. answers' \in 0 .. MaxAnswers
  BY <1>1, EncAssumption DEF IInv, TypeOK
<1>4. TypeOK'
  BY <1>1, <1>2, <1>3, BitsType DEF IInv, TypeOK, receiver
<1>5. Contained(mem') /\ BankKnown'
  BY <1>1, <1>2 DEF IInv, receiver, BankKnown
<1>6. PcInv'
  BY <1>1 DEF IInv, PcInv, receiver
<1>7. RingInv'
  <2>1. Waiting' = Waiting
    BY <1>1 DEF Waiting, InHand, receiver
  <2>2. QED BY <1>1, <2>1, RingSame DEF receiver
<1>8. QED BY <1>4, <1>5, <1>6, <1>7 DEF IInv

LEMMA CheckKeeps == ASSUME IInv, CheckError PROVE IInv'
<1>1. /\ BankKnown /\ pc = "check" /\ Select(0) /\ pc' = "poll"
      /\ UNCHANGED <<driver, receiver, ERDPT, EIR_TXERIF>>
      /\ \/ UNCHANGED <<ECON1_TXRTS, h_fate>>
         \/ ECON1_TXRTS' = 0 /\ h_fate' = "cancelled"
  BY DEF IInv, CheckError
<1>2. Enc28j60Bank' = 0 /\ ECON1_BSEL' = Bits(0)
  BY <1>1, SelectReaches
<1>3. ECON1_TXRTS' \in {0, 1}
      /\ h_fate' \in {"none", "pending", "out", "failed", "cancelled"}
  BY <1>1 DEF IInv, TypeOK
<1>4. TypeOK'
  BY <1>1, <1>2, <1>3, BitsType DEF IInv, TypeOK, receiver, driver
<1>5. Contained(mem') /\ BankKnown'
  BY <1>1, <1>2 DEF IInv, receiver, BankKnown
<1>6. PcInv'
  BY <1>1 DEF IInv, PcInv, receiver
<1>7. RingInv'
  <2>1. Waiting' = Waiting
    BY <1>1 DEF Waiting, InHand, receiver
  <2>2. QED BY <1>1, <2>1, RingSame DEF receiver, driver
<1>8. QED BY <1>4, <1>5, <1>6, <1>7 DEF IInv

LEMMA SetUpKeeps == ASSUME IInv, SetUp PROVE IInv'
<1> DEFINE s == [cached |-> Enc28j60Bank, selected |-> ECON1_BSEL]
<1>1. /\ pc = "reset" /\ pc' = "poll" /\ next_packet_ptr' = 0 /\ ERXRDPT' = 0
      /\ RXEN' = 1
      /\ Enc28j60Bank' = SetUpBanks(s).cached
      /\ ECON1_BSEL' = SetUpBanks(s).selected
      /\ UNCHANGED <<data_length, buf, answers, EPKTCNT, ERXWRPT, ERDPT, mem,
                     sender>>
  BY DEF SetUp
<1>2. BankKnown'
  <2>1. Known(s)
    BY DEF IInv, Known, BankKnown
  <2>2. Known(SetUpBanks(s))
    BY <2>1, SetUpKnown
  <2>3. QED BY <1>1, <2>2 DEF Known, BankKnown
<1>3. Enc28j60Bank' = 0
  <2>1. \A t : SetBank(t, 0).cached = 0
    BY DEF SetBank
  <2> HIDE DEF s
  <2>2. SetUpBanks(s).cached = 0
    BY <2>1 DEF SetUpBanks
  <2>3. QED BY <1>1, <2>2
<1>4. 0 \in Cells
  BY RingSize DEF Cells
<1>5. TypeOK'
  <2>1. Enc28j60Bank' \in 0 .. 3 /\ ECON1_BSEL' \in SUBSET {0, 1}
    BY <1>2, <1>3, BitsType DEF BankKnown
  <2>2. QED BY <1>1, <1>4, <2>1 DEF IInv, TypeOK, sender
<1>6. Contained(mem')
  BY <1>1 DEF IInv
<1>7. PcInv'
  BY <1>1 DEF IInv, PcInv
<1>8. RingInv'
  <2>1. Waiting' = 0 /\ ERXWRPT' = 0
    BY <1>1 DEF IInv, PcInv, Waiting, InHand
  <2>2. Ring(mem', 0, 0, 0, 0)
    BY <1>4, <1>6, RingEmpty
  <2>3. QED BY <1>1, <2>1, <2>2 DEF RingInv
<1>9. QED BY <1>2, <1>5, <1>6, <1>7, <1>8 DEF IInv

LEMMA ResetKeeps == ASSUME IInv, Reset PROVE IInv'
<1>1. /\ pc' = "reset" /\ next_packet_ptr' = 0 /\ RXEN' = 0 /\ EPKTCNT' = 0
      /\ ERXWRPT' = 0 /\ ECON1_TXRTS' = 0 /\ EIR_TXERIF' = 0
      /\ ECON1_BSEL' = {} /\ Enc28j60Bank' = 0 /\ data_length' = 0
      /\ buf' = <<>> /\ answers' = 0 /\ h_fate' = "none"
      /\ UNCHANGED <<ERXRDPT, ERDPT, mem>>
  BY DEF Reset, ClearHost, ResetController
<1>2. 0 \in Cells /\ 0 \in 0 .. MaxCount /\ 0 \in 0 .. MaxData
      /\ 0 \in 0 .. MaxAnswers /\ 0 \in 0 .. 3
  BY RingSize, EncAssumption DEF Cells
<1>3. TypeOK'
  <2>1. buf' \in Seq(Network \cup {Nothing})
    BY <1>1
  <2>2. QED BY <1>1, <1>2, <2>1 DEF IInv, TypeOK
<1>4. Contained(mem') /\ BankKnown'
  BY <1>1, NoBits DEF IInv, BankKnown
<1>5. PcInv' /\ RingInv'
  BY <1>1 DEF PcInv, RingInv
<1>6. QED BY <1>3, <1>4, <1>5 DEF IInv

LEMMA TransmitKeeps == ASSUME IInv, Transmit PROVE IInv'
<1>1. /\ ECON1_TXRTS' = 0
      /\ h_fate' \in {"out", "failed"} /\ EIR_TXERIF' \in {EIR_TXERIF, 1}
      /\ UNCHANGED <<driver, banks, receiver, ERDPT, pc>>
  BY DEF Transmit
<1>2. TypeOK'
  BY <1>1 DEF IInv, TypeOK, receiver, driver, banks
<1>3. Contained(mem') /\ BankKnown'
  BY <1>1 DEF IInv, receiver, banks, BankKnown
<1>4. PcInv'
  BY <1>1 DEF IInv, PcInv, receiver, driver
<1>5. RingInv'
  <2>1. Waiting' = Waiting
    BY <1>1 DEF Waiting, InHand, receiver
  <2>2. QED BY <1>1, <2>1, RingSame DEF receiver, driver
<1>6. QED BY <1>2, <1>3, <1>4, <1>5 DEF IInv

LEMMA StutterKeeps == ASSUME IInv, UNCHANGED vars PROVE IInv'
<1>1. UNCHANGED <<driver, banks, receiver, ERDPT, sender, pc>>
  BY DEF vars
<1>2. TypeOK' /\ Contained(mem') /\ BankKnown' /\ PcInv'
  BY <1>1 DEF IInv, TypeOK, PcInv, BankKnown, receiver, driver, banks, sender
<1>3. RingInv'
  <2>1. Waiting' = Waiting
    BY <1>1 DEF Waiting, InHand, receiver
  <2>2. QED BY <1>1, <2>1, RingSame DEF receiver, driver
<1>4. QED BY <1>2, <1>3 DEF IInv

(* What arrives changes the ring behind what is written, and nothing else. *)
LEMMA AcceptKeepsRing ==
  ASSUME IInv, RXEN = 1, NEW f \in Network, NEW ok \in BOOLEAN, Accept(f, ok)
  PROVE  /\ Ring(mem', next_packet_ptr, ERXRDPT, ERXWRPT', Waiting + 1)
         /\ Waiting + 1 \in 1 .. MaxCount
         /\ AcceptedCells(f, ok)
<1> DEFINE w == ERXWRPT
           r == ERXRDPT
           p == next_packet_ptr
<1>1. /\ w \in Cells /\ r \in Cells /\ p \in Cells /\ Contained(mem)
      /\ Ring(mem, p, r, w, Waiting) /\ Waiting \in 0 .. MaxCount
  BY InvTypes DEF IInv, RingInv
<1>2. Waiting \in 0 .. MaxCount - 1 /\ Waiting + 1 \in 1 .. MaxCount
  BY InvTypes, RingSize DEF Waiting, Accept, IInv, PcInv, InHand
<1>3. AcceptedCells(f, ok)
  BY <1>1, AcceptIs
<1>4. /\ Contained(mem') /\ Kept(mem', mem, r, w)
      /\ ERXWRPT' \in Cells
      /\ mem'[w] = Header(ERXWRPT', f.len + Crc, ok)
      /\ f.len + Crc \in 1 + Crc .. MaxFrame
      /\ Dist(ERXWRPT', r) = Dist(w, r) + 1 + (f.len + Crc)
  BY <1>3 DEF AcceptedCells
<1>5. Ring(mem', p, r, w, Waiting)
  BY <1>1, <1>4, RingKept
<1>6. mem'[w].next = ERXWRPT' /\ mem'[w].length = f.len + Crc
  BY <1>4 DEF Header
<1>7. Ring(mem', p, r, mem'[w].next, Waiting + 1)
  BY <1>1, <1>2, <1>4, <1>5, <1>6, RingGrows
<1>8. QED BY <1>2, <1>3, <1>6, <1>7

LEMMA ArriveKeeps == ASSUME IInv, Arrive PROVE IInv'
<1>1. /\ RXEN = 1
      /\ UNCHANGED <<driver, banks, RXEN, ERXRDPT, ERDPT, sender, pc>>
      /\ (\E f \in Network, ok \in BOOLEAN : Accept(f, ok)) \/ Discard
  BY DEF Arrive
<1>2. ASSUME NEW f \in Network, NEW ok \in BOOLEAN, Accept(f, ok)
      PROVE  /\ Contained(mem') /\ ERXWRPT' \in Cells
             /\ EPKTCNT' = EPKTCNT + 1 /\ EPKTCNT' \in 0 .. MaxCount
             /\ Ring(mem', next_packet_ptr, ERXRDPT, ERXWRPT', Waiting')
  <2>1. /\ Ring(mem', next_packet_ptr, ERXRDPT, ERXWRPT', Waiting + 1)
        /\ AcceptedCells(f, ok)
    BY <1>1, <1>2, AcceptKeepsRing
  <2>2. EPKTCNT' = EPKTCNT + 1 /\ EPKTCNT < MaxCount
    BY <1>2 DEF Accept
  <2>3. EPKTCNT \in Int
    BY InvTypes
  <2>4. Waiting' = Waiting + 1
    BY <1>1, <2>2, <2>3 DEF Waiting, InHand
  <2>5. EPKTCNT' \in 0 .. MaxCount
    BY <2>2, InvTypes, RingSize
  <2>6. QED BY <2>1, <2>2, <2>4, <2>5 DEF AcceptedCells
<1>3. ASSUME Discard
      PROVE  /\ Contained(mem') /\ ERXWRPT' = ERXWRPT /\ EPKTCNT' = EPKTCNT
             /\ Ring(mem', next_packet_ptr, ERXRDPT, ERXWRPT', Waiting')
  <2>1. /\ Contained(mem') /\ Kept(mem', mem, ERXRDPT, ERXWRPT)
    BY <1>3, InvTypes, DiscardIs
  <2>2. EPKTCNT' = EPKTCNT /\ ERXWRPT' = ERXWRPT
    BY <1>3 DEF Discard
  <2>3. Waiting' = Waiting
    BY <1>1, <2>2 DEF Waiting, InHand
  <2>4. Ring(mem, next_packet_ptr, ERXRDPT, ERXWRPT, Waiting)
    BY <1>1 DEF IInv, RingInv
  <2>5. Ring(mem', next_packet_ptr, ERXRDPT, ERXWRPT, Waiting)
    BY <1>1, <2>1, <2>4, InvTypes, RingKept
  <2>6. QED BY <2>1, <2>2, <2>3, <2>5
<1>4. /\ Contained(mem') /\ ERXWRPT' \in Cells /\ EPKTCNT' \in 0 .. MaxCount
      /\ EPKTCNT' >= EPKTCNT
      /\ Ring(mem', next_packet_ptr, ERXRDPT, ERXWRPT', Waiting')
  BY <1>1, <1>2, <1>3, InvTypes
<1>5. TypeOK'
  <2>1. DOMAIN mem' = Cells
    BY <1>4 DEF Contained
  <2>2. QED BY <1>1, <1>4, <2>1 DEF IInv, TypeOK, driver, banks, sender
<1>6. BankKnown'
  BY <1>1 DEF IInv, banks, BankKnown
<1>7. PcInv'
  <2>1. pc # "reset" /\ EPKTCNT \in Int /\ EPKTCNT' \in Int
    BY <1>1, <1>4, InvTypes DEF IInv, PcInv
  <2>2. QED BY <1>1, <1>4, <2>1 DEF IInv, PcInv, driver
<1>8. RingInv'
  <2>1. pc' = "data" => Dist(ERDPT, ERXRDPT)' + data_length'
                          <= Dist(next_packet_ptr, ERXRDPT)'
    BY <1>1 DEF IInv, RingInv, driver, Dist
  <2>2. next_packet_ptr' = next_packet_ptr /\ ERXRDPT' = ERXRDPT
    BY <1>1 DEF driver
  <2>3. QED BY <1>4, <2>1, <2>2 DEF RingInv
<1>9. QED BY <1>4, <1>5, <1>6, <1>7, <1>8 DEF IInv

LEMMA InvInit == Init => IInv
<1> SUFFICES ASSUME Init PROVE IInv
  OBVIOUS
<1>1. 0 \in Cells /\ 0 \in 0 .. MaxCount /\ 0 \in 0 .. MaxData
      /\ 0 \in 0 .. MaxAnswers /\ 0 \in 0 .. 3
  BY RingSize, EncAssumption DEF Cells
<1>2. Contained(mem)
  BY <1>1 DEF Init, Contained, CellType, Data
<1>3. TypeOK
  <2>1. buf \in Seq(Network \cup {Nothing})
    BY DEF Init
  <2>2. QED BY <1>1, <2>1 DEF Init, TypeOK
<1>4. BankKnown
  BY BankInit
<1>5. PcInv /\ RingInv
  BY DEF Init, PcInv, RingInv
<1>6. QED BY <1>2, <1>3, <1>4, <1>5 DEF IInv

LEMMA InvNext == IInv /\ [Next]_vars => IInv'
BY SetUpKeeps, PollKeeps, PointerKeeps, ReadHeaderKeeps, ReadDataKeeps,
   FreeKeeps, DoneKeeps, SendKeeps, CheckKeeps, ArriveKeeps, TransmitKeeps,
   ResetKeeps, StutterKeeps DEF Next, Driver

(* The invariant holds at the start and is kept by every step, of the      *)
(* driver, the controller and a restart.                                   *)
THEOREM InductiveInvariant == Spec => []IInv
BY InvInit, InvNext, PTL DEF Spec

(* Every variable has its type (enc28j60.c:30-41, 221-260, 312-374).       *)
THEOREM TypeCorrect == Spec => []TypeOK
<1>1. IInv => TypeOK
  BY DEF IInv
<1>2. QED BY <1>1, InductiveInvariant, PTL

(* What waits and what is being read is within what is written.            *)
LEMMA InUse ==
  ASSUME IInv, RXEN = 1
  PROVE  /\ Start[Waiting] = ERXWRPT
         /\ \A n \in 0 .. Waiting :
              Dist(Start[n], ERXRDPT) <= Dist(ERXWRPT, ERXRDPT)
         /\ Dist(next_packet_ptr, ERXRDPT) <= Dist(ERXWRPT, ERXRDPT)
<1> DEFINE C == Chain(next_packet_ptr, mem)
           k == Waiting
<1>1. /\ Ring(mem, next_packet_ptr, ERXRDPT, ERXWRPT, k)
      /\ k \in 0 .. MaxCount
  BY InvTypes DEF IInv, RingInv
<1>2. C[k] = ERXWRPT
  BY <1>1 DEF Ring
<1>3. \A j \in 0 .. k : \A n \in 0 .. j :
        Dist(C[n], ERXRDPT) <= Dist(C[j], ERXRDPT)
  BY <1>1, InvTypes, RingInOrder
<1>4. C[0] = next_packet_ptr
  BY InvTypes, NextCell, ChainSteps
<1>5. Start = C
  BY StartIsChain
<1> HIDE DEF C, k
<1>6. \A n \in 0 .. k : Dist(C[n], ERXRDPT) <= Dist(ERXWRPT, ERXRDPT)
  BY <1>1, <1>2, <1>3
<1>7. Dist(next_packet_ptr, ERXRDPT) <= Dist(ERXWRPT, ERXRDPT)
  BY <1>1, <1>4, <1>6
<1>8. QED BY <1>2, <1>5, <1>6, <1>7 DEF k

(* A byte that is read lies before the next packet.                        *)
LEMMA DataInUse ==
  ASSUME IInv, pc = "data", NEW i \in 0 .. data_length - 1
  PROVE  /\ (ERDPT + i) % RingLen \in Cells
         /\ Dist((ERDPT + i) % RingLen, ERXRDPT) = (ERDPT + i - ERXRDPT) % RingLen
         /\ Dist((ERDPT + i) % RingLen, ERXRDPT) < Dist(ERXWRPT, ERXRDPT)
<1> DEFINE d == Dist(ERDPT, ERXRDPT)
           n == Dist(next_packet_ptr, ERXRDPT)
           w == Dist(ERXWRPT, ERXRDPT)
<1>1. RXEN = 1 /\ d + data_length <= n
  BY DEF IInv, PcInv, RingInv
<1>2. n <= w
  BY <1>1, InUse
<1>3. /\ d \in Nat /\ n \in Nat /\ w \in Nat /\ w < RingLen
      /\ ERDPT \in Cells /\ ERXRDPT \in Cells
  BY InvTypes, DistNat
<1>4. data_length \in Nat
  BY InvTypes, EncAssumption
<1>5. i \in Nat /\ i < data_length
  BY <1>4
<1> HIDE DEF d, n, w
<1>6. d + i < w /\ d + i < RingLen
  BY <1>1, <1>2, <1>3, <1>4, <1>5, RingSize
<1>7. /\ Dist((ERDPT + i) % RingLen, ERXRDPT) = d + i
      /\ (ERDPT + i - ERXRDPT) % RingLen = d + i
      /\ (ERDPT + i) % RingLen \in Cells
  BY <1>3, <1>5, <1>6, DistAdd DEF d
<1>8. QED BY <1>6, <1>7 DEF w

(* The views of the ring agree, and nothing that waits or is being read    *)
(* is within the controller's reach (enc28j60.c:322-371).                  *)
THEOREM RingIsConsistent == Spec => []RingConsistent
<1>1. IInv => RingConsistent
  <2>1. SUFFICES ASSUME IInv, RXEN = 1
                 PROVE  /\ Start[Waiting] = ERXWRPT
                        /\ \A n \in 0 .. Waiting :
                             Dist(Start[n], ERXRDPT) <= Dist(ERXWRPT, ERXRDPT)
                        /\ pc = "data" => \A i \in 0 .. data_length - 1 :
                             (ERDPT + i - ERXRDPT) % RingLen
                               < Dist(ERXWRPT, ERXRDPT)
    BY DEF RingConsistent, Dist
  <2>2. ASSUME pc = "data", NEW i \in 0 .. data_length - 1
        PROVE  (ERDPT + i - ERXRDPT) % RingLen < Dist(ERXWRPT, ERXRDPT)
    BY <2>1, <2>2, DataInUse
  <2>3. QED BY <2>1, <2>2, InUse
<1>2. QED BY <1>1, InductiveInvariant, PTL
-----------------------------------------------------------------------------
(* The refinement: the frames that wait, read from any contents.           *)

Bytes(m, p, n) == [i \in 1 .. n |-> m[(p + i - 1) % RingLen].data]
TakenFrom(m, p) ==
  IF m[p].ok THEN Whole(Bytes(m, (p + 1) % RingLen, m[p].length - Crc))
             ELSE Nothing
Queued(m, p, k) == [n \in 1 .. k |-> TakenFrom(m, Chain(p, m)[n - 1])]
InTheHand(at, m, e, d) ==
  IF at = "data" THEN <<Whole(Bytes(m, e, d))>> ELSE <<>>

LEMMA QueueIs ==
  queue = InTheHand(pc, mem, ERDPT, data_length)
            \o Queued(mem, next_packet_ptr, Waiting)
BY StartIsChain
DEF queue, InTheHand, Queued, TakenFrom, FrameAt, Contents, Bytes

LEMMA QueueWillBe ==
  queue' = InTheHand(pc', mem', ERDPT', data_length')
             \o Queued(mem', next_packet_ptr', Waiting')
BY StartIsChain
DEF queue, InTheHand, Queued, TakenFrom, FrameAt, Contents, Bytes

Taken(m) == {TakenFrom(m, c) : c \in Cells}

LEMMA QueuedSeq ==
  ASSUME NEW m, Contained(m), NEW p \in Cells, NEW k \in 0 .. MaxCount,
         NEW S, Taken(m) \subseteq S
  PROVE  /\ Queued(m, p, k) \in Seq(S)
         /\ Len(Queued(m, p, k)) = k
         /\ \A n \in 1 .. k :
              Queued(m, p, k)[n] = TakenFrom(m, Chain(p, m)[n - 1])
<1> DEFINE C == Chain(p, m)
           q == [n \in 1 .. k |-> TakenFrom(m, C[n - 1])]
<1>1. \A n \in 0 .. MaxCount : C[n] \in Cells
  BY ChainSteps, NextCell
<1>2. k \in Nat /\ \A n \in 1 .. k : n - 1 \in 0 .. MaxCount
  BY RingSize
<1> HIDE DEF C
<1>3. \A n \in 1 .. k : TakenFrom(m, C[n - 1]) \in S
  BY <1>1, <1>2 DEF Taken
<1>4. q \in Seq(S) /\ Len(q) = k
  BY <1>2, <1>3
<1>5. Queued(m, p, k) = q
  BY DEF Queued, C
<1>6. QED BY <1>4, <1>5 DEF C

(* The first packet, and those behind it.                                  *)
LEMMA QueuedFirst ==
  ASSUME NEW m, Contained(m), NEW p \in Cells, NEW k \in 1 .. MaxCount
  PROVE  Queued(m, p, k) = <<TakenFrom(m, p)>> \o Queued(m, m[p].next, k - 1)
<1> DEFINE C == Chain(p, m)
           A == Chain(m[p].next, m)
           S == Taken(m)
           q == Queued(m, p, k)
           x == <<TakenFrom(m, p)>>
           t == Queued(m, m[p].next, k - 1)
<1>1. /\ m[p].next \in Cells
      /\ C[0] = p
      /\ \A n \in 0 .. MaxCount - 1 : A[n] = C[n + 1]
  BY NextCell, ChainSteps, ChainShift
<1>2. k - 1 \in 0 .. MaxCount /\ k \in 0 .. MaxCount /\ k \in Nat
  BY RingSize
<1>3. /\ q \in Seq(S) /\ Len(q) = k
      /\ \A n \in 1 .. k : q[n] = TakenFrom(m, C[n - 1])
  BY <1>2, QueuedSeq
<1>4. /\ t \in Seq(S) /\ Len(t) = k - 1
      /\ \A n \in 1 .. k - 1 : t[n] = TakenFrom(m, A[n - 1])
  BY <1>1, <1>2, QueuedSeq
<1>5. x \in Seq(S) /\ Len(x) = 1 /\ x[1] = TakenFrom(m, p)
  BY DEF Taken
<1> HIDE DEF A, C, q, x, t, S
<1>6. /\ x \o t \in Seq(S) /\ Len(x \o t) = Len(x) + Len(t)
      /\ \A n \in 1 .. Len(x) + Len(t) :
           (x \o t)[n] = IF n <= Len(x) THEN x[n] ELSE t[n - Len(x)]
  BY <1>4, <1>5, ConcatProperties
<1>7. Len(x \o t) = k
  BY <1>2, <1>4, <1>5, <1>6
<1>8. ASSUME NEW n \in 1 .. k PROVE q[n] = (x \o t)[n]
  <2>1. (x \o t)[n] = IF n <= 1 THEN x[n] ELSE t[n - 1]
    BY <1>2, <1>4, <1>5, <1>6
  <2>2. CASE n = 1
    BY <1>1, <1>3, <1>5, <2>1, <2>2
  <2>3. CASE n # 1
    <3>1. /\ n - 1 \in 1 .. k - 1 /\ ~(n <= 1) /\ (n - 1) - 1 \in 0 .. MaxCount - 1
          /\ ((n - 1) - 1) + 1 = n - 1
      BY <1>2, <2>3, RingSize
    <3>2. t[n - 1] = TakenFrom(m, A[(n - 1) - 1])
      BY <1>4, <3>1
    <3>3. A[(n - 1) - 1] = C[n - 1]
      BY <1>1, <3>1
    <3>4. QED BY <1>3, <2>1, <3>1, <3>2, <3>3
  <2>4. QED BY <2>2, <2>3
<1>9. q = x \o t
  BY <1>3, <1>6, <1>7, <1>8, SeqEqual
<1>10. QED BY <1>9 DEF q, x, t

(* Those before, and the last.                                             *)
LEMMA QueuedLast ==
  ASSUME NEW m, Contained(m), NEW p \in Cells, NEW k \in 0 .. MaxCount - 1
  PROVE  Queued(m, p, k + 1)
           = Append(Queued(m, p, k), TakenFrom(m, Chain(p, m)[k]))
<1> DEFINE C == Chain(p, m)
           S == Taken(m)
           q == Queued(m, p, k + 1)
           x == TakenFrom(m, C[k])
           t == Queued(m, p, k)
<1>1. \A n \in 0 .. MaxCount : C[n] \in Cells
  BY NextCell, ChainSteps
<1>2. k + 1 \in 0 .. MaxCount /\ k \in 0 .. MaxCount /\ k \in Nat
      /\ (k + 1) - 1 = k
  BY RingSize
<1>3. /\ q \in Seq(S) /\ Len(q) = k + 1
      /\ \A n \in 1 .. k + 1 : q[n] = TakenFrom(m, C[n - 1])
  BY <1>2, QueuedSeq
<1>4. /\ t \in Seq(S) /\ Len(t) = k
      /\ \A n \in 1 .. k : t[n] = TakenFrom(m, C[n - 1])
  BY <1>2, QueuedSeq
<1>5. x \in S
  <2> HIDE DEF C
  <2>1. QED BY <1>1, <1>2 DEF Taken
<1> HIDE DEF C, S, q, t
<1>6. x = TakenFrom(m, C[k])
  OBVIOUS
<1> HIDE DEF x
<1>7. /\ Append(t, x) \in Seq(S) /\ Len(Append(t, x)) = Len(t) + 1
      /\ \A n \in 1 .. Len(t) : Append(t, x)[n] = t[n]
      /\ Append(t, x)[Len(t) + 1] = x
  BY <1>4, <1>5, AppendProperties
<1>8. ASSUME NEW n \in 1 .. k + 1 PROVE q[n] = Append(t, x)[n]
  <2>1. CASE n = k + 1
    <3>1. n - 1 = k
      BY <1>2, <2>1
    <3>2. q[n] = TakenFrom(m, C[k])
      BY <1>3, <3>1
    <3>3. QED BY <1>4, <1>6, <1>7, <2>1, <3>2
  <2>2. CASE n # k + 1
    <3>1. n \in 1 .. k
      BY <1>2, <2>2
    <3>2. QED BY <1>3, <1>4, <1>7, <3>1
  <2>3. QED BY <2>1, <2>2
<1>9. q = Append(t, x)
  BY <1>3, <1>4, <1>7, <1>8, SeqEqual
<1>10. QED BY <1>9 DEF q, x, t, C

(* Bytes in use stay what they are.                                        *)
LEMMA BytesKept ==
  ASSUME NEW m, NEW l, NEW r \in Cells, NEW w \in Cells, Kept(l, m, r, w),
         NEW e \in Cells, NEW d \in Int,
         Dist(e, r) + d <= Dist(w, r)
  PROVE  Bytes(l, e, d) = Bytes(m, e, d)
<1>1. ASSUME NEW i \in 1 .. d
      PROVE  l[(e + i - 1) % RingLen] = m[(e + i - 1) % RingLen]
  <2> DEFINE c == (e + (i - 1)) % RingLen
  <2>1. /\ Dist(e, r) \in Nat /\ Dist(w, r) \in Nat /\ Dist(w, r) < RingLen
    BY DistNat
  <2>2. i - 1 \in Nat /\ Dist(e, r) + (i - 1) < Dist(w, r)
        /\ Dist(e, r) + (i - 1) < RingLen
    BY <2>1, RingSize
  <2>3. c \in Cells /\ Dist(c, r) = Dist(e, r) + (i - 1)
    BY <2>2, DistAdd
  <2> HIDE DEF c
  <2>4. l[c] = m[c]
    BY <2>2, <2>3 DEF Kept
  <2>5. e + i - 1 = e + (i - 1)
    BY RingSize DEF Cells
  <2>6. QED BY <2>4, <2>5 DEF c
<1>2. QED BY <1>1 DEF Bytes

(* So do the packets that wait.                                            *)
LEMMA QueuedKept ==
  ASSUME NEW m, Contained(m), NEW l, Contained(l),
         NEW p \in Cells, NEW r \in Cells, NEW w \in Cells,
         NEW k \in 0 .. MaxCount, Ring(m, p, r, w, k), Kept(l, m, r, w)
  PROVE  Queued(l, p, k) = Queued(m, p, k)
<1> DEFINE C == Chain(p, m)
           A == Chain(p, l)
<1>1. /\ \A n \in 0 .. k : A[n] = C[n]
      /\ \A n \in 0 .. k - 1 : l[C[n]] = m[C[n]]
  BY RingKept
<1>2. /\ \A n \in 0 .. MaxCount : C[n] \in Cells
      /\ C[k] = w
      /\ \A n \in 0 .. k - 1 :
           /\ m[C[n]].length \in 1 + Crc .. MaxFrame
           /\ Dist(C[n + 1], r) = Dist(C[n], r) + 1 + m[C[n]].length
  BY ChainSteps, NextCell DEF Ring
<1>3. \A j \in 0 .. k : \A n \in 0 .. j : Dist(C[n], r) <= Dist(C[j], r)
  BY RingInOrder
<1> HIDE DEF A, C
<1>4. ASSUME NEW n \in 0 .. k - 1 PROVE TakenFrom(l, A[n]) = TakenFrom(m, C[n])
  <2> DEFINE c == C[n]
             e == (c + 1) % RingLen
             length == m[c].length
  <2>1. A[n] = c /\ l[c] = m[c]
    <3>1. n \in 0 .. k
      BY RingSize
    <3>2. QED BY <1>1, <3>1
  <2>2. /\ c \in Cells /\ C[n + 1] \in Cells
        /\ length \in 1 + Crc .. MaxFrame
        /\ Dist(C[n + 1], r) = Dist(c, r) + 1 + length
        /\ Dist(C[n + 1], r) <= Dist(w, r)
    <3>1. n \in 0 .. MaxCount /\ n + 1 \in 0 .. MaxCount
          /\ k \in 0 .. k /\ n + 1 \in 0 .. k
      BY RingSize
    <3>2. QED BY <1>2, <1>3, <3>1
  <2> HIDE DEF c, length
  <2>3. length \in Int /\ length >= 2 /\ length - Crc = length - 1
    BY <2>2, EncAssumption DEF Crc
  <2>4. /\ Dist(c, r) \in Nat /\ Dist(w, r) \in Nat /\ Dist(w, r) < RingLen
        /\ Dist(C[n + 1], r) \in Nat
    BY <2>2, DistNat
  <2>5. Dist(c, r) + 1 < RingLen /\ 1 \in Nat
    BY <2>2, <2>3, <2>4, RingSize
  <2>6. e \in Cells /\ Dist(e, r) = Dist(c, r) + 1
    BY <2>2, <2>5, DistAdd
  <2> HIDE DEF e
  <2>7. Dist(e, r) + (length - Crc) <= Dist(w, r) /\ length - Crc \in Int
    BY <2>2, <2>3, <2>4, <2>6
  <2>8. Bytes(l, e, length - Crc) = Bytes(m, e, length - Crc)
    BY <2>6, <2>7, BytesKept
  <2>9. /\ TakenFrom(m, c) = IF m[c].ok THEN Whole(Bytes(m, e, length - Crc))
                             ELSE Nothing
        /\ TakenFrom(l, c) = IF m[c].ok THEN Whole(Bytes(l, e, length - Crc))
                             ELSE Nothing
    BY <2>1 DEF TakenFrom, e, length
  <2>10. TakenFrom(l, c) = TakenFrom(m, c)
    BY <2>8, <2>9
  <2>11. QED BY <2>1, <2>10 DEF c
<1>5. \A n \in 1 .. k : n - 1 \in 0 .. k - 1
  BY RingSize
<1>6. QED BY <1>4, <1>5 DEF Queued, A, C

(* Nothing, and a whole frame, read back from the ring.                    *)
LEMMA BytesOfNone == \A m, p : Bytes(m, p, 0) = <<>>
<1> SUFFICES ASSUME NEW m, NEW p PROVE Bytes(m, p, 0) = <<>>
  OBVIOUS
<1>1. Bytes(m, p, 0) = [i \in {} |-> m[(p + i - 1) % RingLen].data]
  BY DEF Bytes
<1>2. QED BY <1>1

LEMMA WholeOfNone == Whole(<<>>) = Nothing
BY DEF Whole

LEMMA WholeFrame ==
  ASSUME NEW f \in Network
  PROVE  Whole([i \in 1 .. f.len |-> f]) = f
<1> DEFINE data == [i \in 1 .. f.len |-> f]
<1>1. f.len \in Nat /\ f.len > 0
  BY EncAssumption
<1>2. data \in Seq(Network) /\ Len(data) = f.len /\ data[1] = f
  BY <1>1
<1>3. data # <<>>
  <2> HIDE DEF data
  <2>1. Len(<<>>) = 0
    OBVIOUS
  <2>2. QED BY <1>1, <1>2, <2>1
<1>4. \E g \in Network : data = [i \in 1 .. g.len |-> g]
  OBVIOUS
<1> HIDE DEF data
<1>5. Whole(data) = f
  BY <1>2, <1>3, <1>4 DEF Whole
<1>6. QED BY <1>5 DEF data

LEMMA NextButOne ==
  ASSUME NEW w \in Cells, NEW i \in 1 .. RingLen
  PROVE  (((w + 1) % RingLen) + i - 1) % RingLen = (w + i) % RingLen
<1>1. w \in Int /\ w >= 0 /\ w < RingLen /\ 1 \in 0 .. RingLen
      /\ i - 1 \in 0 .. RingLen /\ i - 1 \in Cells
  BY RingSize DEF Cells
<1>2. (w + 1) % RingLen = IF w + 1 < RingLen THEN w + 1 ELSE w + 1 - RingLen
  BY <1>1, AddIs
<1>3. CASE w + 1 < RingLen
  <2>1. (w + 1) + i - 1 = w + i
    BY <1>1
  <2>2. QED BY <1>2, <1>3, <2>1
<1>4. CASE ~(w + 1 < RingLen)
  <2>1. w = RingLen - 1 /\ (w + 1) % RingLen = 0
    BY <1>1, <1>2, <1>4, RingSize
  <2>2. w + i = (i - 1) + RingLen /\ 0 + i - 1 = (i - 1) + 0
    BY <1>1, <2>1, RingSize
  <2>3. RingLen \in 0 .. RingLen /\ 0 \in 0 .. RingLen
    BY RingSize
  <2>4. /\ ((i - 1) + RingLen) % RingLen = (i - 1) + RingLen - RingLen
        /\ ((i - 1) + 0) % RingLen = (i - 1) + 0
    BY <1>1, <2>3, AddIs, RingSize
  <2>5. (i - 1) + RingLen - RingLen = (i - 1) + 0
    BY <1>1, RingSize
  <2>6. QED BY <2>1, <2>2, <2>4, <2>5
<1>5. QED BY <1>3, <1>4

LEMMA AcceptedIsTaken ==
  ASSUME NEW f \in Network, NEW ok \in BOOLEAN, AcceptedCells(f, ok),
         ERXWRPT \in Cells
  PROVE  TakenFrom(mem', ERXWRPT) = IF ok THEN f ELSE Nothing
<1> DEFINE w == ERXWRPT
           l == mem'
           e == (w + 1) % RingLen
<1>1. /\ l[w].ok = ok /\ l[w].length = f.len + Crc
      /\ f.len + Crc \in 1 + Crc .. MaxFrame
      /\ \A i \in 1 .. f.len + Crc : l[(w + i) % RingLen] = Data(f)
  BY DEF AcceptedCells, Header
<1>2. f.len \in Nat /\ f.len > 0 /\ Crc = 1
  BY EncAssumption DEF Crc
<1> HIDE DEF l, w
<1>3. w \in Cells
  BY DEF w
<1>4. (f.len + Crc) - Crc = f.len
  BY <1>2
<1>5. ASSUME NEW i \in 1 .. f.len
      PROVE  l[(e + i - 1) % RingLen].data = f
  <2>1. i \in 1 .. f.len + Crc /\ i \in 1 .. RingLen
    BY <1>1, <1>2, EncAssumption
  <2>2. (e + i - 1) % RingLen = (w + i) % RingLen
    BY <1>3, <2>1, NextButOne
  <2>3. l[(w + i) % RingLen].data = f
    BY <1>1, <2>1 DEF Data
  <2>4. QED BY <2>2, <2>3
<1>6. Bytes(l, e, f.len) = [i \in 1 .. f.len |-> f]
  BY <1>5 DEF Bytes
<1>7. Whole(Bytes(l, e, f.len)) = f
  BY <1>6, WholeFrame
<1>8. TakenFrom(l, w) = IF ok THEN f ELSE Nothing
  BY <1>1, <1>4, <1>7 DEF TakenFrom
<1>9. QED BY <1>8 DEF l, w

(* Sequences with something put before, taken off, or put behind.          *)
LEMMA HandSeq ==
  ASSUME NEW S, NEW at, NEW m, NEW e, NEW d, Whole(Bytes(m, e, d)) \in S
  PROVE  InTheHand(at, m, e, d) \in Seq(S)
BY DEF InTheHand

LEMMA Pushed ==
  ASSUME NEW S, NEW x \in S, NEW t \in Seq(S)
  PROVE  /\ <<x>> \o t # <<>>
         /\ Head(<<x>> \o t) = x
         /\ Tail(<<x>> \o t) = t
<1> DEFINE h == <<x>>
           s == h \o t
<1>1. h \in Seq(S) /\ Len(h) = 1 /\ h[1] = x /\ Len(t) \in Nat
  OBVIOUS
<1> HIDE DEF h
<1>2. /\ s \in Seq(S) /\ Len(s) = Len(h) + Len(t)
      /\ \A i \in 1 .. Len(h) + Len(t) :
           s[i] = IF i <= Len(h) THEN h[i] ELSE t[i - Len(h)]
  BY <1>1, ConcatProperties
<1> HIDE DEF s
<1>3. s # <<>>
  <2>1. Len(<<>>) = 0
    OBVIOUS
  <2>2. QED BY <1>1, <1>2, <2>1
<1>4. s[1] = x
  BY <1>1, <1>2
<1>5. Head(s) = x
  BY <1>2, <1>3, <1>4
<1>6. /\ Tail(s) \in Seq(S) /\ Len(Tail(s)) = Len(s) - 1
      /\ \A i \in 1 .. Len(Tail(s)) : Tail(s)[i] = s[i + 1]
  BY <1>2, <1>3, HeadTailProperties
<1>7. Len(Tail(s)) = Len(t)
  BY <1>1, <1>2, <1>6
<1>8. ASSUME NEW i \in 1 .. Len(t) PROVE Tail(s)[i] = t[i]
  <2>1. /\ i + 1 \in 1 .. Len(h) + Len(t) /\ ~(i + 1 <= Len(h))
        /\ (i + 1) - Len(h) = i
    BY <1>1
  <2>2. QED BY <1>2, <1>6, <1>7, <2>1
<1>9. Tail(s) = t
  BY <1>6, <1>7, <1>8, SeqEqual
<1>10. QED BY <1>3, <1>5, <1>9 DEF s, h

LEMMA AppendBehind ==
  ASSUME NEW S, NEW s \in Seq(S), NEW t \in Seq(S), NEW x \in S
  PROVE  s \o Append(t, x) = Append(s \o t, x)
<1>1. s \o t \in Seq(S)
  BY ConcatProperties
<1>2. <<x>> \in Seq(S)
  OBVIOUS
<1>3. Append(t, x) = t \o <<x>> /\ Append(s \o t, x) = (s \o t) \o <<x>>
  BY <1>1, AppendIsConcat
<1>4. (s \o t) \o <<x>> = s \o (t \o <<x>>)
  BY <1>2, ConcatAssociative
<1>5. QED BY <1>3, <1>4

LEMMA NoneQueued == \A m, p : <<>> \o Queued(m, p, 0) = <<>>
<1> SUFFICES ASSUME NEW m, NEW p PROVE <<>> \o Queued(m, p, 0) = <<>>
  OBVIOUS
<1>1. Queued(m, p, 0) = [n \in {} |-> TakenFrom(m, Chain(p, m)[n - 1])]
  BY DEF Queued
<1>2. Queued(m, p, 0) = <<>>
  BY <1>1
<1>3. <<>> \in Seq({})
  OBVIOUS
<1>4. QED BY <1>2, <1>3, ConcatEmptySeq
-----------------------------------------------------------------------------
(* Each step is a step of the queue, or none.                              *)

Unseen == UNCHANGED <<queue, Whole(buf)>>

(* A step that changes neither the ring nor the place in it.               *)
LEMMA UnseenIs ==
  ASSUME UNCHANGED <<mem, next_packet_ptr, buf>>, Waiting' = Waiting,
         \/ pc' # "data" /\ pc # "data"
         \/ pc' = pc /\ UNCHANGED <<ERDPT, data_length>>
  PROVE  Unseen
<1>1. InTheHand(pc', mem', ERDPT', data_length')
        = InTheHand(pc, mem, ERDPT, data_length)
  BY DEF InTheHand
<1>2. Queued(mem', next_packet_ptr', Waiting')
        = Queued(mem, next_packet_ptr, Waiting)
  OBVIOUS
<1>3. queue' = queue
  BY <1>1, <1>2, QueueIs, QueueWillBe
<1>4. Whole(buf)' = Whole(buf)
  BY DEF Whole
<1>5. QED BY <1>3, <1>4 DEF Unseen

LEMMA AcceptQueues ==
  ASSUME IInv, RXEN = 1, NEW f \in Network, NEW ok \in BOOLEAN, Accept(f, ok),
         UNCHANGED <<driver, ERXRDPT, ERDPT, pc>>
  PROVE  queue' = Append(queue, IF ok THEN f ELSE Nothing)
<1> DEFINE w == ERXWRPT
           r == ERXRDPT
           p == next_packet_ptr
           k == Waiting
           l == mem'
           x == IF ok THEN f ELSE Nothing
           h == InTheHand(pc, mem, ERDPT, data_length)
           t == Queued(mem, p, k)
           b == Whole(Bytes(mem, ERDPT, data_length))
           S == Taken(mem) \cup {b, x}
<1>1. /\ w \in Cells /\ r \in Cells /\ p \in Cells /\ Contained(mem)
      /\ Ring(mem, p, r, w, k) /\ k \in 0 .. MaxCount /\ ERDPT \in Cells
      /\ data_length \in 0 .. MaxData
  BY InvTypes DEF IInv, RingInv
<1>2. /\ Ring(l, p, r, ERXWRPT', k + 1)
      /\ k + 1 \in 1 .. MaxCount
      /\ AcceptedCells(f, ok)
  BY AcceptKeepsRing
<1>3. k \in 0 .. MaxCount - 1
  BY <1>1, <1>2, RingSize
<1>4. Waiting' = k + 1
  <2>1. EPKTCNT' = EPKTCNT + 1 /\ EPKTCNT \in Int
    BY InvTypes DEF Accept
  <2>2. QED BY <2>1 DEF Waiting, InHand
<1>5. Contained(l) /\ Kept(l, mem, r, w)
  BY <1>2 DEF AcceptedCells
<1>6. InTheHand(pc', mem', ERDPT', data_length') = h
  <2>1. CASE pc = "data"
    <3>1. /\ Dist(ERDPT, r) + data_length <= Dist(p, r)
          /\ Dist(p, r) <= Dist(w, r)
      BY <2>1, InUse DEF IInv, RingInv
    <3>2. /\ Dist(ERDPT, r) \in Int /\ Dist(p, r) \in Int /\ Dist(w, r) \in Int
          /\ data_length \in Int
      BY <1>1, DistNat, EncAssumption
    <3>3. Dist(ERDPT, r) + data_length <= Dist(w, r)
      BY <3>1, <3>2
    <3>4. Bytes(l, ERDPT, data_length) = Bytes(mem, ERDPT, data_length)
      BY <1>1, <1>5, <3>2, <3>3, BytesKept
    <3>5. QED BY <3>4 DEF InTheHand, driver
  <2>2. CASE pc # "data"
    BY <2>2 DEF InTheHand, driver
  <2>3. QED BY <2>1, <2>2
<1>7. Queued(l, p, k) = t
  BY <1>1, <1>5, QueuedKept
<1>8. Chain(p, l)[k] = w
  <2>1. /\ \A n \in 0 .. k : Chain(p, l)[n] = Chain(p, mem)[n]
        /\ Chain(p, mem)[k] = w
    BY <1>1, <1>5, RingKept DEF Ring
  <2> HIDE DEF k, p, l, w
  <2>2. k \in 0 .. k
    BY <1>1
  <2>3. QED BY <2>1, <2>2
<1>9. TakenFrom(l, w) = x
  BY <1>1, <1>2, AcceptedIsTaken
<1> HIDE DEF l, w, x, p, r, k, t, h, b
<1>10. Queued(l, p, k + 1) = Append(t, x)
  BY <1>1, <1>3, <1>5, <1>7, <1>8, <1>9, QueuedLast
<1>11. h \in Seq(S) /\ t \in Seq(S) /\ x \in S
  <2>1. h \in Seq(S)
    <3>1. b \in S
      OBVIOUS
    <3> HIDE DEF S
    <3>2. QED BY <3>1, HandSeq DEF h, b
  <2>2. t \in Seq(S)
    <3>1. Taken(mem) \subseteq S
      OBVIOUS
    <3> HIDE DEF S
    <3>2. QED BY <1>1, <3>1, QueuedSeq DEF t
  <2>3. QED BY <2>1, <2>2
<1> HIDE DEF S
<1>12. h \o Append(t, x) = Append(h \o t, x)
  BY <1>11, AppendBehind
<1>13. queue = h \o t
  BY QueueIs DEF h, t, p, k
<1>14. queue' = h \o Append(t, x)
  <2>1. next_packet_ptr' = p
    BY DEF driver, p
  <2>2. queue' = InTheHand(pc', mem', ERDPT', data_length')
                   \o Queued(mem', next_packet_ptr', Waiting')
    BY QueueWillBe
  <2>3. Queued(mem', next_packet_ptr', Waiting') = Append(t, x)
    BY <1>4, <1>10, <2>1 DEF l
  <2>4. QED BY <1>6, <2>2, <2>3
<1>15. QED BY <1>12, <1>13, <1>14 DEF x

LEMMA DiscardUnseen ==
  ASSUME IInv, RXEN = 1, Discard, UNCHANGED <<driver, ERXRDPT, ERDPT, pc>>
  PROVE  Unseen
<1> DEFINE w == ERXWRPT
           r == ERXRDPT
           p == next_packet_ptr
           k == Waiting
<1>1. /\ w \in Cells /\ r \in Cells /\ p \in Cells /\ Contained(mem)
      /\ Ring(mem, p, r, w, k) /\ k \in 0 .. MaxCount /\ ERDPT \in Cells
      /\ data_length \in 0 .. MaxData
  BY InvTypes DEF IInv, RingInv
<1>2. Contained(mem') /\ Kept(mem', mem, r, w)
  BY <1>1, DiscardIs
<1>3. Waiting' = k
  BY DEF Discard, Waiting, InHand
<1>4. InTheHand(pc', mem', ERDPT', data_length')
        = InTheHand(pc, mem, ERDPT, data_length)
  <2>1. CASE pc = "data"
    <3>1. /\ Dist(ERDPT, r) + data_length <= Dist(p, r)
          /\ Dist(p, r) <= Dist(w, r)
      BY <2>1, InUse DEF IInv, RingInv
    <3>2. /\ Dist(ERDPT, r) \in Int /\ Dist(p, r) \in Int /\ Dist(w, r) \in Int
          /\ data_length \in Int
      BY <1>1, DistNat, EncAssumption
    <3>3. Dist(ERDPT, r) + data_length <= Dist(w, r)
      BY <3>1, <3>2
    <3>4. Bytes(mem', ERDPT, data_length) = Bytes(mem, ERDPT, data_length)
      BY <1>1, <1>2, <3>2, <3>3, BytesKept
    <3>5. QED BY <3>4 DEF InTheHand, driver
  <2>2. CASE pc # "data"
    BY <2>2 DEF InTheHand, driver
  <2>3. QED BY <2>1, <2>2
<1>5. Queued(mem', p, k) = Queued(mem, p, k)
  BY <1>1, <1>2, QueuedKept
<1>6. next_packet_ptr' = p /\ buf' = buf
  BY DEF driver
<1>7. queue' = queue
  BY <1>3, <1>4, <1>5, <1>6, QueueIs, QueueWillBe
<1>8. Whole(buf)' = Whole(buf)
  BY <1>6 DEF Whole
<1>9. QED BY <1>7, <1>8 DEF Unseen

(* Reading a header takes a packet from the ring into the hand.            *)
LEMMA HeaderUnseen == ASSUME IInv, ReadHeader PROVE Unseen
<1> DEFINE p == next_packet_ptr
           length == mem[p].length
           k == Waiting
           S == Taken(mem)
<1>1. HeaderRead(length)
  BY HeaderIsRead
<1>2. /\ p \in Cells /\ Contained(mem) /\ k \in 1 .. MaxCount
      /\ pc = "header" /\ pc' = "data" /\ mem' = mem /\ buf' = buf
  BY InvTypes DEF ReadHeader, receiver
<1>3. Queued(mem, p, k) = <<TakenFrom(mem, p)>> \o Queued(mem, mem[p].next, k - 1)
  BY <1>2, QueuedFirst
<1>4. InTheHand(pc', mem', ERDPT', data_length') = <<TakenFrom(mem, p)>>
  <2>1. ERDPT' = (p + 1) % RingLen
        /\ data_length' = IF mem[p].ok THEN length - Crc ELSE 0
    BY <1>1 DEF HeaderRead
  <2>2. CASE mem[p].ok
    BY <1>2, <2>1, <2>2 DEF InTheHand, TakenFrom
  <2>3. CASE ~mem[p].ok
    BY <1>2, <2>1, <2>3, BytesOfNone, WholeOfNone DEF InTheHand, TakenFrom
  <2>4. QED BY <2>2, <2>3
<1>5. Waiting' = k - 1 /\ next_packet_ptr' = mem[p].next
  BY <1>1 DEF HeaderRead
<1>6. queue' = Queued(mem, p, k)
  BY <1>2, <1>3, <1>4, <1>5, QueueWillBe
<1>7. queue = Queued(mem, p, k)
  <2>1. queue = <<>> \o Queued(mem, p, k)
    BY <1>2, QueueIs DEF InTheHand
  <2>2. Queued(mem, p, k) \in Seq(S)
    BY <1>2, QueuedSeq, RingSize
  <2> HIDE DEF S, p, k
  <2>3. QED BY <2>1, <2>2, ConcatEmptySeq
<1>8. Whole(buf)' = Whole(buf)
  BY <1>2 DEF Whole
<1>9. QED BY <1>6, <1>7, <1>8 DEF Unseen

(* Reading the data hands over the oldest.                                 *)
LEMMA DataReceived == ASSUME IInv, ReadData PROVE FQ!Receive
<1> DEFINE t == Queued(mem, next_packet_ptr, Waiting)
           x == Whole(Bytes(mem, ERDPT, data_length))
           S == Taken(mem) \cup {x}
<1>1. /\ pc = "data" /\ pc' = "free" /\ mem' = mem
      /\ buf' = Bytes(mem, ERDPT, data_length)
      /\ next_packet_ptr' = next_packet_ptr /\ EPKTCNT' = EPKTCNT
  BY DEF ReadData, receiver, Bytes
<1>2. Waiting' = Waiting
  BY <1>1 DEF Waiting, InHand
<1>3. t \in Seq(S) /\ x \in S
  <2>1. RXEN = 1
    BY <1>1 DEF IInv, PcInv
  <2>2. Taken(mem) \subseteq S
    OBVIOUS
  <2> HIDE DEF S, x
  <2>3. t \in Seq(S)
    BY <2>1, <2>2, InvTypes, QueuedSeq
  <2>4. x \in S
    BY DEF S
  <2>5. QED BY <2>3, <2>4
<1>4. queue = <<x>> \o t
  BY <1>1, QueueIs DEF InTheHand
<1>5. queue' = <<>> \o t
  BY <1>1, <1>2, QueueWillBe DEF InTheHand
<1>6. Whole(buf)' = x
  BY <1>1 DEF Whole
<1> HIDE DEF t, x, S
<1>7. queue' = t
  BY <1>3, <1>5, ConcatEmptySeq
<1>8. queue # <<>> /\ Head(queue) = x /\ Tail(queue) = t
  BY <1>3, <1>4, Pushed
<1>9. QED BY <1>6, <1>7, <1>8 DEF FQ!Receive

(* A call that finds no packet finds no frame in the queue.                *)
LEMMA PollReceives == ASSUME IInv, Poll PROVE FQ!ReceiveNothing \/ Unseen
<1>1. /\ BankKnown /\ pc = "poll" /\ Select(1) /\ mem' = mem
      /\ next_packet_ptr' = next_packet_ptr /\ EPKTCNT' = EPKTCNT
  BY DEF IInv, Poll, receiver
<1>2. Reached(1)
  BY <1>1, SelectReaches
<1>3. \/ EPKTCNT = 0 /\ buf' = <<>> /\ pc' = pc
      \/ EPKTCNT # 0 /\ pc' = "pointer" /\ buf' = buf
  BY <1>2 DEF Poll
<1>4. Waiting' = Waiting /\ Waiting = EPKTCNT /\ pc' # "data"
  BY <1>1, <1>3 DEF Waiting, InHand
<1>5. queue' = queue
  BY <1>1, <1>4, QueueIs, QueueWillBe DEF InTheHand
<1>6. CASE EPKTCNT = 0
  <2>1. queue = <<>>
    BY <1>1, <1>4, <1>6, QueueIs, NoneQueued DEF InTheHand
  <2>2. buf' = <<>>
    BY <1>3, <1>6
  <2>3. Whole(buf)' = Nothing
    BY <2>2 DEF Whole
  <2>4. QED BY <1>5, <2>1, <2>3 DEF FQ!ReceiveNothing
<1>7. CASE EPKTCNT # 0
  <2>1. buf' = buf
    BY <1>3, <1>7
  <2>2. Whole(buf)' = Whole(buf)
    BY <2>1 DEF Whole
  <2>3. QED BY <1>5, <2>2 DEF Unseen
<1>8. QED BY <1>6, <1>7

LEMMA ResetRestarts == ASSUME Reset PROVE FQ!Restart
<1>1. pc' = "reset" /\ EPKTCNT' = 0 /\ buf' = <<>>
  BY DEF Reset, ClearHost, ResetController
<1>2. Waiting' = 0 /\ pc' # "data"
  BY <1>1 DEF Waiting, InHand
<1>3. queue' = <<>>
  BY <1>2, QueueWillBe, NoneQueued DEF InTheHand
<1>4. Whole(buf)' = Nothing
  BY <1>1 DEF Whole
<1>5. QED BY <1>3, <1>4 DEF FQ!Restart

(* The set-up leaves an empty queue empty.                                 *)
LEMMA SetUpUnseen == ASSUME IInv, SetUp PROVE Unseen
<1>1. /\ pc = "reset" /\ pc' = "poll" /\ EPKTCNT = 0 /\ EPKTCNT' = 0
      /\ buf' = buf
  BY DEF IInv, PcInv, SetUp
<1>2. Waiting = 0 /\ Waiting' = 0 /\ pc # "data" /\ pc' # "data"
  BY <1>1 DEF Waiting, InHand
<1>3. queue = <<>> /\ queue' = <<>>
  BY <1>2, QueueIs, QueueWillBe, NoneQueued DEF InTheHand
<1>4. Whole(buf)' = Whole(buf)
  BY <1>1 DEF Whole
<1>5. QED BY <1>3, <1>4 DEF Unseen

LEMMA ArriveQueues == ASSUME IInv, Arrive PROVE FQ!Arrive \/ Unseen
<1>1. RXEN = 1 /\ UNCHANGED <<driver, ERXRDPT, ERDPT, pc>>
  BY DEF Arrive
<1>2. ASSUME NEW f \in Network, NEW ok \in BOOLEAN, Accept(f, ok)
      PROVE  FQ!Arrive
  <2> DEFINE x == IF ok THEN f ELSE Nothing
  <2>1. queue' = Append(queue, x)
    BY <1>1, <1>2, AcceptQueues
  <2>2. Passes(f)
    BY <1>2 DEF Accept
  <2>3. x \in {g \in Network : Passes(g)} \cup {Nothing}
    BY <2>2
  <2>4. buf' = buf
    BY <1>1 DEF driver
  <2>5. Whole(buf)' = Whole(buf)
    BY <2>4 DEF Whole
  <2> HIDE DEF x
  <2>6. QED BY <2>1, <2>3, <2>5 DEF FQ!Arrive
<1>3. CASE Discard
  BY <1>1, <1>3, DiscardUnseen
<1>4. QED BY <1>2, <1>3 DEF Arrive

LEMMA QueueInit == Init => FQ!Init
<1> SUFFICES ASSUME Init PROVE FQ!Init
  OBVIOUS
<1>1. Waiting = 0 /\ pc # "data" /\ buf = <<>>
  BY DEF Init, Waiting, InHand
<1>2. queue = <<>>
  BY <1>1, QueueIs, NoneQueued DEF InTheHand
<1>3. Whole(buf) = Nothing
  BY <1>1, WholeOfNone
<1>4. QED BY <1>2, <1>3 DEF FQ!Init

LEMMA QueueNext == IInv /\ [Next]_vars => [FQ!Next]_(FQ!vars)
<1> SUFFICES ASSUME IInv, [Next]_vars PROVE FQ!Next \/ Unseen
  BY DEF FQ!vars, Unseen
<1>1. CASE SetUp
  BY <1>1, SetUpUnseen
<1>2. CASE Poll
  BY <1>2, PollReceives DEF FQ!Next
<1>3. CASE SetReadPointer
  <2>1. Waiting' = Waiting
    BY <1>3 DEF SetReadPointer, receiver, Waiting, InHand
  <2>2. QED BY <1>3, <2>1, UnseenIs DEF SetReadPointer, receiver, driver
<1>4. CASE ReadHeader
  BY <1>4, HeaderUnseen
<1>5. CASE ReadData
  BY <1>5, DataReceived DEF FQ!Next
<1>6. CASE FreeSpace
  <2>1. Waiting' = Waiting
    BY <1>6 DEF FreeSpace, Waiting, InHand
  <2>2. QED BY <1>6, <2>1, UnseenIs DEF FreeSpace, driver
<1>7. CASE Done
  <2>1. Waiting' = Waiting
    BY <1>7 DEF Done, Waiting, InHand
  <2>2. QED BY <1>7, <2>1, UnseenIs DEF Done, driver
<1>8. CASE Send
  <2>1. Waiting' = Waiting
    BY <1>8 DEF Send, receiver, Waiting, InHand
  <2>2. QED BY <1>8, <2>1, UnseenIs DEF Send, receiver
<1>9. CASE CheckError
  <2>1. Waiting' = Waiting
    BY <1>9 DEF CheckError, receiver, Waiting, InHand
  <2>2. QED BY <1>9, <2>1, UnseenIs DEF CheckError, receiver, driver
<1>10. CASE Arrive
  BY <1>10, ArriveQueues DEF FQ!Next
<1>11. CASE Transmit
  <2>1. Waiting' = Waiting
    BY <1>11 DEF Transmit, receiver, Waiting, InHand
  <2>2. QED BY <1>11, <2>1, UnseenIs DEF Transmit, receiver, driver
<1>12. CASE Reset
  BY <1>12, ResetRestarts DEF FQ!Next
<1>13. CASE UNCHANGED vars
  <2>1. Waiting' = Waiting
    BY <1>13 DEF vars, receiver, Waiting, InHand
  <2>2. QED BY <1>13, <2>1, UnseenIs DEF vars, receiver, driver
<1>14. QED BY <1>1, <1>2, <1>3, <1>4, <1>5, <1>6, <1>7, <1>8, <1>9, <1>10,
              <1>11, <1>12, <1>13 DEF Next, Driver

(* Driver and controller together are a queue: every frame accepted is     *)
(* handed over whole, once and in order, whatever arrives in between and   *)
(* however the ring turns, and nothing else ever is (enc28j60.c:312-374).  *)
THEOREM QueueSteps == Spec => FQ!Init /\ [][FQ!Next]_(FQ!vars)
BY QueueInit, QueueNext, InductiveInvariant, PTL DEF Spec
=============================================================================
