---------------------------- MODULE ServerProofs ----------------------------
(***************************************************************************)
(* Proofs about ServerProcess and the numbers of TcpReply, for any hosts,  *)
(* addresses and requests, any width and base of a sequence number and any *)
(* lengths of the parts of a page.                                         *)
(***************************************************************************)
EXTENDS ServerProcess, Functions, FiniteSetTheorems, WellFoundedInduction,
        TLAPS
-----------------------------------------------------------------------------
(* What the proofs need of recursive functions.  A function defined by     *)
(* f[x \in D] == ... is a CHOOSE: that it satisfies its equation has to be *)
(* shown, and follows from the existence of some function that does.  The  *)
(* same for SumFunction, which adds up in an order nobody has fixed.       *)

(* A nonempty set of naturals has a least element.                         *)
LEMMA LeastNat ==
  ASSUME NEW T \in SUBSET Nat, T # {}
  PROVE  \E n \in T : \A m \in T : n <= m
<1> DEFINE R == OpToRel(<, Nat)
<1>1. IsWellFoundedOn(R, Nat)
  BY NatLessThanWellFounded
<1>2. \A n, m \in Nat : m < n => <<m, n>> \in R
  BY DEF OpToRel
<1> HIDE DEF R
<1>3. PICK n \in T : \A m \in T : ~ (<<m, n>> \in R)
  <2>1. T \subseteq Nat
    OBVIOUS
  <2>2. QED BY <1>1, <2>1, WFMin, Zenon
<1>4. ASSUME NEW m \in T PROVE n <= m
  <2>1. ~(m < n)
    BY <1>2, <1>3
  <2>2. QED BY <2>1
<1>5. QED BY <1>4

(* Induction over the naturals, for a set instead of a predicate.          *)
LEMMA NatInd ==
  ASSUME NEW S, 0 \in S, \A n \in Nat : n \in S => n + 1 \in S
  PROVE  Nat \subseteq S
<1> DEFINE T == Nat \ S
<1>1. SUFFICES ASSUME T # {} PROVE FALSE
  OBVIOUS
<1>2. PICK n \in T : \A m \in T : n <= m
  BY <1>1, LeastNat
<1>3. n # 0 /\ n - 1 \in Nat /\ n - 1 \notin T
  BY <1>2
<1>4. QED BY <1>2, <1>3

(* So does a nonempty set whose elements have a size.                      *)
LEMMA Least ==
  ASSUME NEW D, NEW size \in [D -> Nat], NEW T \in SUBSET D, T # {}
  PROVE  \E x \in T : \A y \in T : size[x] <= size[y]
<1> DEFINE N == {size[x] : x \in T}
<1>1. N \in SUBSET Nat /\ N # {}
  OBVIOUS
<1>2. PICK n \in N : \A m \in N : n <= m
  BY <1>1, LeastNat
<1>3. QED BY <1>2

(* f is to be val on the elements of base; anywhere else it is op of its   *)
(* value one step on, where the size is smaller.                           *)
Recurs(D, V, size, base, val, step, op) ==
  /\ size \in [D -> Nat] /\ base \in SUBSET D
  /\ val \in [D -> V] /\ step \in [D -> D] /\ op \in [D -> [V -> V]]
  /\ \A x \in D \ base : size[step[x]] < size[x]

Solves(f, D, V, base, val, step, op) ==
  /\ f \in [D -> V]
  /\ \A x \in D : f[x] = IF x \in base THEN val[x] ELSE op[x][f[step[x]]]

(* There is such a function: on the elements of size up to any given one   *)
(* it exists and is unique, so that its value at each element may be taken *)
(* from any function that goes so far.                                     *)
LEMMA RecursiveFunction ==
  ASSUME NEW D, NEW V, NEW size, NEW base, NEW val, NEW step, NEW op,
         Recurs(D, V, size, base, val, step, op)
  PROVE  \E f : Solves(f, D, V, base, val, step, op)
<1>0. /\ size \in [D -> Nat] /\ base \in SUBSET D
      /\ val \in [D -> V] /\ step \in [D -> D] /\ op \in [D -> [V -> V]]
      /\ \A x \in D \ base : size[step[x]] < size[x]
  BY DEF Recurs
<1> USE <1>0
<1> DEFINE Upto(x) == {y \in D : size[y] <= size[x]}
           Good(g, x) == \A y \in Upto(x) :
             g[y] = IF y \in base THEN val[y] ELSE op[y][g[step[y]]]
           Part(x) == {g \in [D -> V] : Good(g, x)}
           T == {x \in D : Part(x) = {}}
<1>1. ASSUME NEW x \in D, NEW y \in Upto(x), y \notin base
      PROVE  step[y] \in Upto(x)
  <2>1. size[y] \in Nat /\ size[x] \in Nat /\ size[step[y]] \in Nat
    OBVIOUS
  <2>2. QED BY <1>1, <2>1
(* Two such functions agree as far as both go.                             *)
<1>2. ASSUME NEW x \in D, NEW z \in D, size[x] <= size[z],
             NEW g \in Part(x), NEW h \in Part(z)
      PROVE  \A y \in Upto(x) : g[y] = h[y]
  <2> DEFINE B == {y \in Upto(x) : g[y] # h[y]}
  <2>1. SUFFICES ASSUME B # {} PROVE FALSE
    OBVIOUS
  <2>2. PICK y \in B : \A w \in B : size[y] <= size[w]
    <3>1. B \in SUBSET D
      OBVIOUS
    <3> HIDE DEF B
    <3>2. QED BY <2>1, <3>1, Least
  <2>3. y \in Upto(x) /\ y \in Upto(z)
    <3>1. size[x] \in Nat /\ size[z] \in Nat /\ size[y] \in Nat
      OBVIOUS
    <3>2. QED BY <1>2, <3>1
  <2>4. /\ g[y] = IF y \in base THEN val[y] ELSE op[y][g[step[y]]]
        /\ h[y] = IF y \in base THEN val[y] ELSE op[y][h[step[y]]]
    BY <2>3
  <2>5. y \notin base
    BY <2>4
  <2>6. step[y] \in Upto(x) /\ step[y] \notin B
    <3>1. size[step[y]] < size[y] /\ size[y] \in Nat /\ size[step[y]] \in Nat
      BY <2>5
    <3>2. QED BY <1>1, <2>2, <2>3, <2>5, <3>1
  <2>7. QED BY <2>2, <2>4, <2>6
<1>3. T = {}
  <2>1. SUFFICES ASSUME T # {} PROVE FALSE
    OBVIOUS
  <2>2. PICK x \in T : \A y \in T : size[x] <= size[y]
    <3>1. T \in SUBSET D
      OBVIOUS
    <3> HIDE DEF T
    <3>2. QED BY <2>1, <3>1, Least
  <2> DEFINE Below == {y \in D : size[y] < size[x]}
             pick == [y \in Below |-> CHOOSE g \in Part(y) : TRUE]
             low  == [y \in Below |-> pick[y][y]]
             f == [y \in D |-> IF y \in base THEN val[y]
                               ELSE IF step[y] \in Below THEN op[y][low[step[y]]]
                               ELSE val[y]]
  <2>3. ASSUME NEW y \in Below PROVE pick[y] \in Part(y)
    <3>1. y \notin T
      <4>1. size[x] \in Nat /\ size[y] \in Nat
        OBVIOUS
      <4>2. size[y] < size[x]
        OBVIOUS
      <4> HIDE DEF T
      <4>3. QED BY <2>2, <4>1, <4>2
    <3>2. Part(y) # {}
      BY <3>1
    <3> HIDE DEF Part
    <3>3. QED BY <3>2
  <2>4. \A y \in Below : low[y] \in V
    BY <2>3
  <2>5. f \in [D -> V]
    <3> HIDE DEF Below, low
    <3>1. QED BY <2>4
  <2>6. ASSUME NEW y \in Below
        PROVE  f[y] = low[y]
    <3>1. pick[y] \in Part(y) /\ y \in Upto(y)
      <4>1. y \in D /\ size[y] \in Nat
        OBVIOUS
      <4>2. y \in Upto(y)
        BY <4>1
      <4>3. QED BY <2>3, <4>2
    <3>2. low[y] = IF y \in base THEN val[y] ELSE op[y][pick[y][step[y]]]
      BY <3>1
    <3>3. CASE y \in base
      BY <3>2, <3>3
    <3>4. CASE y \notin base
      <4>1. /\ step[y] \in D /\ size[step[y]] < size[y]
            /\ size[y] \in Nat /\ size[step[y]] \in Nat /\ size[x] \in Nat
            /\ size[y] < size[x]
        BY <3>4
      <4>2. step[y] \in Below
        BY <4>1
      <4>3. pick[step[y]] \in Part(step[y])
        BY <2>3, <4>2
      <4>4. step[y] \in Upto(step[y])
        BY <4>1
      <4>5. size[step[y]] <= size[y]
        BY <4>1
      <4>6. pick[step[y]][step[y]] = pick[y][step[y]]
        <5> HIDE DEF Part, Upto, pick
        <5>1. QED BY <1>2, <3>1, <4>1, <4>3, <4>4, <4>5
      <4>7. f[y] = op[y][low[step[y]]]
        BY <3>4, <4>2
      <4>8. QED BY <3>2, <3>4, <4>2, <4>6, <4>7
    <3>5. QED BY <3>3, <3>4
  <2>7. ASSUME NEW y \in Upto(x)
        PROVE  f[y] = IF y \in base THEN val[y] ELSE op[y][f[step[y]]]
    <3>1. CASE y \in base
      BY <3>1
    <3>2. CASE y \notin base
      <4>1. /\ step[y] \in D /\ size[step[y]] < size[y]
            /\ size[y] \in Nat /\ size[step[y]] \in Nat /\ size[x] \in Nat
            /\ size[y] <= size[x]
        BY <3>2
      <4>2. step[y] \in Below
        BY <4>1
      <4>3. f[step[y]] = low[step[y]]
        BY <2>6, <4>2
      <4> HIDE DEF low
      <4>4. QED BY <3>2, <4>2, <4>3
    <3>3. QED BY <3>1, <3>2
  <2>8. f \in Part(x)
    <3> HIDE DEF f
    <3>1. QED BY <2>5, <2>7
  <2>9. QED BY <2>2, <2>8
<1> DEFINE pick == [x \in D |-> CHOOSE g \in Part(x) : TRUE]
           F == [x \in D |-> pick[x][x]]
<1>4. \A x \in D : pick[x] \in Part(x)
  <2>1. \A x \in D : Part(x) # {}
    BY <1>3
  <2> HIDE DEF Part
  <2>2. QED BY <2>1
<1>5. F \in [D -> V]
  BY <1>4
<1>6. ASSUME NEW x \in D
      PROVE  F[x] = IF x \in base THEN val[x] ELSE op[x][F[step[x]]]
  <2>1. pick[x] \in Part(x) /\ x \in Upto(x)
    <3>1. size[x] \in Nat
      OBVIOUS
    <3>2. x \in Upto(x)
      BY <3>1
    <3>3. QED BY <1>4, <3>2
  <2>2. pick[x][x] = IF x \in base THEN val[x] ELSE op[x][pick[x][step[x]]]
    BY <2>1
  <2>3. CASE x \in base
    BY <2>2, <2>3
  <2>4. CASE x \notin base
    <3>1. /\ step[x] \in D /\ size[step[x]] <= size[x]
          /\ step[x] \in Upto(step[x])
      <4>1. size[step[x]] < size[x] /\ size[x] \in Nat /\ size[step[x]] \in Nat
        BY <2>4
      <4>2. QED BY <4>1
    <3>2. pick[step[x]] \in Part(step[x])
      BY <1>4, <3>1
    <3>3. pick[step[x]][step[x]] = pick[x][step[x]]
      <4> HIDE DEF Part, Upto, pick
      <4>1. QED BY <1>2, <2>1, <3>1, <3>2
    <3>4. F[x] = pick[x][x] /\ F[step[x]] = pick[step[x]][step[x]]
      BY <3>1
    <3> HIDE DEF pick, F
    <3>5. QED BY <2>2, <2>4, <3>3, <3>4
  <2>5. QED BY <2>3, <2>4
<1> HIDE DEF F
<1>7. QED BY <1>5, <1>6 DEF Solves
-----------------------------------------------------------------------------
(* The order in which the elements of a set are added up, and the sum of   *)
(* a function over a set by one element after the other.                   *)
Some(s) == CHOOSE x \in s : TRUE
SumsUp(sum, f, S) ==
  sum = [s \in SUBSET S |-> IF s = {} THEN 0 ELSE f[Some(s)] + sum[s \ {Some(s)}]]
Sums(f, S) == CHOOSE sum : SumsUp(sum, f, S)

(* It is what SumFunction is made of.                                      *)
LEMMA SumIsLast ==
  ASSUME NEW f, NEW S PROVE SumFunctionOnSet(f, S) = Sums(f, S)[S]
BY DEF SumFunctionOnSet, FoldFunctionOnSet, MapThenFoldSet, Sums, SumsUp, Some

(* A set less an element is smaller.                                       *)
LEMMA SomeSmaller ==
  ASSUME NEW S, IsFiniteSet(S), NEW s \in SUBSET S, s # {}, NEW x \in s
  PROVE  /\ Some(s) \in s
         /\ Cardinality(s) \in Nat /\ Cardinality(s \ {x}) \in Nat
         /\ Cardinality(s \ {x}) < Cardinality(s)
<1>1. Some(s) \in s
  BY DEF Some
<1>2. IsFiniteSet(s)
  BY FS_Subset
<1>3. Cardinality(s \ {x}) = Cardinality(s) - 1 /\ Cardinality(s) \in Nat
  BY <1>2, FS_RemoveElement, FS_CardinalityType
<1>4. Cardinality(s \ {x}) \in Nat
  BY <1>2, FS_Subset, FS_CardinalityType
<1>5. QED BY <1>1, <1>3, <1>4

(* Induction over the subsets of a finite set.                             *)
LEMMA SubsetInduction ==
  ASSUME NEW S, IsFiniteSet(S), NEW T \in SUBSET SUBSET S,
         \A s \in SUBSET S : (\A x \in s : s \ {x} \in T) => s \in T
  PROVE  SUBSET S \subseteq T
<1> DEFINE D == SUBSET S
           size == [s \in D |-> Cardinality(s)]
           U == D \ T
<1>1. SUFFICES ASSUME U # {} PROVE FALSE
  OBVIOUS
<1>2. size \in [D -> Nat]
  BY FS_Subset, FS_CardinalityType
<1>3. PICK s \in U : \A r \in U : size[s] <= size[r]
  <2>1. U \in SUBSET D
    OBVIOUS
  <2> HIDE DEF U, D, size
  <2>2. QED BY <1>1, <1>2, <2>1, Least
<1>4. ASSUME NEW x \in s PROVE s \ {x} \in T
  <2>1. Cardinality(s \ {x}) < Cardinality(s)
    BY SomeSmaller
  <2>2. s \in D /\ s \ {x} \in D
    OBVIOUS
  <2>3. size[s \ {x}] < size[s] /\ size[s] \in Nat /\ size[s \ {x}] \in Nat
    BY <1>2, <2>1, <2>2
  <2>4. ~(size[s] <= size[s \ {x}])
    <3> HIDE DEF size
    <3>1. QED BY <2>3
  <2>5. s \ {x} \notin U
    <3> HIDE DEF size, U
    <3>1. QED BY <1>3, <2>4
  <2>6. QED BY <2>2, <2>5
<1>5. QED BY <1>3, <1>4

(* The sums over the subsets of a finite set are naturals, and add up.     *)
LEMMA SumSteps ==
  ASSUME NEW S, IsFiniteSet(S), NEW f, \A x \in S : f[x] \in Nat
  PROVE  /\ Sums(f, S) \in [SUBSET S -> Nat]
         /\ \A s \in SUBSET S : Sums(f, S)[s] =
              IF s = {} THEN 0 ELSE f[Some(s)] + Sums(f, S)[s \ {Some(s)}]
<1> DEFINE D == SUBSET S
           size == [s \in D |-> Cardinality(s)]
           base == {{}}
           val  == [s \in D |-> 0]
           step == [s \in D |-> s \ {Some(s)}]
           op   == [s \in D |-> [v \in Nat |-> IF s = {} THEN 0 ELSE f[Some(s)] + v]]
<1>1. \A s \in D \ {{}} : Some(s) \in s /\ Some(s) \in S /\ f[Some(s)] \in Nat
  BY DEF Some
<1>2. Recurs(D, Nat, size, base, val, step, op)
  <2>1. size \in [D -> Nat]
    BY FS_Subset, FS_CardinalityType
  <2>2. ASSUME NEW s \in D \ base PROVE size[step[s]] < size[s]
    <3>1. Cardinality(s \ {Some(s)}) < Cardinality(s)
      BY <1>1, SomeSmaller
    <3>2. s \in D /\ s \ {Some(s)} \in D
      OBVIOUS
    <3> HIDE DEF D
    <3>3. QED BY <3>1, <3>2
  <2>3. step \in [D -> D]
    OBVIOUS
  <2>4. op \in [D -> [Nat -> Nat]]
    BY <1>1
  <2>5. base \in SUBSET D /\ val \in [D -> Nat]
    OBVIOUS
  <2> HIDE DEF size, base, val, step, op, D
  <2>6. QED BY <2>1, <2>2, <2>3, <2>4, <2>5 DEF Recurs
<1>3. PICK g : Solves(g, D, Nat, base, val, step, op)
  <2> HIDE DEF size, base, val, step, op, D
  <2>1. QED BY <1>2, RecursiveFunction
<1>4. g \in [D -> Nat]
  BY <1>3 DEF Solves
<1>5. ASSUME NEW s \in D
      PROVE  g[s] = IF s = {} THEN 0 ELSE f[Some(s)] + g[s \ {Some(s)}]
  <2>1. g[s] = IF s \in base THEN val[s] ELSE op[s][g[step[s]]]
    BY <1>3 DEF Solves
  <2>2. g[step[s]] \in Nat /\ step[s] = s \ {Some(s)}
    BY <1>4
  <2>3. op[s][g[step[s]]] = IF s = {} THEN 0 ELSE f[Some(s)] + g[step[s]]
    <3> HIDE DEF step, D
    <3>1. QED BY <2>2
  <2>4. val[s] = 0 /\ (s \in base <=> s = {})
    OBVIOUS
  <2> HIDE DEF step, val, op, base, D
  <2>5. QED BY <2>1, <2>2, <2>3, <2>4
<1>6. SumsUp(g, f, S)
  BY <1>4, <1>5 DEF SumsUp
<1>7. SumsUp(Sums(f, S), f, S)
  BY <1>6 DEF Sums
<1>8. \A s \in D : Sums(f, S)[s] =
        IF s = {} THEN 0 ELSE f[Some(s)] + Sums(f, S)[s \ {Some(s)}]
  BY <1>7 DEF SumsUp
<1>9. \A s \in D : Sums(f, S)[s] \in Nat
  <2> DEFINE T == {s \in D : Sums(f, S)[s] \in Nat}
  <2>1. ASSUME NEW s \in D, \A x \in s : s \ {x} \in T PROVE s \in T
    <3>1. Sums(f, S)[s] =
            IF s = {} THEN 0 ELSE f[Some(s)] + Sums(f, S)[s \ {Some(s)}]
      BY <1>8
    <3>2. ASSUME s # {}
          PROVE  f[Some(s)] \in Nat /\ Sums(f, S)[s \ {Some(s)}] \in Nat
      <4>1. Some(s) \in s /\ f[Some(s)] \in Nat
        BY <1>1, <3>2
      <4>2. QED BY <2>1, <4>1
    <3>3. Sums(f, S)[s] \in Nat
      <4> HIDE DEF T, D
      <4>1. CASE s = {} BY <3>1, <4>1
      <4>2. CASE s # {} BY <3>1, <3>2, <4>2
      <4>3. QED BY <4>1, <4>2
    <3>4. QED BY <3>3
  <2>2. T \in SUBSET SUBSET S
    OBVIOUS
  <2>3. SUBSET S \subseteq T
    <3> HIDE DEF T
    <3>1. QED BY <2>1, <2>2, SubsetInduction
  <2>4. QED BY <2>3
<1>10. Sums(f, S) = [s \in D |-> Sums(f, S)[s]]
  <2>1. DOMAIN Sums(f, S) = D
    BY <1>7 DEF SumsUp
  <2>2. QED BY <1>7 DEF SumsUp
<1>11. QED BY <1>8, <1>9, <1>10

(* Any element may be added last.                                          *)
LEMMA SumAnyOrder ==
  ASSUME NEW S, IsFiniteSet(S), NEW f, \A y \in S : f[y] \in Nat,
         NEW r \in SUBSET S, NEW z \in r
  PROVE  Sums(f, S)[r] = f[z] + Sums(f, S)[r \ {z}]
<1> DEFINE g == Sums(f, S)
           T == {s \in SUBSET S : \A x \in s : g[s] = f[x] + g[s \ {x}]}
<1>1. /\ g \in [SUBSET S -> Nat]
      /\ \A s \in SUBSET S : g[s] =
           IF s = {} THEN 0 ELSE f[Some(s)] + g[s \ {Some(s)}]
  BY SumSteps
<1> HIDE DEF g
<1>2. ASSUME NEW s \in SUBSET S, \A x \in s : s \ {x} \in T, NEW x \in s
      PROVE  g[s] = f[x] + g[s \ {x}]
  <2> DEFINE y == Some(s)
  <2>1. y \in s
    BY SomeSmaller
  <2> HIDE DEF y
  <2>2. g[s] = f[y] + g[s \ {y}]
    BY <1>1 DEF y
  <2>3. CASE x = y
    BY <2>2, <2>3
  <2>4. CASE x # y
    <3>1. x \in s \ {y} /\ y \in s \ {x}
      BY <2>1, <2>4
    <3>2. g[s \ {y}] = f[x] + g[(s \ {y}) \ {x}]
      BY <1>2, <2>1, <3>1
    <3>3. g[s \ {x}] = f[y] + g[(s \ {x}) \ {y}]
      BY <1>2, <3>1
    <3>4. (s \ {y}) \ {x} = (s \ {x}) \ {y}
      OBVIOUS
    <3>5. /\ f[x] \in Nat /\ f[y] \in Nat
          /\ g[(s \ {x}) \ {y}] \in Nat
      <4>1. (s \ {x}) \ {y} \in SUBSET S /\ x \in S /\ y \in S
        BY <2>1
      <4>2. QED BY <1>1, <4>1
    <3>6. g[(s \ {y}) \ {x}] = g[(s \ {x}) \ {y}]
      BY <3>4
    <3>7. g[s] = f[y] + (f[x] + g[(s \ {x}) \ {y}])
      BY <2>2, <3>2, <3>6
    <3>8. QED BY <3>3, <3>5, <3>7
  <2>5. QED BY <2>3, <2>4
<1>3. T \in SUBSET SUBSET S
  OBVIOUS
<1>4. \A s \in SUBSET S : (\A x \in s : s \ {x} \in T) => s \in T
  BY <1>2
<1>5. SUBSET S \subseteq T
  <2> HIDE DEF T
  <2>1. QED BY <1>3, <1>4, SubsetInduction
<1>6. QED BY <1>5 DEF g

(* Functions that agree have the same sums.                                *)
LEMMA SumsAgree ==
  ASSUME NEW S, IsFiniteSet(S), NEW f, \A x \in S : f[x] \in Nat,
         NEW R, IsFiniteSet(R), NEW g, \A x \in R : g[x] \in Nat,
         \A x \in S \cap R : f[x] = g[x]
  PROVE  \A s \in SUBSET (S \cap R) : Sums(f, S)[s] = Sums(g, R)[s]
<1> DEFINE F == Sums(f, S)
           G == Sums(g, R)
           I == S \cap R
           T == {s \in SUBSET I : F[s] = G[s]}
<1>1. \A s \in SUBSET S : F[s] =
           IF s = {} THEN 0 ELSE f[Some(s)] + F[s \ {Some(s)}]
  BY SumSteps
<1>2. \A s \in SUBSET R : G[s] =
           IF s = {} THEN 0 ELSE g[Some(s)] + G[s \ {Some(s)}]
  BY SumSteps
<1> HIDE DEF F, G
<1>3. ASSUME NEW s \in SUBSET I, \A x \in s : s \ {x} \in T
      PROVE  F[s] = G[s]
  <2>1. s \in SUBSET S /\ s \in SUBSET R
    OBVIOUS
  <2>2. CASE s = {}
    BY <1>1, <1>2, <2>1, <2>2
  <2>3. CASE s # {}
    <3>1. Some(s) \in s
      BY <2>3 DEF Some
    <3>2. s \ {Some(s)} \in T /\ f[Some(s)] = g[Some(s)]
      BY <1>3, <3>1
    <3>3. QED BY <1>1, <1>2, <2>1, <2>3, <3>2
  <2>4. QED BY <2>2, <2>3
<1>4. IsFiniteSet(I)
  BY FS_Intersection
<1>5. T \in SUBSET SUBSET I
  OBVIOUS
<1>6. \A s \in SUBSET I : (\A x \in s : s \ {x} \in T) => s \in T
  BY <1>3
<1>7. SUBSET I \subseteq T
  <2> HIDE DEF T, I
  <2>1. QED BY <1>4, <1>5, <1>6, SubsetInduction
<1>8. QED BY <1>7 DEF F, G

(* So much for sums over sets; what the rest needs of SumFunction follows. *)
LEMMA SumOfNats ==
  ASSUME NEW f, IsFiniteSet(DOMAIN f), \A x \in DOMAIN f : f[x] \in Nat
  PROVE  SumFunction(f) \in Nat
<1>1. SumFunction(f) = Sums(f, DOMAIN f)[DOMAIN f]
  BY SumIsLast DEF SumFunction
<1>2. Sums(f, DOMAIN f) \in [SUBSET DOMAIN f -> Nat]
  BY SumSteps
<1>3. QED BY <1>1, <1>2

(* The sum of nothing is zero.                                             *)
LEMMA SumOfNone ==
  ASSUME NEW f, DOMAIN f = {} PROVE SumFunction(f) = 0
<1>1. SumFunction(f) = Sums(f, DOMAIN f)[DOMAIN f]
  BY SumIsLast DEF SumFunction
<1>2. IsFiniteSet({})
  BY FS_EmptySet
<1>3. \A s \in SUBSET DOMAIN f : Sums(f, DOMAIN f)[s] =
              IF s = {} THEN 0 ELSE f[Some(s)] + Sums(f, DOMAIN f)[s \ {Some(s)}]
  BY <1>2, SumSteps
<1>4. QED BY <1>1, <1>3

(* One more element adds its value.                                        *)
LEMMA SumOneMore ==
  ASSUME NEW S, IsFiniteSet(S), NEW f, DOMAIN f = S, \A y \in S : f[y] \in Nat,
         NEW z \in S, NEW g, DOMAIN g = S \ {z}, \A y \in S \ {z} : g[y] = f[y]
  PROVE  SumFunction(f) = SumFunction(g) + f[z]
<1> DEFINE R == S \ {z}
<1>1. /\ SumFunction(f) = Sums(f, S)[S]
      /\ SumFunction(g) = Sums(g, R)[R]
  BY SumIsLast DEF SumFunction
<1>2. IsFiniteSet(R) /\ R \in SUBSET S
  BY FS_Subset
<1>3. Sums(f, S)[S] = f[z] + Sums(f, S)[R]
  <2>1. S \in SUBSET S
    OBVIOUS
  <2>2. QED BY <2>1, SumAnyOrder
<1>4. Sums(f, S)[R] = Sums(g, R)[R]
  <2>1. \A s \in SUBSET (S \cap R) : Sums(f, S)[s] = Sums(g, R)[s]
    BY <1>2, SumsAgree
  <2>2. R \in SUBSET (S \cap R)
    OBVIOUS
  <2> HIDE DEF R
  <2>3. QED BY <2>1, <2>2
<1>5. f[z] \in Nat /\ Sums(f, S)[R] \in Nat
  <2>1. Sums(f, S) \in [SUBSET S -> Nat]
    BY SumSteps
  <2>2. QED BY <1>2, <2>1
<1>6. QED BY <1>1, <1>3, <1>4, <1>5
-----------------------------------------------------------------------------
(* The code's digits and bytes, and what a digit and a byte stand for.     *)
Places == 0 .. NBytes - 1
Bytes  == [Places -> 0 .. Byte - 1]
Weight == Numbers!Weight
Number == Numbers!Number
Value(b) == Numbers!Value(b)

LEMMA Widths ==
  /\ Digit \in Nat /\ Digit > 1
  /\ Byte \in Nat /\ Byte > 1 /\ Byte = Digit * Digit
  /\ Word \in Nat /\ Word > 1
  /\ NBytes \in Nat /\ NBytes > 1
<1>1. Digit \in Nat /\ Digit > 1 /\ NBytes \in Nat /\ NBytes > 1
  BY ServerAssumption DEF Numbers!TcpAssumption
<1>2. \A n \in Nat : n > 1 => n * n \in Nat /\ n * n > 1
  OBVIOUS
<1>3. Byte \in Nat /\ Byte > 1
  BY <1>1, <1>2 DEF Byte
<1>4. Word \in Nat /\ Word > 1
  BY <1>2, <1>3 DEF Word
<1>5. QED BY <1>1, <1>3, <1>4 DEF Byte

(* Division, with and without a remainder.                                 *)
LEMMA Division ==
  ASSUME NEW n \in Nat, NEW d \in Nat, d > 0
  PROVE  /\ n \div d \in Nat /\ n % d \in 0 .. d - 1
         /\ n = (n \div d) * d + (n % d)
OBVIOUS

LEMMA Quotient ==
  ASSUME NEW n \in Nat, NEW d \in Nat, d > 0,
         NEW q \in Nat, NEW r \in 0 .. d - 1, n = q * d + r
  PROVE  n \div d = q /\ n % d = r
OBVIOUS
-----------------------------------------------------------------------------
(* The checksum of ethernet.c.  Adding the carries back takes off a        *)
(* multiple of Word - 1 and never makes a number zero that is not.         *)

LEMMA CarryStep ==
  ASSUME NEW n \in Nat, n >= Word
  PROVE  /\ (n % Word) + n \div Word \in Nat
         /\ (n % Word) + n \div Word < n
         /\ (n % Word) + n \div Word > 0
         /\ n = ((n % Word) + n \div Word) + (n \div Word) * (Word - 1)
<1> DEFINE q == n \div Word
           r == n % Word
<1>1. q \in Nat /\ r \in 0 .. Word - 1 /\ n = q * Word + r
  BY Widths, Division
<1> HIDE DEF q, r
<1>2. q # 0
  BY <1>1, Widths
<1>3. q * Word = q * (Word - 1) + q /\ q * (Word - 1) >= 1
  BY <1>1, <1>2, Widths
<1>4. r + q \in Nat /\ r + q < n /\ n = (r + q) + q * (Word - 1) /\ r + q > 0
  BY <1>1, <1>2, <1>3, Widths
<1>5. QED BY <1>4 DEF q, r

LEMMA CarriedSteps ==
  /\ Carried \in [Nat -> Nat]
  /\ \A n \in Nat : Carried[n] =
       IF n < Word THEN n ELSE Carried[(n % Word) + n \div Word]
<1> DEFINE id == [n \in Nat |-> n]
           base == 0 .. Word - 1
           step == [n \in Nat |-> IF n < Word THEN n
                                  ELSE (n % Word) + n \div Word]
           op == [n \in Nat |-> [v \in Nat |-> v]]
           Is(f) == f = [n \in Nat |->
             IF n < Word THEN n ELSE f[(n % Word) + n \div Word]]
<1>1. /\ id \in [Nat -> Nat] /\ base \in SUBSET Nat
      /\ op \in [Nat -> [Nat -> Nat]]
  OBVIOUS
<1>2. step \in [Nat -> Nat]
  BY CarryStep, Widths
<1>3. ASSUME NEW n \in Nat \ base PROVE id[step[n]] < id[n]
  <2>1. n >= Word
    BY Widths
  <2>2. step[n] = (n % Word) + n \div Word /\ step[n] \in Nat
    BY <1>2, <2>1, Widths
  <2>3. QED BY <2>1, <2>2, CarryStep
<1> HIDE DEF id, base, step, op
<1>4. Recurs(Nat, Nat, id, base, id, step, op)
  BY <1>1, <1>2, <1>3 DEF Recurs
<1>5. PICK f : Solves(f, Nat, Nat, base, id, step, op)
  BY <1>4, RecursiveFunction
<1>6. f \in [Nat -> Nat]
  BY <1>5 DEF Solves
<1>7. ASSUME NEW n \in Nat
      PROVE  f[n] = IF n < Word THEN n ELSE f[(n % Word) + n \div Word]
  <2>1. f[n] = IF n \in base THEN id[n] ELSE op[n][f[step[n]]]
    BY <1>5 DEF Solves
  <2>2. f[step[n]] \in Nat
    BY <1>2, <1>6
  <2>3. op[n][f[step[n]]] = f[step[n]]
    BY <2>2 DEF op
  <2>4. CASE n < Word
    BY <2>1, <2>4, Widths DEF base, id
  <2>5. CASE ~(n < Word)
    BY <2>1, <2>3, <2>5, Widths DEF base, step
  <2>6. QED BY <2>4, <2>5
<1>8. Is(f)
  BY <1>6, <1>7
<1>9. Is(Carried)
  <2>1. Carried = CHOOSE g : Is(g)
    BY DEF Carried
  <2> HIDE DEF Is
  <2>2. QED BY <1>8, <2>1
<1>10. \A n \in Nat : Carried[n] =
         IF n < Word THEN n ELSE Carried[(n % Word) + n \div Word]
  BY <1>9
<1>11. \A n \in Nat : Carried[n] = f[n]
  <2> DEFINE T == {n \in Nat : Carried[n] # f[n]}
  <2>1. SUFFICES ASSUME T # {} PROVE FALSE
    OBVIOUS
  <2>2. PICK n \in T : \A m \in T : n <= m
    BY <2>1, LeastNat
  <2>3. n >= Word
    BY <1>7, <1>10, Widths
  <2>4. /\ (n % Word) + n \div Word \in Nat
        /\ (n % Word) + n \div Word < n
    BY <2>3, CarryStep
  <2>5. (n % Word) + n \div Word \notin T
    BY <2>2, <2>4
  <2>6. Carried[n] = f[n]
    BY <1>7, <1>10, <2>3, <2>4, <2>5, Widths
  <2>7. QED BY <2>6
<1>12. Carried = [n \in Nat |-> f[n]]
  BY <1>9, <1>11
<1>13. QED BY <1>6, <1>10, <1>12

LEMMA CarriedRest ==
  ASSUME NEW n \in Nat
  PROVE  /\ Carried[n] \in 0 .. Word - 1
         /\ n > 0 => Carried[n] > 0
         /\ \E k \in Nat : n = Carried[n] + k * (Word - 1)
<1> DEFINE Fine(m) == /\ Carried[m] \in 0 .. Word - 1
                      /\ m > 0 => Carried[m] > 0
                      /\ \E k \in Nat : m = Carried[m] + k * (Word - 1)
           T == {m \in Nat : ~Fine(m)}
<1>1. SUFFICES ASSUME T # {} PROVE FALSE
  OBVIOUS
<1>2. PICK m \in T : \A l \in T : m <= l
  <2>1. T \in SUBSET Nat
    OBVIOUS
  <2> HIDE DEF T
  <2>2. QED BY <1>1, <2>1, LeastNat
<1>3. Carried[m] = IF m < Word THEN m ELSE Carried[(m % Word) + m \div Word]
  BY CarriedSteps
<1>4. CASE m < Word
  <2>1. m = Carried[m] + 0 * (Word - 1)
    BY <1>3, <1>4, Widths
  <2>2. Fine(m)
    BY <1>3, <1>4, <2>1, Widths
  <2>3. QED BY <2>2
<1>5. CASE m >= Word
  <2> DEFINE l == (m % Word) + m \div Word
             q == m \div Word
  <2>1. /\ l \in Nat /\ l < m /\ l > 0 /\ q \in Nat
        /\ m = l + q * (Word - 1)
    BY <1>5, CarryStep, Division, Widths
  <2>2. Carried[m] = Carried[l]
    BY <1>3, <1>5, Widths
  <2> HIDE DEF l, q
  <2>3. Fine(l)
    <3>1. ~(m <= l) /\ l \in Nat
      BY <2>1
    <3>2. l \notin T
      <4> HIDE DEF T
      <4>1. QED BY <1>2, <3>1
    <3>3. QED BY <3>1, <3>2
  <2>4. PICK k \in Nat : l = Carried[l] + k * (Word - 1)
    BY <2>3
  <2>5. m = Carried[m] + (k + q) * (Word - 1)
    <3>1. (k + q) * (Word - 1) = k * (Word - 1) + q * (Word - 1)
      BY <2>1, Widths
    <3>2. Carried[l] \in Nat /\ k * (Word - 1) \in Nat /\ q * (Word - 1) \in Nat
      BY <2>1, <2>3, Widths
    <3>3. QED BY <2>1, <2>2, <2>4, <3>1, <3>2
  <2>6. Fine(m)
    BY <2>1, <2>2, <2>3, <2>5
  <2>7. QED BY <2>6
<1>6. QED BY <1>4, <1>5, Widths

(* A sum that holds its own checksum comes out as all ones.                *)
LEMMA ChecksumRight ==
  ASSUME NEW n \in Nat
  PROVE  /\ software_checksum(n) \in 0 .. Word - 1
         /\ Verified(n + software_checksum(n))
<1> DEFINE d == Word - 1
           m == n + software_checksum(n)
<1>1. Carried[n] \in 0 .. Word - 1
  BY CarriedRest
<1>2. software_checksum(n) \in 0 .. Word - 1
  BY <1>1, Widths DEF software_checksum
<1>3. PICK k \in Nat : n = Carried[n] + k * d
  BY CarriedRest
<1>4. d \in Nat /\ d > 0
  BY Widths
<1>5. m \in Nat /\ m = d + k * d
  <2>1. k * d \in Nat
    BY <1>4
  <2>2. QED BY <1>1, <1>2, <1>3, <2>1, Widths DEF software_checksum
<1> HIDE DEF d, m
<1>6. m > 0
  <2>1. k * d \in Nat
    BY <1>4
  <2>2. QED BY <1>4, <1>5, <2>1
<1>7. /\ Carried[m] \in 0 .. d /\ Carried[m] > 0
  BY <1>5, <1>6, CarriedRest DEF d
<1>8. PICK j \in Nat : m = Carried[m] + j * d
  BY <1>5, CarriedRest DEF d
<1>9. Carried[m] = d + (k - j) * d
  <2>1. (k - j) * d = k * d - j * d /\ k * d \in Int /\ j * d \in Int
    BY <1>4
  <2>2. QED BY <1>4, <1>5, <1>7, <1>8, <2>1
<1>10. k - j = 0
  <2>1. CASE k - j >= 1
    <3>1. (k - j) * d >= d
      BY <1>4, <2>1
    <3>2. QED BY <1>4, <1>7, <1>9, <3>1
  <2>2. CASE k - j <= -1
    <3>1. (k - j) * d <= -d
      BY <1>4, <2>2
    <3>2. QED BY <1>4, <1>7, <1>9, <3>1
  <2>3. QED BY <2>1, <2>2
<1>11. Carried[m] = d
  BY <1>4, <1>9, <1>10
<1>12. QED BY <1>2, <1>11 DEF d, m, Verified
-----------------------------------------------------------------------------
(* The weights of the digits: powers of Digit.                             *)

LEMMA WeightSteps ==
  /\ Weight[0] = 1
  /\ \A y \in 1 .. 2 * NBytes : Weight[y] = Digit * Weight[y - 1]
<1> DEFINE D == 0 .. 2 * NBytes
           id == [y \in D |-> y]
           base == {0}
           val == [y \in D |-> 1]
           step == [y \in D |-> IF y = 0 THEN 0 ELSE y - 1]
           op == [y \in D |-> [v \in Nat |-> Digit * v]]
           Is(f) == f = [y \in D |-> IF y = 0 THEN 1 ELSE Digit * f[y - 1]]
<1>1. 2 * NBytes \in Nat
  BY Widths
<1>2. /\ id \in [D -> Nat] /\ base \in SUBSET D /\ val \in [D -> Nat]
      /\ step \in [D -> D] /\ op \in [D -> [Nat -> Nat]]
  BY <1>1, Widths
<1>3. ASSUME NEW y \in D \ base PROVE id[step[y]] < id[y]
  BY <1>1
<1>4. Recurs(D, Nat, id, base, val, step, op)
  <2> HIDE DEF D, id, base, val, step, op
  <2>1. QED BY <1>2, <1>3 DEF Recurs
<1>5. PICK f : Solves(f, D, Nat, base, val, step, op)
  <2> HIDE DEF D, id, base, val, step, op
  <2>1. QED BY <1>4, RecursiveFunction
<1>6. f \in [D -> Nat]
  BY <1>5 DEF Solves
<1>7. ASSUME NEW y \in D
      PROVE  f[y] = IF y = 0 THEN 1 ELSE Digit * f[y - 1]
  <2>1. f[y] = IF y \in base THEN val[y] ELSE op[y][f[step[y]]]
    BY <1>5 DEF Solves
  <2>2. f[step[y]] \in Nat
    BY <1>2, <1>6
  <2>3. op[y][f[step[y]]] = Digit * f[step[y]]
    BY <2>2
  <2>4. QED BY <2>1, <2>3
<1>8. Is(f)
  BY <1>6, <1>7
<1>9. Is(Weight)
  <2>1. Weight = CHOOSE g : Is(g)
    BY DEF Weight, Numbers!Weight
  <2> HIDE DEF Is
  <2>2. QED BY <1>8, <2>1
<1>10. QED BY <1>1, <1>9

LEMMA WeightType ==
  ASSUME NEW y \in 0 .. 2 * NBytes PROVE Weight[y] \in Nat /\ Weight[y] > 0
<1> DEFINE S == {n \in Nat : n <= 2 * NBytes
                               => Weight[n] \in Nat /\ Weight[n] > 0}
<1>1. 2 * NBytes \in Nat
  BY Widths
<1>2. 0 \in S
  BY WeightSteps
<1>3. ASSUME NEW n \in Nat, n \in S PROVE n + 1 \in S
  <2>1. CASE n + 1 <= 2 * NBytes
    <3>1. Weight[n] \in Nat /\ Weight[n] > 0
      BY <1>1, <1>3, <2>1
    <3>2. n + 1 \in 1 .. 2 * NBytes /\ (n + 1) - 1 = n
      BY <1>1, <2>1
    <3>3. Weight[n + 1] = Digit * Weight[n]
      BY <3>2, WeightSteps
    <3>4. Digit * Weight[n] \in Nat /\ Digit * Weight[n] > 0
      BY <3>1, Widths
    <3>5. QED BY <3>3, <3>4
  <2>2. QED BY <1>1, <2>1
<1>4. Nat \subseteq S
  <2> HIDE DEF S
  <2>1. QED BY <1>2, <1>3, NatInd
<1>5. QED BY <1>1, <1>4

(* The weight of the lowest digit of the k-th byte, the lowest first.      *)
W(k) == Weight[2 * k]

LEMMA ByteWeight ==
  ASSUME NEW k \in 0 .. NBytes - 1
  PROVE  /\ W(k) \in Nat /\ W(k) > 0
         /\ W(k + 1) = Byte * W(k) /\ W(k + 1) \in Nat /\ W(k + 1) > 0
         /\ Weight[2 * k + 1] = Digit * W(k)
         /\ W(0) = 1
<1>1. NBytes \in Nat
  BY Widths
<1>2. /\ 2 * k \in 0 .. 2 * NBytes /\ 2 * k + 1 \in 1 .. 2 * NBytes
      /\ 2 * (k + 1) \in 1 .. 2 * NBytes
      /\ (2 * k + 1) - 1 = 2 * k /\ 2 * (k + 1) - 1 = 2 * k + 1
      /\ 2 * (k + 1) \in 0 .. 2 * NBytes
  BY <1>1
<1>3. W(k) \in Nat /\ W(k) > 0 /\ W(k + 1) \in Nat /\ W(k + 1) > 0
  BY <1>2, WeightType DEF W
<1>4. Weight[2 * k + 1] = Digit * W(k)
  <2>1. Weight[2 * k + 1] = Digit * Weight[(2 * k + 1) - 1]
    BY <1>2, WeightSteps
  <2>2. QED BY <1>2, <2>1 DEF W
<1>5. W(k + 1) = Digit * (Digit * W(k))
  <2>1. Weight[2 * (k + 1)] = Digit * Weight[2 * (k + 1) - 1]
    BY <1>2, WeightSteps
  <2>2. QED BY <1>2, <1>4, <2>1 DEF W
<1>6. Digit * (Digit * W(k)) = Byte * W(k)
  BY <1>3, Widths
<1>7. W(0) = 1
  <2>1. 2 * 0 = 0
    OBVIOUS
  <2>2. QED BY <2>1, WeightSteps DEF W
<1>8. QED BY <1>3, <1>4, <1>5, <1>6, <1>7

LEMMA NumberIs == Number = W(NBytes) /\ Number \in Nat /\ Number > 0
<1>1. Number = W(NBytes)
  BY DEF Number, Numbers!Number, W, Weight
<1>2. 2 * NBytes \in 0 .. 2 * NBytes
  BY Widths
<1>3. QED BY <1>1, <1>2, WeightType DEF W
-----------------------------------------------------------------------------
(* What the last k bytes of a number stand for.                            *)

Terms(b, k) == [i \in NBytes - k .. NBytes - 1 |->
                  b[i] * Weight[2 * (NBytes - 1 - i)]]
Low(b, k) == SumFunction(Terms(b, k))

LEMMA SameSum == ASSUME NEW f PROVE Numbers!SumFunction(f) = SumFunction(f)
BY DEF SumFunction, SumFunctionOnSet, FoldFunctionOnSet, MapThenFoldSet,
       Numbers!SumFunction, Numbers!SumFunctionOnSet,
       Numbers!FoldFunctionOnSet, Numbers!MapThenFoldSet

LEMMA ValueIsLow == ASSUME NEW b PROVE Value(b) = Low(b, NBytes)
<1>1. NBytes - NBytes = 0
  BY Widths
<1>2. Terms(b, NBytes) = [i \in 0 .. NBytes - 1 |->
                            b[i] * Weight[2 * (NBytes - 1 - i)]]
  BY <1>1, Zenon DEF Terms
<1>3. Value(b) = SumFunction([i \in 0 .. NBytes - 1 |->
                                b[i] * Weight[2 * (NBytes - 1 - i)]])
  BY SameSum, Zenon DEF Value, Numbers!Value, Numbers!Places, Weight
<1>4. QED BY <1>2, <1>3, Zenon DEF Low

LEMMA LowSteps ==
  ASSUME NEW b \in Bytes
  PROVE  /\ Low(b, 0) = 0
         /\ \A k \in 0 .. NBytes - 1 :
              Low(b, k + 1) = Low(b, k) + b[NBytes - 1 - k] * W(k)
         /\ \A k \in 0 .. NBytes : Low(b, k) \in Nat
<1>1. ASSUME NEW k \in 0 .. NBytes, NEW i \in NBytes - k .. NBytes - 1
      PROVE  Terms(b, k)[i] \in Nat
  <2>1. /\ i \in Places /\ b[i] \in Nat
        /\ NBytes - 1 - i \in 0 .. NBytes - 1
    BY Widths DEF Bytes, Places
  <2>2. Weight[2 * (NBytes - 1 - i)] \in Nat
    BY <2>1, ByteWeight DEF W
  <2>3. QED BY <2>1, <2>2 DEF Terms
<1>2. ASSUME NEW k \in 0 .. NBytes
      PROVE  /\ IsFiniteSet(NBytes - k .. NBytes - 1)
             /\ DOMAIN Terms(b, k) = NBytes - k .. NBytes - 1
  <2>1. NBytes - k \in Int /\ NBytes - 1 \in Int
    BY Widths
  <2>2. QED BY <2>1, FS_Interval DEF Terms
<1>3. Low(b, 0) = 0
  <2>1. NBytes - 0 .. NBytes - 1 = {}
    BY Widths
  <2>2. DOMAIN Terms(b, 0) = {}
    BY <2>1 DEF Terms
  <2>3. QED BY <2>2, SumOfNone DEF Low
<1>4. ASSUME NEW k \in 0 .. NBytes PROVE Low(b, k) \in Nat
  BY <1>1, <1>2, SumOfNats DEF Low
<1>5. ASSUME NEW k \in 0 .. NBytes - 1
      PROVE  Low(b, k + 1) = Low(b, k) + b[NBytes - 1 - k] * W(k)
  <2> DEFINE S == NBytes - (k + 1) .. NBytes - 1
             z == NBytes - 1 - k
             f == Terms(b, k + 1)
             g == Terms(b, k)
  <2>1. k + 1 \in 0 .. NBytes /\ k \in 0 .. NBytes
    BY Widths
  <2>2. /\ z \in S /\ S \ {z} = NBytes - k .. NBytes - 1
        /\ NBytes - 1 - z = k
    BY Widths
  <2>3. /\ IsFiniteSet(S) /\ DOMAIN f = S /\ \A y \in S : f[y] \in Nat
        /\ DOMAIN g = S \ {z}
    BY <1>1, <1>2, <2>1, <2>2
  <2>4. \A y \in S \ {z} : g[y] = f[y]
    BY <2>2 DEF Terms
  <2>5. f[z] = b[z] * W(k)
    BY <2>2 DEF Terms, W
  <2>6. SumFunction(f) = SumFunction(g) + f[z]
    <3> HIDE DEF S, z, f, g
    <3>1. QED BY <2>2, <2>3, <2>4, SumOneMore
  <2>7. QED BY <2>5, <2>6 DEF Low
<1>6. QED BY <1>3, <1>4, <1>5

(* A number of k bytes is below the weight of the next.                    *)
LEMMA LowBound ==
  ASSUME NEW b \in Bytes, NEW k \in 0 .. NBytes
  PROVE  Low(b, k) \in 0 .. W(k) - 1
<1> DEFINE S == {n \in Nat : n <= NBytes => Low(b, n) \in 0 .. W(n) - 1}
<1>1. NBytes \in Nat /\ NBytes > 1
  BY Widths
<1>2. 0 \in S
  <2>1. 0 \in 0 .. NBytes - 1
    BY <1>1
  <2>2. W(0) = 1 /\ Low(b, 0) = 0
    BY <2>1, ByteWeight, LowSteps
  <2>3. QED BY <2>2
<1>3. ASSUME NEW n \in Nat, n \in S PROVE n + 1 \in S
  <2>1. CASE n + 1 <= NBytes
    <3> DEFINE c == b[NBytes - 1 - n]
    <3>1. n \in 0 .. NBytes - 1 /\ Low(b, n) \in 0 .. W(n) - 1
      BY <1>1, <1>3, <2>1
    <3>2. c \in 0 .. Byte - 1
      <4>1. NBytes - 1 - n \in Places
        BY <1>1, <3>1 DEF Places
      <4>2. QED BY <4>1 DEF Bytes
    <3>3. Low(b, n + 1) = Low(b, n) + c * W(n)
      BY <3>1, LowSteps
    <3> HIDE DEF c
    <3>4. W(n) \in Nat /\ W(n) > 0 /\ W(n + 1) = Byte * W(n)
      BY <3>1, ByteWeight
    <3>5. c * W(n) \in Nat /\ (Byte - 1) * W(n) \in Nat
          /\ c * W(n) <= (Byte - 1) * W(n)
          /\ Byte * W(n) = (Byte - 1) * W(n) + W(n)
      BY <3>2, <3>4, Widths
    <3>6. Low(b, n + 1) \in 0 .. W(n + 1) - 1
      BY <3>1, <3>3, <3>4, <3>5
    <3>7. QED BY <3>6
  <2>2. QED BY <1>1, <2>1
<1>4. Nat \subseteq S
  <2> HIDE DEF S
  <2>1. QED BY <1>2, <1>3, NatInd
<1>5. QED BY <1>1, <1>4

(* The value of a number fits a DWORD.                                     *)
LEMMA ValueType == ASSUME NEW b \in Bytes PROVE Value(b) \in 0 .. Number - 1
<1>1. NBytes \in 0 .. NBytes
  BY Widths
<1>2. QED BY <1>1, LowBound, ValueIsLow, NumberIs
-----------------------------------------------------------------------------
(* A number written digit by digit has the value it was written from.      *)

WrittenFrom(n) ==
  [i \in Places |->
     LET low == n \div Weight[2 * (NBytes - 1 - i)]
     IN  (low % Digit) + Digit * ((low \div Digit) % Digit)]

LEMMA TwoDigits ==
  ASSUME NEW q \in Nat
  PROVE  /\ (q % Digit) + Digit * ((q \div Digit) % Digit) \in 0 .. Byte - 1
         /\ \E p \in Nat :
              q = p * Byte + ((q % Digit) + Digit * ((q \div Digit) % Digit))
<1> DEFINE h == q \div Digit
           d == q % Digit
           e == h % Digit
           p == h \div Digit
<1>1. h \in Nat /\ d \in 0 .. Digit - 1 /\ q = h * Digit + d
  BY Widths, Division
<1>2. p \in Nat /\ e \in 0 .. Digit - 1 /\ h = p * Digit + e
  BY <1>1, Widths, Division
<1> HIDE DEF h, d, e, p
<1>3. Digit * e \in Nat /\ Digit * e <= Digit * (Digit - 1)
  BY <1>2, Widths
<1>4. Digit * (Digit - 1) = Byte - Digit
  BY Widths
<1>5. d + Digit * e \in 0 .. Byte - 1
  BY <1>1, <1>3, <1>4, Widths
<1>6. q = p * Byte + (d + Digit * e)
  <2>1. h * Digit = p * Byte + Digit * e
    <3>1. (p * Digit + e) * Digit = p * (Digit * Digit) + Digit * e
      BY <1>2, Widths
    <3>2. QED BY <1>2, <3>1, Widths
  <2>2. p * Byte \in Nat
    BY <1>2, Widths
  <2>3. QED BY <1>1, <1>3, <2>1, <2>2
<1>7. QED BY <1>2, <1>5, <1>6 DEF h, d, e

LEMMA WrittenValue ==
  ASSUME NEW n \in 0 .. Number - 1
  PROVE  WrittenFrom(n) \in Bytes /\ Value(WrittenFrom(n)) = n
<1> DEFINE b == WrittenFrom(n)
           quo(k) == n \div W(k)
           S == {k \in Nat : k <= NBytes => n = quo(k) * W(k) + Low(b, k)}
<1>1. n \in Nat /\ NBytes \in Nat /\ NBytes > 1
  BY NumberIs, Widths
<1>2. ASSUME NEW k \in 0 .. NBytes - 1
      PROVE  /\ quo(k) \in Nat
             /\ b[NBytes - 1 - k] \in 0 .. Byte - 1
             /\ \E p \in Nat : quo(k) = p * Byte + b[NBytes - 1 - k]
  <2>1. W(k) \in Nat /\ W(k) > 0
    BY ByteWeight
  <2>2. quo(k) \in Nat
    BY <1>1, <2>1, Division
  <2>3. NBytes - 1 - k \in Places /\ NBytes - 1 - (NBytes - 1 - k) = k
    BY <1>1 DEF Places
  <2>4. b[NBytes - 1 - k] =
          (quo(k) % Digit) + Digit * ((quo(k) \div Digit) % Digit)
    BY <2>3 DEF WrittenFrom, W
  <2> HIDE DEF quo, b
  <2>5. QED BY <2>2, <2>4, TwoDigits
<1>3. b \in Bytes
  <2>1. ASSUME NEW i \in Places PROVE b[i] \in 0 .. Byte - 1
    <3>1. NBytes - 1 - i \in 0 .. NBytes - 1
          /\ NBytes - 1 - (NBytes - 1 - i) = i
      BY <1>1 DEF Places
    <3> HIDE DEF quo, b
    <3>2. b[NBytes - 1 - (NBytes - 1 - i)] \in 0 .. Byte - 1
      BY <1>2, <3>1
    <3>3. QED BY <3>1, <3>2
  <2>2. b = [i \in Places |-> b[i]]
    BY DEF WrittenFrom
  <2> HIDE DEF b
  <2>3. QED BY <2>1, <2>2 DEF Bytes
<1> HIDE DEF b
<1>4. 0 \in S
  <2>1. 0 \in 0 .. NBytes - 1
    BY <1>1
  <2>2. W(0) = 1 /\ Low(b, 0) = 0
    BY <1>3, <2>1, ByteWeight, LowSteps
  <2>3. quo(0) = n
    <3>1. n = n * 1 + 0 /\ 0 \in 0 .. 1 - 1
      BY <1>1
    <3>2. n \div 1 = n
      BY <1>1, <3>1, Quotient
    <3>3. QED BY <2>2, <3>2
  <2> HIDE DEF quo
  <2>4. n = quo(0) * W(0) + Low(b, 0)
    BY <1>1, <2>2, <2>3
  <2>5. QED BY <2>4
<1>5. ASSUME NEW k \in Nat, k \in S PROVE k + 1 \in S
  <2>1. SUFFICES ASSUME k + 1 <= NBytes
                 PROVE  n = quo(k + 1) * W(k + 1) + Low(b, k + 1)
    OBVIOUS
  <2>2. k \in 0 .. NBytes - 1 /\ k + 1 \in 0 .. NBytes
    BY <1>1, <2>1
  <2> DEFINE c == b[NBytes - 1 - k]
  <2>3. n = quo(k) * W(k) + Low(b, k)
    BY <1>1, <1>5, <2>2
  <2>4. /\ W(k) \in Nat /\ W(k) > 0 /\ W(k + 1) = Byte * W(k)
        /\ W(k + 1) \in Nat /\ W(k + 1) > 0
    BY <2>2, ByteWeight
  <2>5. Low(b, k + 1) = Low(b, k) + c * W(k) /\ Low(b, k) \in Nat
    BY <1>1, <1>3, <2>2, LowSteps
  <2>6. Low(b, k + 1) \in 0 .. W(k + 1) - 1
    BY <1>3, <2>2, LowBound
  <2>7. c \in Nat
    BY <1>2, <2>2
  <2> HIDE DEF quo, c
  <2>8. PICK p \in Nat : quo(k) = p * Byte + c
    BY <1>2, <2>2 DEF c
  <2>9. n = p * W(k + 1) + Low(b, k + 1)
    <3>1. (p * Byte + c) * W(k) = p * (Byte * W(k)) + c * W(k)
      BY <2>4, <2>7, Widths
    <3>2. p * W(k + 1) \in Nat /\ c * W(k) \in Nat
      BY <2>4, <2>7
    <3>3. QED BY <2>3, <2>4, <2>5, <2>8, <3>1, <3>2
  <2>10. quo(k + 1) = p
    BY <1>1, <2>4, <2>6, <2>9, Quotient DEF quo
  <2>11. QED BY <2>9, <2>10
<1>6. NBytes \in S
  <2>1. Nat \subseteq S
    <3> HIDE DEF S
    <3>1. QED BY <1>4, <1>5, NatInd
  <2>2. QED BY <1>1, <2>1
<1>7. Low(b, NBytes) = n
  <2>1. quo(NBytes) = 0
    <3>1. n = 0 * W(NBytes) + n /\ W(NBytes) \in Nat /\ W(NBytes) > 0
          /\ n \in 0 .. W(NBytes) - 1
      BY <1>1, NumberIs
    <3>2. QED BY <1>1, <3>1, Quotient
  <2>2. n = quo(NBytes) * W(NBytes) + Low(b, NBytes)
    BY <1>1, <1>6
  <2> HIDE DEF quo
  <2>3. W(NBytes) \in Nat /\ Low(b, NBytes) \in Nat
    <3>1. NBytes \in 0 .. NBytes
      BY <1>1
    <3>2. QED BY <1>3, <3>1, LowSteps, NumberIs
  <2>4. QED BY <2>1, <2>2, <2>3
<1>8. QED BY <1>3, <1>7, ValueIsLow DEF b
-----------------------------------------------------------------------------
(* The number taken apart into digits and put together again.              *)

LEMMA DigitsTotal ==
  ASSUME SEQ \in Bytes PROVE Numbers!prev_seq_total = Value(SEQ)
<1> DEFINE v == Numbers!prev_seq_value
           T(k) == [y \in 0 .. k - 1 |-> v[y] * Weight[y]]
           Tot(k) == SumFunction(T(k))
           S == {k \in Nat : k <= NBytes => Tot(2 * k) = Low(SEQ, k)}
<1>1. NBytes \in Nat /\ NBytes > 1
  BY Widths
<1>2. ASSUME NEW k \in 0 .. NBytes - 1
      PROVE  LET c == SEQ[NBytes - 1 - k]
             IN  /\ c \in 0 .. Byte - 1
                 /\ v[2 * k] = c % Digit /\ v[2 * k + 1] = c \div Digit
                 /\ v[2 * k] \in Nat /\ v[2 * k + 1] \in Nat
                 /\ c = v[2 * k + 1] * Digit + v[2 * k]
  <2> DEFINE c == SEQ[NBytes - 1 - k]
  <2>1. NBytes - 1 - k \in Places
    BY <1>1 DEF Places
  <2>2. c \in 0 .. Byte - 1 /\ c \in Nat
    BY <2>1, Widths DEF Bytes
  <2>3. /\ 2 * k \in 0 .. 2 * NBytes - 1 /\ 2 * k + 1 \in 0 .. 2 * NBytes - 1
        /\ (2 * k) \div 2 = k /\ (2 * k + 1) \div 2 = k
        /\ (2 * k) % 2 = 0 /\ (2 * k + 1) % 2 = 1
    BY <1>1
  <2>4. v[2 * k] = c % Digit
    BY <2>3 DEF Numbers!prev_seq_value
  <2>5. v[2 * k + 1] = c \div Digit
    BY <2>3 DEF Numbers!prev_seq_value
  <2> HIDE DEF v, c
  <2>6. /\ c \div Digit \in Nat /\ c % Digit \in 0 .. Digit - 1
        /\ c = (c \div Digit) * Digit + (c % Digit)
    BY <2>2, Widths, Division
  <2>7. v[2 * k] \in Nat /\ v[2 * k + 1] \in Nat
    BY <2>4, <2>5, <2>6, Widths
  <2>8. QED BY <2>2, <2>4, <2>5, <2>6, <2>7 DEF c
<1>3. ASSUME NEW y \in 0 .. 2 * NBytes - 1
      PROVE  v[y] * Weight[y] \in Nat
  <2>1. PICK k \in 0 .. NBytes - 1 : y = 2 * k \/ y = 2 * k + 1
    <3>1. y \div 2 \in 0 .. NBytes - 1
          /\ (y = 2 * (y \div 2) \/ y = 2 * (y \div 2) + 1)
      BY <1>1
    <3>2. QED BY <3>1
  <2>2. v[y] \in Nat
    <3> HIDE DEF v
    <3>1. QED BY <1>2, <2>1
  <2>3. Weight[y] \in Nat
    BY <1>1, WeightType
  <2> HIDE DEF v
  <2>4. QED BY <2>2, <2>3
<1>4. ASSUME NEW k \in 0 .. 2 * NBytes - 1
      PROVE  Tot(k + 1) = Tot(k) + v[k] * Weight[k]
  <2> HIDE DEF v
  <2> DEFINE D == 0 .. (k + 1) - 1
             f == T(k + 1)
             g == T(k)
  <2>1. /\ k \in D /\ D \ {k} = 0 .. k - 1
        /\ \A y \in D : y \in 0 .. 2 * NBytes - 1
    BY <1>1
  <2>2. IsFiniteSet(D)
    <3>1. 0 \in Int /\ (k + 1) - 1 \in Int
      BY <1>1
    <3>2. QED BY <3>1, FS_Interval
  <2>3. /\ DOMAIN f = D /\ \A y \in D : f[y] \in Nat
        /\ DOMAIN g = D \ {k} /\ \A y \in D \ {k} : g[y] = f[y]
    BY <1>3, <2>1
  <2>4. f[k] = v[k] * Weight[k]
    BY <2>1
  <2>5. SumFunction(f) = SumFunction(g) + f[k]
    <3> DEFINE z == k
    <3>1. z \in D /\ IsFiniteSet(D) /\ DOMAIN f = D /\ DOMAIN g = D \ {z}
      BY <2>1, <2>2, <2>3
    <3>2. (\A y \in D : f[y] \in Nat) /\ \A y \in D \ {z} : g[y] = f[y]
      BY <2>3
    <3>3. SumFunction(f) = SumFunction(g) + f[z]
      <4> HIDE DEF D, f, g, z
      <4>1. QED BY <3>1, <3>2, SumOneMore
    <3>4. QED BY <3>3
  <2> HIDE DEF T
  <2>6. QED BY <2>4, <2>5
<1>5. ASSUME NEW k \in 0 .. 2 * NBytes PROVE Tot(k) \in Nat
  <2> HIDE DEF v
  <2> DEFINE f == T(k)
  <2>1. DOMAIN f = 0 .. k - 1 /\ \A y \in DOMAIN f : f[y] \in Nat
    BY <1>1, <1>3
  <2>2. IsFiniteSet(DOMAIN f)
    <3>1. 0 \in Int /\ k - 1 \in Int
      BY <1>1
    <3>2. QED BY <2>1, <3>1, FS_Interval
  <2> HIDE DEF T
  <2>3. QED BY <2>1, <2>2, SumOfNats
<1>6. 0 \in S
  <2>1. DOMAIN T(2 * 0) = {}
    OBVIOUS
  <2>2. Tot(2 * 0) = 0
    <3> HIDE DEF T
    <3>1. QED BY <2>1, SumOfNone
  <2>3. Low(SEQ, 0) = 0
    BY LowSteps
  <2> HIDE DEF Tot
  <2>4. QED BY <2>2, <2>3
<1>7. ASSUME NEW k \in Nat, k \in S PROVE k + 1 \in S
  <2>1. SUFFICES ASSUME k + 1 <= NBytes
                 PROVE  Tot(2 * (k + 1)) = Low(SEQ, k + 1)
    OBVIOUS
  <2>2. /\ k \in 0 .. NBytes - 1
        /\ 2 * k \in 0 .. 2 * NBytes - 1 /\ 2 * k + 1 \in 0 .. 2 * NBytes - 1
        /\ (2 * k + 1) + 1 = 2 * (k + 1)
        /\ 2 * k \in 0 .. 2 * NBytes
    BY <1>1, <2>1
  <2>3. Tot(2 * k) = Low(SEQ, k)
    BY <1>1, <1>7, <2>2
  <2> HIDE DEF v, Tot, S
  <2>4. /\ Tot(2 * k + 1) = Tot(2 * k) + v[2 * k] * Weight[2 * k]
        /\ Tot((2 * k + 1) + 1) =
             Tot(2 * k + 1) + v[2 * k + 1] * Weight[2 * k + 1]
    BY <1>4, <2>2
  <2> DEFINE c == SEQ[NBytes - 1 - k]
             lo == v[2 * k]
             hi == v[2 * k + 1]
  <2>5. lo \in Nat /\ hi \in Nat /\ c = hi * Digit + lo
    BY <1>2, <2>2
  <2>6. Low(SEQ, k + 1) = Low(SEQ, k) + c * W(k) /\ Low(SEQ, k) \in Nat
    BY <1>1, <2>2, LowSteps
  <2>7. Weight[2 * k] = W(k) /\ Weight[2 * k + 1] = Digit * W(k) /\ W(k) \in Nat
    BY <2>2, ByteWeight DEF W
  <2>8. Tot((2 * k + 1) + 1) = (Low(SEQ, k) + lo * W(k)) + hi * (Digit * W(k))
    BY <2>3, <2>4, <2>7
  <2> HIDE DEF lo, hi, c
  <2>9. lo * W(k) + hi * (Digit * W(k)) = c * W(k)
    <3>1. (hi * Digit + lo) * W(k) = lo * W(k) + hi * (Digit * W(k))
      BY <2>5, <2>7, Widths
    <3>2. QED BY <2>5, <3>1
  <2>10. lo * W(k) \in Nat /\ hi * (Digit * W(k)) \in Nat
    BY <2>5, <2>7, Widths
  <2>11. QED BY <2>2, <2>6, <2>8, <2>9, <2>10
<1>8. Tot(2 * NBytes) = Value(SEQ)
  <2>1. Nat \subseteq S
    <3> HIDE DEF S
    <3>1. QED BY <1>6, <1>7, NatInd
  <2> HIDE DEF Tot
  <2>2. Tot(2 * NBytes) = Low(SEQ, NBytes)
    BY <1>1, <2>1
  <2>3. QED BY <2>2, ValueIsLow
<1>9. Numbers!prev_seq_total = Tot(2 * NBytes) % Number
  <2>1. DOMAIN v = 0 .. 2 * NBytes - 1
    BY DEF Numbers!prev_seq_value
  <2>2. [y \in DOMAIN v |-> v[y] * Weight[y]] = T(2 * NBytes)
    <3> HIDE DEF v
    <3>1. QED BY <2>1
  <2>3. Numbers!prev_seq_total
          = SumFunction([y \in DOMAIN v |-> v[y] * Weight[y]]) % Number
    BY SameSum, Zenon DEF Numbers!prev_seq_total, Weight, Number
  <2>4. QED BY <2>2, <2>3, Zenon
<1>10. Value(SEQ) \in 0 .. Number - 1 /\ Number \in Nat /\ Number > 0
  BY ValueType, NumberIs
<1>11. Value(SEQ) % Number = Value(SEQ)
  <2>1. Value(SEQ) = 0 * Number + Value(SEQ) /\ Value(SEQ) \in Nat
    BY <1>10
  <2>2. QED BY <1>10, <2>1, Quotient
<1>12. QED
  <2> HIDE DEF Tot
  <2>1. QED BY <1>8, <1>9, <1>11
-----------------------------------------------------------------------------
(* A number goes up by one, with a carry from the last byte.               *)

(* A byte and a carry.                                                     *)
LEMMA OneByte ==
  ASSUME NEW c \in 0 .. Byte - 1, NEW v \in {0, 1}
  PROVE  /\ (c + v) \div Byte \in {0, 1} /\ (c + v) % Byte \in 0 .. Byte - 1
         /\ c + v = ((c + v) \div Byte) * Byte + ((c + v) % Byte)
<1>1. c + v \in Nat /\ Byte \in Nat /\ Byte > 1
  BY Widths
<1>2. CASE c + v = Byte
  <2>1. c + v = 1 * Byte + 0 /\ 0 \in 0 .. Byte - 1
    BY <1>1, <1>2
  <2>2. (c + v) \div Byte = 1 /\ (c + v) % Byte = 0
    BY <1>1, <2>1, Quotient
  <2>3. QED BY <1>1, <2>1, <2>2
<1>3. CASE c + v < Byte
  <2>1. c + v = 0 * Byte + (c + v) /\ c + v \in 0 .. Byte - 1
    BY <1>1, <1>3
  <2>2. (c + v) \div Byte = 0 /\ (c + v) % Byte = c + v
    BY <1>1, <2>1, Quotient
  <2>3. QED BY <1>1, <2>1, <2>2
<1>4. QED BY <1>1, <1>2, <1>3

LEMMA CarrySteps ==
  ASSUME SEQ \in Bytes
  PROVE  /\ Numbers!Carry[NBytes] = 1
         /\ \A i \in Places : /\ Numbers!Carry[i] \in {0, 1}
                              /\ Numbers!Carry[i + 1] \in {0, 1}
                              /\ Numbers!Carry[i] =
                                   (SEQ[i] + Numbers!Carry[i + 1]) \div Byte
<1> DEFINE D == 0 .. NBytes
           V == {0, 1}
           size == [i \in D |-> NBytes - i]
           base == {NBytes}
           val == [i \in D |-> 1]
           step == [i \in D |-> IF i = NBytes THEN i ELSE i + 1]
           op == [i \in D |-> [v \in V |->
                   IF i = NBytes THEN 0 ELSE (SEQ[i] + v) \div Byte]]
           Is(f) == f = [i \in D |-> IF i = NBytes THEN 1
                                     ELSE (SEQ[i] + f[i + 1]) \div Byte]
<1>1. NBytes \in Nat /\ NBytes > 1
  BY Widths
<1>2. /\ size \in [D -> Nat] /\ base \in SUBSET D /\ val \in [D -> V]
      /\ step \in [D -> D]
  BY <1>1
<1>3. ASSUME NEW i \in D, i # NBytes
      PROVE  i \in Places /\ i + 1 \in D /\ SEQ[i] \in 0 .. Byte - 1
  BY <1>1, <1>3 DEF Places, Bytes
<1>4. op \in [D -> [V -> V]]
  <2>1. ASSUME NEW i \in D, NEW v \in V PROVE op[i][v] \in V
    BY <1>3, OneByte
  <2>2. QED BY <2>1
<1>5. ASSUME NEW i \in D \ base PROVE size[step[i]] < size[i]
  BY <1>1
<1>6. Recurs(D, V, size, base, val, step, op)
  <2> HIDE DEF D, V, size, base, val, step, op
  <2>1. QED BY <1>2, <1>4, <1>5 DEF Recurs
<1>7. PICK f : Solves(f, D, V, base, val, step, op)
  <2> HIDE DEF D, V, size, base, val, step, op
  <2>1. QED BY <1>6, RecursiveFunction
<1>8. f \in [D -> V]
  BY <1>7 DEF Solves
<1>9. ASSUME NEW i \in D
      PROVE  f[i] = IF i = NBytes THEN 1 ELSE (SEQ[i] + f[i + 1]) \div Byte
  <2>1. f[i] = IF i \in base THEN val[i] ELSE op[i][f[step[i]]]
    BY <1>7 DEF Solves
  <2>2. CASE i = NBytes
    BY <2>1, <2>2
  <2>3. CASE i # NBytes
    <3>1. step[i] = i + 1 /\ f[i + 1] \in V
      BY <1>3, <1>8, <2>3
    <3>2. op[i][f[i + 1]] = (SEQ[i] + f[i + 1]) \div Byte
      BY <2>3, <3>1
    <3> HIDE DEF D, V, step, op
    <3>3. i \notin base
      BY <2>3
    <3>4. QED BY <2>1, <2>3, <3>1, <3>2, <3>3
  <2>4. QED BY <2>2, <2>3
<1>10. Is(f)
  <2>1. f = [i \in D |-> f[i]]
    BY <1>8
  <2> HIDE DEF D
  <2>2. QED BY <1>9, <2>1
<1>11. Is(Numbers!Carry)
  <2>1. Numbers!Carry = CHOOSE g : Is(g)
    BY DEF Numbers!Carry, Numbers!Byte, Byte
  <2> HIDE DEF Is
  <2>2. QED BY <1>10, <2>1
<1>12. ASSUME NEW i \in D
       PROVE  Numbers!Carry[i] = IF i = NBytes THEN 1
                                 ELSE (SEQ[i] + Numbers!Carry[i + 1]) \div Byte
  BY <1>11
<1> DEFINE S == {k \in Nat : k <= NBytes => Numbers!Carry[NBytes - k] \in V}
<1>13. 0 \in S
  BY <1>1, <1>12
<1>14. ASSUME NEW k \in Nat, k \in S PROVE k + 1 \in S
  <2>1. SUFFICES ASSUME k + 1 <= NBytes
                 PROVE  Numbers!Carry[NBytes - (k + 1)] \in V
    OBVIOUS
  <2> DEFINE i == NBytes - (k + 1)
  <2>2. i \in D /\ i # NBytes /\ i + 1 = NBytes - k /\ i \in Places
    BY <1>1, <2>1 DEF Places
  <2>3. Numbers!Carry[i + 1] \in V
    BY <1>1, <1>14, <2>1, <2>2
  <2>4. SEQ[i] \in 0 .. Byte - 1
    BY <1>3, <2>2
  <2> HIDE DEF i
  <2>5. Numbers!Carry[i] = (SEQ[i] + Numbers!Carry[i + 1]) \div Byte
    BY <1>12, <2>2
  <2>6. Numbers!Carry[i] \in V
    BY <2>3, <2>4, <2>5, OneByte
  <2>7. QED BY <2>6 DEF i
<1>15. Nat \subseteq S
  <2> HIDE DEF S
  <2>1. QED BY <1>13, <1>14, NatInd
<1>16. ASSUME NEW i \in D PROVE Numbers!Carry[i] \in V
  <2>1. NBytes - i \in Nat /\ NBytes - i <= NBytes /\ NBytes - (NBytes - i) = i
    BY <1>1
  <2>2. QED BY <1>15, <2>1
<1>17. QED
  <2>1. Numbers!Carry[NBytes] = 1
    BY <1>1, <1>12
  <2>2. ASSUME NEW i \in Places
        PROVE  /\ Numbers!Carry[i] \in {0, 1} /\ Numbers!Carry[i + 1] \in {0, 1}
               /\ Numbers!Carry[i] = (SEQ[i] + Numbers!Carry[i + 1]) \div Byte
    <3>1. i \in D /\ i # NBytes /\ i + 1 \in D
      BY <1>1 DEF Places
    <3>2. QED BY <1>12, <1>16, <3>1
  <2>3. QED BY <2>1, <2>2

LEMMA IncrementedValue ==
  ASSUME SEQ \in Bytes
  PROVE  /\ Numbers!Incremented \in Bytes
         /\ Value(Numbers!Incremented) = (Value(SEQ) + 1) % Number
<1> DEFINE inc == Numbers!Incremented
           cy(k) == Numbers!Carry[NBytes - k]
           S == {k \in Nat : k <= NBytes =>
                   Low(inc, k) + cy(k) * W(k) = Low(SEQ, k) + 1}
<1>1. NBytes \in Nat /\ NBytes > 1
  BY Widths
<1>2. ASSUME NEW i \in Places
      PROVE  /\ SEQ[i] \in 0 .. Byte - 1
             /\ inc[i] = (SEQ[i] + Numbers!Carry[i + 1]) % Byte
             /\ inc[i] \in 0 .. Byte - 1
             /\ SEQ[i] + Numbers!Carry[i + 1]
                  = Numbers!Carry[i] * Byte + inc[i]
  <2>1. SEQ[i] \in 0 .. Byte - 1 /\ Numbers!Carry[i + 1] \in {0, 1}
    BY CarrySteps DEF Bytes
  <2>2. inc[i] = (SEQ[i] + Numbers!Carry[i + 1]) % Byte
    BY DEF Numbers!Incremented, Numbers!Places, Places, Numbers!Byte, Byte
  <2>3. Numbers!Carry[i] = (SEQ[i] + Numbers!Carry[i + 1]) \div Byte
    BY CarrySteps
  <2> HIDE DEF inc
  <2>4. /\ (SEQ[i] + Numbers!Carry[i + 1]) % Byte \in 0 .. Byte - 1
        /\ SEQ[i] + Numbers!Carry[i + 1]
             = ((SEQ[i] + Numbers!Carry[i + 1]) \div Byte) * Byte
                 + ((SEQ[i] + Numbers!Carry[i + 1]) % Byte)
    BY <2>1, OneByte
  <2>5. QED BY <2>1, <2>2, <2>3, <2>4
<1>3. inc \in Bytes
  <2>1. inc = [i \in Places |-> inc[i]]
    BY DEF Numbers!Incremented, Numbers!Places, Places
  <2> HIDE DEF inc
  <2>2. QED BY <1>2, <2>1 DEF Bytes
<1> HIDE DEF inc
<1>4. 0 \in S
  <2>1. 0 \in 0 .. NBytes - 1 /\ NBytes - 0 = NBytes
    BY <1>1
  <2>2. W(0) = 1 /\ Low(inc, 0) = 0 /\ Low(SEQ, 0) = 0
    BY <1>3, <2>1, ByteWeight, LowSteps
  <2>3. cy(0) = 1
    BY <2>1, CarrySteps
  <2> HIDE DEF cy
  <2>4. Low(inc, 0) + cy(0) * W(0) = Low(SEQ, 0) + 1
    BY <2>2, <2>3
  <2>5. QED BY <2>4
<1>5. ASSUME NEW k \in Nat, k \in S PROVE k + 1 \in S
  <2>1. SUFFICES ASSUME k + 1 <= NBytes
                 PROVE  Low(inc, k + 1) + cy(k + 1) * W(k + 1)
                          = Low(SEQ, k + 1) + 1
    OBVIOUS
  <2> DEFINE z == NBytes - 1 - k
             a == SEQ[z]
             b == inc[z]
             u == cy(k)
             v == cy(k + 1)
  <2>2. /\ k \in 0 .. NBytes - 1 /\ z \in Places /\ z + 1 = NBytes - k
        /\ z = NBytes - (k + 1)
    BY <1>1, <2>1 DEF Places
  <2>3. Low(inc, k) + u * W(k) = Low(SEQ, k) + 1
    BY <1>1, <1>5, <2>2
  <2>4. /\ Low(inc, k + 1) = Low(inc, k) + b * W(k)
        /\ Low(SEQ, k + 1) = Low(SEQ, k) + a * W(k)
        /\ Low(inc, k) \in Nat /\ Low(SEQ, k) \in Nat
    BY <1>1, <1>3, <2>2, LowSteps
  <2>5. a \in Nat /\ b \in Nat
    BY <1>2, <2>2, Widths
  <2>6. u = Numbers!Carry[z + 1] /\ v = Numbers!Carry[z]
    BY <2>2
  <2>7. u \in Nat /\ v \in Nat
    BY <2>2, <2>6, CarrySteps
  <2>8. a + u = v * Byte + b
    BY <1>2, <2>2, <2>6
  <2>9. W(k) \in Nat /\ W(k + 1) = Byte * W(k)
    BY <2>2, ByteWeight
  <2> HIDE DEF z, a, b, u, v, cy
  <2>10. a * W(k) + u * W(k) = v * (Byte * W(k)) + b * W(k)
    <3>1. (a + u) * W(k) = a * W(k) + u * W(k)
      BY <2>5, <2>7, <2>9
    <3>2. (v * Byte + b) * W(k) = v * (Byte * W(k)) + b * W(k)
      BY <2>5, <2>7, <2>9, Widths
    <3>3. QED BY <2>8, <3>1, <3>2
  <2>11. /\ a * W(k) \in Nat /\ u * W(k) \in Nat /\ b * W(k) \in Nat
         /\ v * (Byte * W(k)) \in Nat
    BY <2>5, <2>7, <2>9, Widths
  <2>12. Low(inc, k + 1) + v * W(k + 1) = Low(SEQ, k + 1) + 1
    BY <2>3, <2>4, <2>9, <2>10, <2>11
  <2>13. QED BY <2>12 DEF v
<1>6. Value(inc) + cy(NBytes) * Number = Value(SEQ) + 1
  <2>1. Nat \subseteq S
    <3> HIDE DEF S
    <3>1. QED BY <1>4, <1>5, NatInd
  <2> HIDE DEF cy
  <2>2. QED BY <1>1, <2>1, ValueIsLow, NumberIs
<1>7. cy(NBytes) \in Nat
  <2>1. NBytes - NBytes = 0 /\ 0 \in Places
    BY <1>1 DEF Places
  <2>2. QED BY <2>1, CarrySteps
<1>8. /\ Value(inc) \in 0 .. Number - 1 /\ Value(SEQ) \in 0 .. Number - 1
      /\ Number \in Nat /\ Number > 0
  BY <1>3, ValueType, NumberIs
<1> HIDE DEF cy
<1>9. (Value(SEQ) + 1) % Number = Value(inc)
  <2>1. Value(SEQ) + 1 = cy(NBytes) * Number + Value(inc)
        /\ Value(SEQ) + 1 \in Nat
    <3>1. cy(NBytes) * Number \in Nat
      BY <1>7, <1>8
    <3>2. QED BY <1>6, <1>8, <3>1
  <2>2. QED BY <1>7, <1>8, <2>1, Quotient
<1>10. QED BY <1>3, <1>9 DEF inc
-----------------------------------------------------------------------------
(* The inductive invariant.                                                *)

TcpStages == {"synack", "finack", "ack", "part0", "part1", "part2", "part3"}
Parts     == {"part0", "part1", "part2", "part3"}
Macs      == Hosts \cup {Everyone}
Words     == 0 .. Word - 1

ArpRecords ==
  [type : {"arp"}, dst_mac : Macs, src_mac : Macs,
   opcode : {"request", "reply"}, sender_mac : Macs, sender_ip : Words,
   target_mac : Macs, target_ip : Words]

IpRecords ==
  [type : {"ip"}, dst_mac : Macs, src_mac : Macs, total : Nat, ident : Nat,
   proto : {"icmp", "tcp"}, ip_src : Words, ip_dst : Words,
   ip_checksum : Words, icmp : Nat, data : Words,
   src_port : Words, dst_port : Words,
   flags : SUBSET {"syn", "ack", "fin", "rst"}, hlen : Nat, checksum : Words]

NumberTypes ==
  /\ SEQ \in Bytes /\ SEQACK \in Bytes
  /\ seqnum \in 0 .. Byte - 1 /\ packet \in 0 .. 3
  /\ prev_dlength0 \in Nat /\ prev_dlength2 \in Nat /\ prev_dlength \in Nat
  /\ h_expected \in 0 .. Number - 1 /\ h_received \in 0 .. Number - 1
  /\ next \in {"receive", "arp", "echo"} \cup TcpStages

(* Where an answer stands.  Each part starts where the part before ends,   *)
(* whose length lies in the variable that PrevLength will read.            *)
NumberInv ==
  /\ next \in {"synack", "finack", "ack"} => h_received = Value(SEQ)
  /\ next \in {"finack", "ack"} => h_expected = Value(SEQACK)
  /\ next \in Parts => Value(SEQACK) = (h_received + 1) % Number
  /\ next = "part0" => packet = 0 /\ Value(SEQ) = h_expected
  /\ next = "part1" =>
       packet = 1 /\ h_expected = (prev_dlength0 + Value(SEQ)) % Number
  /\ next = "part2" =>
       packet = 2 /\ h_expected = (prev_dlength0 + Value(SEQ)) % Number
  /\ next = "part3" =>
       packet = 3 /\ h_expected = (prev_dlength2 + Value(SEQ)) % Number

(* What is kept of the request until it is answered.                       *)
AskerInv ==
  /\ next # "receive" => h_asker \in Stations /\ client_mac = h_asker
  /\ next = "arp" =>
       rxtx_buffer \in ArpRecords /\ rxtx_buffer.sender_ip = Ip[h_asker]
  /\ next \in {"echo"} \cup TcpStages =>
       rxtx_buffer \in IpRecords /\ client_ip = Ip[h_asker]
  /\ next \in TcpStages => dest_port = Port[h_asker]

IInv == /\ ip_identfier \in Nat /\ sent \in Nat
        /\ NumberTypes /\ NumberInv /\ AskerInv
        /\ AnswersGoToAsker /\ LengthsAgree /\ ChecksumVerifies
-----------------------------------------------------------------------------
(* The numbers: what each packet does to them, and that it is right.       *)

LEMMA ConstantTypes ==
  /\ Lengths \subseteq Nat \ {0}
  /\ \A n \in Requests : n.seq \in Bytes /\ n.ack \in Bytes
BY ServerAssumption DEF Numbers!TcpAssumption, Bytes, Places, Byte,
                        Numbers!Places, Numbers!Byte

LEMMA ReceiveNumbers ==
  ASSUME NumberTypes, NEW n \in Requests,
         NEW to \in {"synack", "finack", "ack"}, Numbers!Receive(n, to)
  PROVE  NumberTypes' /\ NumberInv'
<1>1. /\ SEQ' = n.seq /\ SEQACK' = n.ack /\ next' = to
      /\ h_received' = Value(n.seq) /\ h_expected' = Value(n.ack)
      /\ UNCHANGED <<seqnum, packet, prev_dlength0, prev_dlength2, prev_dlength>>
  BY DEF Numbers!Receive, Value, Numbers!lengths
<1>2. n.seq \in Bytes /\ n.ack \in Bytes
  BY ConstantTypes
<1>3. Value(n.seq) \in 0 .. Number - 1 /\ Value(n.ack) \in 0 .. Number - 1
  BY <1>2, ValueType
<1>4. NumberTypes'
  BY <1>1, <1>2, <1>3 DEF NumberTypes, TcpStages
<1>5. NumberInv'
  BY <1>1 DEF NumberInv, Parts
<1>6. QED BY <1>4, <1>5

LEMMA InitNumbers ==
  ASSUME Numbers!Init PROVE NumberTypes /\ NumberInv
<1>1. /\ SEQ = [i \in Places |-> 0] /\ SEQACK = [i \in Places |-> 0]
      /\ seqnum = 10 % Byte /\ packet = 0
      /\ prev_dlength0 = 0 /\ prev_dlength2 = 0 /\ prev_dlength = 0
      /\ next = "receive" /\ h_expected = 0 /\ h_received = 0
  BY DEF Numbers!Init, Numbers!Places, Places, Numbers!Byte, Byte
<1>2. Byte \in Nat /\ Byte > 1 /\ Number \in Nat /\ Number > 0
  BY Widths, NumberIs
<1>3. 0 \in 0 .. Byte - 1 /\ 10 % Byte \in 0 .. Byte - 1 /\ 0 \in 0 .. Number - 1
  BY <1>2
<1>4. QED BY <1>1, <1>3 DEF NumberTypes, NumberInv, Bytes, TcpStages, Parts

(* What the packet in the buffer acknowledges once it is sent, and where   *)
(* it starts.                                                              *)
Acknowledges == Value(SEQACK') = (h_received + 1) % Number
StartsAtNext == Value(SEQ') = h_expected

LEMMA SynAckNumbers ==
  ASSUME NumberTypes, NumberInv, Numbers!SendSynAck
  PROVE  NumberTypes' /\ NumberInv' /\ Acknowledges
<1>1. /\ next = "synack" /\ next' = "receive"
      /\ SEQACK' = Numbers!Incremented
      /\ SEQ' = [i \in Places |-> IF i = NBytes - 2 THEN seqnum ELSE 0]
      /\ seqnum' = (seqnum + 2) % Byte
      /\ UNCHANGED <<packet, prev_dlength0, prev_dlength2, prev_dlength,
                     h_expected, h_received>>
  BY DEF Numbers!SendSynAck, Numbers!StartConnection, Numbers!lengths,
         Numbers!history, Numbers!Places, Places, Numbers!Byte, Byte
<1>2. SEQ \in Bytes /\ seqnum \in 0 .. Byte - 1 /\ h_received = Value(SEQ)
  BY <1>1 DEF NumberTypes, NumberInv
<1>3. SEQACK' \in Bytes /\ Acknowledges
  BY <1>1, <1>2, IncrementedValue DEF Acknowledges
<1>4. SEQ' \in Bytes /\ seqnum' \in 0 .. Byte - 1
  BY <1>1, <1>2, Widths DEF Bytes
<1>5. NumberTypes'
  BY <1>1, <1>3, <1>4 DEF NumberTypes
<1>6. NumberInv'
  BY <1>1 DEF NumberInv, Parts
<1>7. QED BY <1>3, <1>5, <1>6

LEMMA NextAckNumbers ==
  ASSUME NumberTypes, NumberInv, next \in {"finack", "ack"}, Numbers!NextAck
  PROVE  /\ SEQ' \in Bytes /\ SEQACK' \in Bytes
         /\ Acknowledges /\ StartsAtNext
<1>1. SEQ' = SEQACK /\ SEQACK' = Numbers!Incremented
  BY DEF Numbers!NextAck
<1>2. /\ SEQ \in Bytes /\ SEQACK \in Bytes
      /\ h_received = Value(SEQ) /\ h_expected = Value(SEQACK)
  BY DEF NumberTypes, NumberInv
<1>3. QED BY <1>1, <1>2, IncrementedValue DEF Acknowledges, StartsAtNext

LEMMA FinAckNumbers ==
  ASSUME NumberTypes, NumberInv, Numbers!SendFinAck
  PROVE  NumberTypes' /\ NumberInv' /\ Acknowledges /\ StartsAtNext
<1>1. /\ next = "finack" /\ Numbers!NextAck /\ next' = "receive"
      /\ UNCHANGED <<seqnum, packet, prev_dlength0, prev_dlength2,
                     prev_dlength, h_expected, h_received>>
  BY DEF Numbers!SendFinAck, Numbers!lengths, Numbers!history
<1>2. SEQ' \in Bytes /\ SEQACK' \in Bytes /\ Acknowledges /\ StartsAtNext
  BY <1>1, NextAckNumbers
<1>3. NumberTypes'
  BY <1>1, <1>2 DEF NumberTypes
<1>4. NumberInv'
  BY <1>1 DEF NumberInv, Parts
<1>5. QED BY <1>2, <1>3, <1>4

LEMMA AckNumbers ==
  ASSUME NumberTypes, NumberInv, Numbers!SendAck
  PROVE  NumberTypes' /\ NumberInv' /\ Acknowledges /\ StartsAtNext
<1>1. /\ next = "ack" /\ Numbers!NextAck /\ next' = "part0" /\ packet' = 0
      /\ UNCHANGED <<seqnum, prev_dlength0, prev_dlength2, prev_dlength,
                     h_expected, h_received>>
  BY DEF Numbers!SendAck, Numbers!lengths, Numbers!history
<1>2. SEQ' \in Bytes /\ SEQACK' \in Bytes /\ Acknowledges /\ StartsAtNext
  BY <1>1, NextAckNumbers
<1>3. NumberTypes'
  BY <1>1, <1>2 DEF NumberTypes, TcpStages
<1>4. NumberInv'
  BY <1>1, <1>2 DEF NumberInv, Parts, Acknowledges, StartsAtNext
<1>5. QED BY <1>2, <1>3, <1>4

(* Every part but the first starts where the part before it ends.          *)
LEMMA PartStarts ==
  ASSUME SEQ \in Bytes, NEW d \in Nat,
         Numbers!WriteNumber((d + Numbers!prev_seq_total) % Number)
  PROVE  SEQ' \in Bytes /\ Value(SEQ') = (d + Value(SEQ)) % Number
<1> DEFINE n == (d + Value(SEQ)) % Number
<1>1. Value(SEQ) \in Nat /\ Number \in Nat /\ Number > 0
  BY ValueType, NumberIs
<1>2. n \in 0 .. Number - 1
  BY <1>1
<1>3. Numbers!WriteNumber(n)
  BY DigitsTotal
<1>4. SEQ' = WrittenFrom(n)
  BY <1>3 DEF Numbers!WriteNumber, WrittenFrom, Numbers!Places, Places, Weight
<1> HIDE DEF n
<1>5. SEQ' \in Bytes /\ Value(SEQ') = n
  BY <1>2, <1>4, WrittenValue
<1>6. QED BY <1>5 DEF n

LEMMA PageNumbers ==
  ASSUME NumberTypes, NumberInv, NEW dlength \in Lengths,
         Numbers!SendPage(dlength)
  PROVE  /\ NumberTypes' /\ NumberInv' /\ Acknowledges /\ StartsAtNext
         /\ next \in Parts
         /\ next' \in {"receive", "part1", "part2", "part3"}
<1>1. /\ UNCHANGED <<SEQACK, seqnum, h_received>>
      /\ Numbers!NextSeq(dlength)
      /\ h_expected' = (h_expected + dlength) % Number
  BY DEF Numbers!SendPage, Numbers!SendPart0, Numbers!SendPart1,
         Numbers!SendPart2, Numbers!SendPart3, Numbers!SendPart,
         Numbers!NextSeq, Number
<1>2. \/ /\ next = "part0" /\ packet = 0 /\ next' = "part1" /\ packet' = 1
      \/ /\ next = "part0" /\ packet = 0 /\ next' = "part2" /\ packet' = 2
      \/ /\ next = "part1" /\ packet = 1 /\ next' = "receive" /\ packet' = 1
      \/ /\ next = "part2" /\ packet = 2 /\ next' = "part3" /\ packet' = 3
      \/ /\ next = "part3" /\ packet = 3 /\ next' = "receive" /\ packet' = 3
  BY DEF Numbers!SendPage, Numbers!SendPart0, Numbers!SendPart1,
         Numbers!SendPart2, Numbers!SendPart3, Numbers!SendPart
<1>3. /\ prev_dlength0' = IF packet = 0 THEN dlength ELSE prev_dlength0
      /\ prev_dlength2' = IF packet = 2 THEN dlength ELSE prev_dlength2
      /\ prev_dlength' = CASE packet = 0 -> prev_dlength
                           [] packet \in {1, 2} -> prev_dlength0
                           [] packet = 3 -> prev_dlength2
      /\ IF packet = 0 THEN UNCHANGED SEQ
         ELSE Numbers!WriteNumber((prev_dlength' + Numbers!prev_seq_total)
                                    % Number)
  BY <1>1 DEF Numbers!NextSeq, Numbers!PrevLength, Number
<1>4. /\ SEQ \in Bytes /\ prev_dlength0 \in Nat /\ prev_dlength2 \in Nat
      /\ prev_dlength \in Nat /\ h_expected \in 0 .. Number - 1
      /\ dlength \in Nat
  BY ConstantTypes DEF NumberTypes
<1>5. /\ prev_dlength0' \in Nat /\ prev_dlength2' \in Nat
      /\ prev_dlength' \in Nat
  BY <1>2, <1>3, <1>4
<1>6. SEQ' \in Bytes /\ StartsAtNext
  <2>1. CASE packet = 0
    BY <1>2, <1>3, <1>4, <2>1 DEF NumberInv, StartsAtNext
  <2>2. CASE packet \in {1, 2}
    <3>1. /\ prev_dlength' = prev_dlength0
          /\ h_expected = (prev_dlength0 + Value(SEQ)) % Number
      BY <1>2, <1>3, <2>2 DEF NumberInv
    <3>2. QED BY <1>3, <1>4, <2>2, <3>1, PartStarts DEF StartsAtNext
  <2>3. CASE packet = 3
    <3>1. /\ prev_dlength' = prev_dlength2
          /\ h_expected = (prev_dlength2 + Value(SEQ)) % Number
      BY <1>2, <1>3, <2>3 DEF NumberInv
    <3>2. QED BY <1>3, <1>4, <2>3, <3>1, PartStarts DEF StartsAtNext
  <2>4. QED BY <1>2, <2>1, <2>2, <2>3
<1>7. Acknowledges
  BY <1>1, <1>2 DEF NumberInv, Parts, Acknowledges
<1>8. h_expected' \in 0 .. Number - 1
  BY <1>1, <1>4, NumberIs
<1>9. NumberTypes'
  BY <1>1, <1>2, <1>5, <1>6, <1>8 DEF NumberTypes, TcpStages
<1>10. h_expected' = (dlength + Value(SEQ')) % Number
  <2>1. dlength + h_expected = h_expected + dlength
    BY <1>4
  <2>2. QED BY <1>1, <1>6, <2>1 DEF StartsAtNext
<1>11. NumberInv'
  BY <1>1, <1>2, <1>3, <1>7, <1>10 DEF NumberInv, Parts, Acknowledges
<1>12. QED BY <1>2, <1>6, <1>7, <1>9, <1>11 DEF Parts
-----------------------------------------------------------------------------
(* The words the checksums cover are naturals.                             *)

LEMMA NumberSumType == ASSUME NEW b \in Bytes PROVE NumberSum(b) \in Nat
<1> DEFINE D == {j \in 0 .. NBytes - 1 : j % 2 = 0}
           f == [i \in D |-> b[i] * Byte + b[i + 1]]
<1>1. NBytes \in Nat /\ NBytes % 2 = 0
  BY Widths, ServerAssumption
<1>2. IsFiniteSet(D)
  <2>1. IsFiniteSet(0 .. NBytes - 1)
    <3>1. 0 \in Int /\ NBytes - 1 \in Int
      BY <1>1
    <3>2. QED BY <3>1, FS_Interval
  <2>2. D \in SUBSET (0 .. NBytes - 1)
    OBVIOUS
  <2> HIDE DEF D
  <2>3. QED BY <2>1, <2>2, FS_Subset
<1>3. ASSUME NEW i \in D PROVE f[i] \in Nat
  <2>1. i \in Places /\ i + 1 \in Places
    <3>1. i + 1 # NBytes
      BY <1>1
    <3>2. QED BY <1>1, <3>1 DEF Places
  <2>2. b[i] \in Nat /\ b[i + 1] \in Nat
    BY <2>1, Widths DEF Bytes
  <2> HIDE DEF D
  <2>3. b[i] * Byte + b[i + 1] \in Nat
    BY <2>2, Widths
  <2>4. QED BY <2>3
<1>4. SumFunction(f) \in Nat
  <2>1. DOMAIN f = D
    OBVIOUS
  <2> HIDE DEF D, f
  <2>2. QED BY <1>2, <1>3, <2>1, SumOfNats
<1>5. QED BY <1>4 DEF NumberSum

LEMMA PageSumType == ASSUME NEW d \in Nat PROVE PageSum(d) \in Nat
<1>1. d \div 2 \in Nat /\ d % 2 \in Nat
  OBVIOUS
<1>2. Filling \in Nat /\ Byte \in Nat
  BY ServerAssumption, Widths
<1>3. (d \div 2) * (Filling * Byte + Filling) \in Nat
  BY <1>1, <1>2
<1>4. (d % 2) * Filling * Byte \in Nat
  BY <1>1, <1>2
<1> HIDE DEF Byte
<1>5. QED BY <1>3, <1>4 DEF PageSum

(* The addresses.                                                          *)
LEMMA AddressTypes ==
  /\ \A h \in Hosts : Ip[h] \in Words
  /\ \A s \in Stations : Port[s] \in Words /\ s \in Hosts
  /\ Http \in Words /\ Avr \in Hosts /\ 0 \in Words /\ 1 \in Words
  /\ Everyone \notin Hosts /\ Avr \notin Stations
  /\ IdMod \in Nat /\ IdMod > 0
BY ServerAssumption, Widths DEF Words, Hosts
-----------------------------------------------------------------------------
(* The frames.                                                             *)

(* The frames a station sends, and what is kept of each.                   *)
LEMMA FramesReceived ==
  ASSUME NEW s \in Stations
  PROVE  /\ \A f \in ArpFrames(s) :
              /\ f \in ArpRecords /\ f.src_mac = s /\ f.sender_ip = Ip[s]
              /\ Answers(f) \subseteq {"arp", "receive"}
         /\ \A f \in EchoFrames(s) :
              /\ f \in IpRecords /\ f.src_mac = s /\ f.ip_src = Ip[s]
              /\ Answers(f) \subseteq {"echo", "receive"}
         /\ \A f \in Segments(s) :
              /\ f \in IpRecords /\ f.src_mac = s /\ f.ip_src = Ip[s]
              /\ f.src_port = Port[s]
              /\ Answers(f) \subseteq {"synack", "finack", "ack", "receive"}
<1> USE AddressTypes
<1>1. ASSUME NEW f \in ArpFrames(s)
      PROVE  /\ f \in ArpRecords /\ f.src_mac = s /\ f.sender_ip = Ip[s]
             /\ Answers(f) \subseteq {"arp", "receive"}
  <2>1. PICK op \in {"request", "reply"}, h \in Hosts \ {s} :
          f = [type |-> "arp", dst_mac |-> Everyone, src_mac |-> s,
               opcode |-> op, sender_mac |-> s, sender_ip |-> Ip[s],
               target_mac |-> Everyone, target_ip |-> Ip[h]]
    BY DEF ArpFrames
  <2>2. f \in ArpRecords /\ f.src_mac = s /\ f.sender_ip = Ip[s]
    BY <2>1 DEF ArpRecords, Macs
  <2>3. Answers(f) \subseteq {"arp", "receive"}
    BY <2>1 DEF Answers
  <2>4. QED BY <2>2, <2>3
<1>2. ASSUME NEW h \in Hosts, NEW proto \in {"icmp", "tcp"}, NEW total \in Nat
      PROVE  IpFrame(s, h, proto, total) \in IpRecords
  BY DEF IpFrame, IpRecords, Macs, TcpHeader
<1>3. ASSUME NEW f \in EchoFrames(s)
      PROVE  /\ f \in IpRecords /\ f.src_mac = s /\ f.ip_src = Ip[s]
             /\ Answers(f) \subseteq {"echo", "receive"}
  <2>1. /\ f \in IpRecords /\ f.src_mac = s /\ f.ip_src = Ip[s]
        /\ f.type = "ip" /\ f.proto = "icmp"
    <3>1. CASE \E h \in Hosts \ {s}, n \in EchoSizes, w \in EchoWords :
                 f = [IpFrame(s, h, "icmp", n) EXCEPT !.data = w]
      <4>1. PICK h \in Hosts \ {s}, n \in EchoSizes, w \in EchoWords :
              f = [IpFrame(s, h, "icmp", n) EXCEPT !.data = w]
        BY <3>1
      <4>2. n \in Nat /\ w \in Words
        BY ServerAssumption DEF Words
      <4> DEFINE g == IpFrame(s, h, "icmp", n)
      <4>3. /\ g \in IpRecords /\ g.src_mac = s /\ g.ip_src = Ip[s]
            /\ g.type = "ip" /\ g.proto = "icmp"
        BY <1>2, <4>2 DEF IpFrame
      <4> HIDE DEF g
      <4>4. f = [g EXCEPT !.data = w]
        BY <4>1 DEF g
      <4>5. QED BY <4>2, <4>3, <4>4 DEF IpRecords
    <3>2. CASE f = [IpFrame(s, Avr, "icmp", 60) EXCEPT !.icmp = 0]
      BY <3>2 DEF IpFrame, IpRecords, Macs, TcpHeader
    <3>3. QED BY <3>1, <3>2 DEF EchoFrames
  <2>2. Answers(f) \subseteq {"echo", "receive"}
    BY <2>1 DEF Answers, EchoRequest
  <2>3. QED BY <2>1, <2>2
<1>4. ASSUME NEW f \in Segments(s)
      PROVE  /\ f \in IpRecords /\ f.src_mac = s /\ f.ip_src = Ip[s]
             /\ f.src_port = Port[s]
             /\ Answers(f) \subseteq {"synack", "finack", "ack", "receive"}
  <2>1. ASSUME NEW fl \in SUBSET {"syn", "ack", "fin", "rst"}, NEW n \in Nat
        PROVE  LET g == Segment(s, fl, n)
               IN  /\ g \in IpRecords /\ g.src_mac = s /\ g.ip_src = Ip[s]
                   /\ g.src_port = Port[s] /\ g.type = "ip" /\ g.proto = "tcp"
    BY DEF Segment, IpFrame, IpRecords, Macs, IpHeader, TcpHeader
  <2>2. /\ f \in IpRecords /\ f.src_mac = s /\ f.ip_src = Ip[s]
        /\ f.src_port = Port[s] /\ f.type = "ip" /\ f.proto = "tcp"
    <3>1. CASE \E fl \in {{"syn"}, {"ack", "fin"}, {"rst"}, {"ack"}} :
                 f = Segment(s, fl, 0)
      BY <2>1, <3>1
    <3>2. CASE f = Segment(s, {"ack"}, 5)
      BY <2>1, <3>2
    <3>3. CASE f = [Segment(s, {"syn"}, 0) EXCEPT !.dst_port = Port[s]]
      <4> DEFINE g == Segment(s, {"syn"}, 0)
      <4>1. /\ g \in IpRecords /\ g.src_mac = s /\ g.ip_src = Ip[s]
            /\ g.src_port = Port[s] /\ g.type = "ip" /\ g.proto = "tcp"
        BY <2>1
      <4> HIDE DEF g
      <4>2. f = [g EXCEPT !.dst_port = Port[s]]
        BY <3>3 DEF g
      <4>3. QED BY <4>1, <4>2 DEF IpRecords
    <3>4. QED BY <3>1, <3>2, <3>3 DEF Segments
  <2>3. Answers(f) \subseteq {"synack", "finack", "ack", "receive"}
    BY <2>2 DEF Answers, EchoRequest
  <2>4. QED BY <2>2, <2>3
<1>5. QED BY <1>1, <1>3, <1>4

(* ip_generate_header, for a given identification.                         *)
Headed(b, total, proto, ip, ident) ==
  LET cleared == [b EXCEPT !.total = total, !.ident = ident,
                           !.proto = proto, !.ip_dst = ip,
                           !.ip_src = Ip[Avr], !.ip_checksum = 0]
  IN  [cleared EXCEPT !.ip_checksum = software_checksum(IpSum(cleared))]

(* The header of ip.c: whom it is for, and a checksum that is right.       *)
HeaderRight(f, mac, total, proto, ip) ==
  /\ f \in IpRecords /\ f.dst_mac = mac /\ f.src_mac = Avr
  /\ f.total = total /\ f.proto = proto
  /\ f.ip_dst = ip /\ f.ip_src = Ip[Avr]
  /\ Verified(IpSum(f))

LEMMA IpHeaderRight ==
  ASSUME NEW b \in IpRecords, NEW mac \in Macs, NEW total \in Nat,
         NEW proto \in {"icmp", "tcp"}, NEW ip \in Words, NEW ident \in Nat,
         NEW g, g = Headed(eth_generate_header(b, "ip", mac),
                           total, proto, ip, ident)
  PROVE  HeaderRight(g, mac, total, proto, ip)
<1> DEFINE e == eth_generate_header(b, "ip", mac)
           c == [e EXCEPT !.total = total, !.ident = ident,
                          !.proto = proto, !.ip_dst = ip,
                          !.ip_src = Ip[Avr], !.ip_checksum = 0]
           w == software_checksum(IpSum(c))
           f == [c EXCEPT !.ip_checksum = w]
<1> USE AddressTypes
<1>1. e \in IpRecords /\ e.dst_mac = mac /\ e.src_mac = Avr
  BY DEF eth_generate_header, IpRecords, Macs
<1> HIDE DEF e
<1>2. /\ c \in IpRecords /\ c.dst_mac = mac /\ c.src_mac = Avr
      /\ c.total = total /\ c.ident = ident /\ c.proto = proto
      /\ c.ip_dst = ip /\ c.ip_src = Ip[Avr] /\ c.ip_checksum = 0
  BY <1>1 DEF IpRecords
<1> HIDE DEF c
<1>3. /\ c.total \in Nat /\ c.ident \in Nat /\ Protocol[c.proto] \in Nat
      /\ c.ip_src \in Nat /\ c.ip_dst \in Nat
  BY <1>2, Widths DEF Protocol, Words
<1>4. IpSum(c) \in Nat
  BY <1>2, <1>3 DEF IpSum
<1>5. w \in Words /\ Verified(IpSum(c) + w)
  BY <1>4, ChecksumRight DEF Words
<1> HIDE DEF w
<1>6. /\ f \in IpRecords /\ f.dst_mac = mac /\ f.src_mac = Avr
      /\ f.total = total /\ f.ident = c.ident /\ f.proto = proto
      /\ f.ip_dst = ip /\ f.ip_src = Ip[Avr] /\ f.ip_checksum = w
  BY <1>2, <1>5 DEF IpRecords
<1>7. IpSum(f) = IpSum(c) + w
  <2>1. w \in Nat
    BY <1>5, Widths DEF Words
  <2> HIDE DEF f
  <2>2. QED BY <1>2, <1>3, <1>6, <2>1 DEF IpSum
<1> HIDE DEF f
<1>8. f = g
  BY DEF f, w, c, e, Headed
<1>9. QED BY <1>5, <1>6, <1>7, <1>8 DEF HeaderRight

(* What each answer establishes of the frame sent.                         *)
FrameRight == AnswersGoToAsker /\ LengthsAgree /\ ChecksumVerifies

(* A packet of tcp.c.                                                      *)
LEMMA PacketRight ==
  ASSUME rxtx_buffer \in IpRecords, ip_identfier \in Nat,
         h_asker \in Stations, client_mac = h_asker,
         client_ip = Ip[h_asker], dest_port = Port[h_asker],
         SEQ' \in Bytes, SEQACK' \in Bytes,
         NEW dlength \in Nat, NEW options \in Nat,
         NEW flags \in SUBSET {"syn", "ack", "fin", "rst"},
         options = IF "syn" \in flags THEN 4 ELSE 0,
         Packet(dlength, flags, options)
  PROVE  /\ rxtx_buffer' \in IpRecords /\ sent' \in Nat
         /\ ip_identfier' \in Nat /\ UNCHANGED asker
         /\ FrameRight'
<1> DEFINE total == IpTotal(dlength, options)
           i == ip_generate_header(
                  eth_generate_header(rxtx_buffer, "ip", client_mac),
                  total, "tcp", client_ip)
           c == [i EXCEPT !.hlen = TcpHeader + options, !.flags = flags,
                          !.dst_port = AnswerPort, !.src_port = Http,
                          !.checksum = 0]
           w == software_checksum(TcpSum(c, SEQ', SEQACK'))
           f == [c EXCEPT !.checksum = w]
<1>1. /\ rxtx_buffer' = f
      /\ sent' = EthHeader + IpHeader + TcpHeader + dlength + options
      /\ ip_identfier' = (ip_identfier + 1) % IdMod
      /\ UNCHANGED asker
  BY DEF Packet
<1>2. total \in Nat /\ total = IpHeader + TcpHeader + dlength + options
  BY DEF IpTotal, IpHeader, TcpHeader
<1>3. client_mac \in Macs /\ client_ip \in Words /\ dest_port \in Words
  BY AddressTypes DEF Macs
<1> HIDE DEF total
<1>4. /\ i \in IpRecords /\ i.dst_mac = client_mac /\ i.src_mac = Avr
      /\ i.total = total /\ i.proto = "tcp"
      /\ i.ip_dst = client_ip /\ i.ip_src = Ip[Avr] /\ Verified(IpSum(i))
  <2> DEFINE tcp == "tcp"
  <2>1. /\ i = Headed(eth_generate_header(rxtx_buffer, "ip", client_mac),
                      total, tcp, client_ip, ip_identfier)
        /\ tcp \in {"icmp", "tcp"}
    BY DEF ip_generate_header, Headed
  <2> HIDE DEF i, tcp
  <2>2. HeaderRight(i, client_mac, total, tcp, client_ip)
    BY <1>2, <1>3, <2>1, IpHeaderRight
  <2>3. QED BY <2>2 DEF tcp, HeaderRight
<1> HIDE DEF i
<1>5. /\ c \in IpRecords /\ c.dst_mac = client_mac /\ c.src_mac = Avr
      /\ c.type = "ip"
      /\ c.total = total /\ c.ident = i.ident /\ c.proto = "tcp"
      /\ c.ip_dst = client_ip /\ c.ip_src = Ip[Avr]
      /\ c.ip_checksum = i.ip_checksum
      /\ c.hlen = TcpHeader + options /\ c.flags = flags
      /\ c.dst_port = dest_port /\ c.src_port = Http /\ c.checksum = 0
  <2>1. TcpHeader + options \in Nat /\ dest_port \in Words
        /\ Http \in Words /\ 0 \in Words
    BY <1>3, AddressTypes DEF TcpHeader
  <2>2. QED BY <1>4, <2>1 DEF IpRecords, AnswerPort
<1> HIDE DEF c
<1>6. TcpSum(c, SEQ', SEQACK') \in Nat
      /\ \A v \in Nat, g \in IpRecords :
           /\ g.checksum = v /\ g.total = c.total /\ g.proto = c.proto
           /\ g.ip_src = c.ip_src /\ g.ip_dst = c.ip_dst
           /\ g.src_port = c.src_port /\ g.dst_port = c.dst_port
           /\ g.hlen = c.hlen
           => TcpSum(g, SEQ', SEQACK') = TcpSum(c, SEQ', SEQACK') + v
  <2>1. c.total - IpHeader \in Nat /\ c.total - IpHeader - c.hlen = dlength
    BY <1>2, <1>5 DEF IpHeader, TcpHeader
  <2>2. Protocol[c.proto] \in Nat
    BY <1>5 DEF Protocol
  <2>3. /\ c.ip_src \in Nat /\ c.ip_dst \in Nat
        /\ c.src_port \in Nat /\ c.dst_port \in Nat
    BY <1>3, <1>5, AddressTypes, Widths DEF Words
  <2>4. NumberSum(SEQ') \in Nat /\ NumberSum(SEQACK') \in Nat
    BY NumberSumType
  <2>5. PageSum(c.total - IpHeader - c.hlen) \in Nat
    BY <2>1, PageSumType
  <2>6. QED BY <1>5, <2>1, <2>2, <2>3, <2>4, <2>5 DEF TcpSum
<1>7. w \in Words /\ w \in Nat /\ Verified(TcpSum(c, SEQ', SEQACK') + w)
  BY <1>6, ChecksumRight, Widths DEF Words
<1> HIDE DEF w
<1>8. /\ f \in IpRecords /\ f.dst_mac = client_mac /\ f.src_mac = Avr
      /\ f.type = "ip"
      /\ f.total = total /\ f.ident = i.ident /\ f.proto = "tcp"
      /\ f.ip_dst = client_ip /\ f.ip_src = Ip[Avr]
      /\ f.ip_checksum = i.ip_checksum
      /\ f.hlen = TcpHeader + options /\ f.flags = flags
      /\ f.dst_port = dest_port /\ f.src_port = Http /\ f.checksum = w
  BY <1>5, <1>7 DEF IpRecords
<1> HIDE DEF f
<1>9. Verified(TcpSum(f, SEQ', SEQACK'))
  BY <1>5, <1>6, <1>7, <1>8
<1>10. Verified(IpSum(f))
  <2>1. IpSum(f) = IpSum(i)
    BY <1>4, <1>8 DEF IpSum
  <2>2. QED BY <1>4, <2>1
<1>11. sent' \in Nat /\ ip_identfier' \in Nat
  BY <1>1, AddressTypes DEF EthHeader, IpHeader, TcpHeader
<1>12. AnswersGoToAsker'
  BY <1>1, <1>8 DEF AnswersGoToAsker, asker
<1>13. LengthsAgree'
  BY <1>1, <1>2, <1>8 DEF LengthsAgree, EthHeader, IpHeader, TcpHeader
<1>14. ChecksumVerifies'
  BY <1>1, <1>8, <1>9, <1>10 DEF ChecksumVerifies
<1>15. QED BY <1>1, <1>8, <1>11, <1>12, <1>13, <1>14 DEF FrameRight

(* An echo of icmp.c.                                                      *)
LEMMA EchoRight ==
  ASSUME IInv, icmp_send_reply
  PROVE  /\ sent' \in Nat /\ ip_identfier' \in Nat /\ FrameRight'
<1> DEFINE i == ip_generate_header(
                  eth_generate_header(rxtx_buffer, "ip", client_mac),
                  rxtx_buffer.total, "icmp", client_ip)
           c == [i EXCEPT !.icmp = 0, !.checksum = 0]
           w == software_checksum(EchoSum(c, IcmpPacket))
           f == [c EXCEPT !.checksum = w]
<1>1. /\ next = "echo" /\ rxtx_buffer' = f
      /\ sent' = EthHeader + IpHeader + IcmpPacket
      /\ ip_identfier' = (ip_identfier + 1) % IdMod
      /\ UNCHANGED asker
  BY DEF icmp_send_reply
<1>2. /\ rxtx_buffer \in IpRecords /\ rxtx_buffer.total \in Nat
      /\ h_asker \in Stations /\ client_mac = h_asker
      /\ client_ip = Ip[h_asker] /\ ip_identfier \in Nat
  BY <1>1 DEF IInv, AskerInv, IpRecords
<1>3. client_mac \in Macs /\ client_ip \in Words
  BY <1>2, AddressTypes DEF Macs
<1>4. /\ i \in IpRecords /\ i.dst_mac = client_mac /\ i.src_mac = Avr
      /\ i.total = rxtx_buffer.total /\ i.proto = "icmp"
      /\ i.ip_dst = client_ip /\ i.ip_src = Ip[Avr] /\ Verified(IpSum(i))
  <2> DEFINE icmp == "icmp"
             total == rxtx_buffer.total
  <2>1. /\ i = Headed(eth_generate_header(rxtx_buffer, "ip", client_mac),
                      total, icmp, client_ip, ip_identfier)
        /\ icmp \in {"icmp", "tcp"} /\ total \in Nat
    BY <1>2 DEF ip_generate_header, Headed
  <2> HIDE DEF i, icmp, total
  <2>2. HeaderRight(i, client_mac, total, icmp, client_ip)
    BY <1>2, <1>3, <2>1, IpHeaderRight
  <2>3. QED BY <2>2 DEF total, icmp, HeaderRight
<1> HIDE DEF i
<1>5. /\ c \in IpRecords /\ c.dst_mac = client_mac /\ c.src_mac = Avr
      /\ c.type = "ip"
      /\ c.total = i.total /\ c.ident = i.ident /\ c.proto = "icmp"
      /\ c.ip_dst = client_ip /\ c.ip_src = Ip[Avr]
      /\ c.ip_checksum = i.ip_checksum /\ c.icmp = 0 /\ c.checksum = 0
  BY <1>4, AddressTypes DEF IpRecords
<1> HIDE DEF c
<1>6. /\ EchoSum(c, IcmpPacket) \in Nat
      /\ \A v \in Nat, g \in IpRecords :
           g = [c EXCEPT !.checksum = v]
             => EchoSum(g, IcmpPacket) = EchoSum(c, IcmpPacket) + v
  <2>1. /\ IcmpPacket = 40 /\ (40 - 4) \div 2 = 18 /\ c.data \in Nat
        /\ Byte \in Nat
    BY <1>5, Widths DEF IcmpPacket, IpRecords, Words
  <2>2. \A g \in IpRecords :
          EchoSum(g, IcmpPacket) = g.icmp * Byte + g.checksum + 18 * g.data
    BY <2>1 DEF EchoSum
  <2>3. c.icmp * Byte = 0
    BY <1>5, <2>1
  <2> HIDE DEF Byte
  <2>4. EchoSum(c, IcmpPacket) = 18 * c.data
    BY <1>5, <2>1, <2>2, <2>3
  <2>5. ASSUME NEW v \in Nat, NEW g \in IpRecords, g = [c EXCEPT !.checksum = v]
        PROVE  EchoSum(g, IcmpPacket) = EchoSum(c, IcmpPacket) + v
    <3>1. g.icmp = c.icmp /\ g.data = c.data /\ g.checksum = v
      BY <1>5, <2>5 DEF IpRecords
    <3>2. QED BY <2>1, <2>2, <2>3, <2>4, <3>1
  <2>6. QED BY <2>1, <2>4, <2>5
<1>7. w \in Words /\ w \in Nat /\ Verified(EchoSum(c, IcmpPacket) + w)
  BY <1>6, ChecksumRight, Widths DEF Words
<1> HIDE DEF w
<1>8. /\ f \in IpRecords /\ f.dst_mac = client_mac /\ f.src_mac = Avr
      /\ f.type = "ip"
      /\ f.total = i.total /\ f.ident = i.ident /\ f.proto = "icmp"
      /\ f.ip_dst = client_ip /\ f.ip_src = Ip[Avr]
      /\ f.ip_checksum = i.ip_checksum /\ f.icmp = 0 /\ f.checksum = w
  BY <1>5, <1>7 DEF IpRecords
<1>9. Verified(EchoSum(f, IcmpPacket))
  <2>1. EchoSum(f, IcmpPacket) = EchoSum(c, IcmpPacket) + w
    BY <1>6, <1>7, <1>8
  <2>2. QED BY <1>7, <2>1
<1> HIDE DEF f
<1>10. Verified(IpSum(f))
  <2>1. IpSum(f) = IpSum(i)
    BY <1>4, <1>8 DEF IpSum
  <2>2. QED BY <1>4, <2>1
<1>11. sent' \in Nat /\ ip_identfier' \in Nat
  BY <1>1, <1>2, AddressTypes DEF EthHeader, IpHeader, IcmpPacket
<1>12. AnswersGoToAsker'
  BY <1>1, <1>2, <1>8 DEF AnswersGoToAsker, asker
<1>13. LengthsAgree'
  <2>1. rxtx_buffer'.total = IpHeader + IcmpPacket \/ OddEcho'
    BY <1>1, <1>8 DEF OddEcho
  <2>2. CASE rxtx_buffer'.total = IpHeader + IcmpPacket
    BY <1>1, <1>8, <2>2 DEF LengthsAgree, EthHeader, IpHeader, IcmpPacket
  <2>3. CASE OddEcho'
    BY <2>3 DEF LengthsAgree
  <2>4. QED BY <2>1, <2>2, <2>3
<1>14. ChecksumVerifies'
  <2>1. OddEcho' \/ rxtx_buffer'.total - IpHeader = IcmpPacket
    <3>1. rxtx_buffer'.total = IpHeader + IcmpPacket \/ OddEcho'
      BY <1>1, <1>8 DEF OddEcho
    <3>2. QED BY <3>1 DEF IpHeader, IcmpPacket
  <2>2. QED BY <1>1, <1>8, <1>9, <1>10, <2>1 DEF ChecksumVerifies
<1>15. QED BY <1>11, <1>12, <1>13, <1>14 DEF FrameRight

(* A reply of arp.c: the asker's address is copied before it is covered.   *)
LEMMA ArpRight ==
  ASSUME IInv, arp_send_reply
  PROVE  sent' \in Nat /\ FrameRight'
<1> DEFINE e == eth_generate_header(rxtx_buffer, "arp", client_mac)
           r == [e EXCEPT !.opcode = "reply"]
           f == arp_generate_packet(r, client_mac)
<1>1. /\ next = "arp" /\ rxtx_buffer' = f /\ sent' = EthHeader + ArpPacket
      /\ UNCHANGED asker
  BY DEF arp_send_reply
<1>2. /\ rxtx_buffer \in ArpRecords /\ rxtx_buffer.sender_ip = Ip[h_asker]
      /\ h_asker \in Stations /\ client_mac = h_asker
  BY <1>1 DEF IInv, AskerInv
<1>3. /\ e \in ArpRecords /\ e.dst_mac = client_mac /\ e.src_mac = Avr
      /\ e.sender_ip = Ip[h_asker] /\ e.type = "arp"
  BY <1>2, AddressTypes DEF eth_generate_header, ArpRecords, Macs
<1> HIDE DEF e
<1>4. /\ r \in ArpRecords /\ r.dst_mac = client_mac /\ r.src_mac = Avr
      /\ r.sender_ip = Ip[h_asker] /\ r.type = "arp"
  BY <1>3 DEF ArpRecords
<1> HIDE DEF r
<1>5. /\ f.dst_mac = client_mac /\ f.src_mac = Avr /\ f.type = "arp"
      /\ f.target_mac = client_mac /\ f.target_ip = Ip[h_asker]
      /\ f.sender_mac = Avr /\ f.sender_ip = Ip[Avr]
  BY <1>4 DEF arp_generate_packet, ArpRecords
<1> HIDE DEF f
<1>6. AnswersGoToAsker'
  BY <1>1, <1>2, <1>5 DEF AnswersGoToAsker, asker
<1>7. LengthsAgree' /\ ChecksumVerifies'
  BY <1>1, <1>5 DEF LengthsAgree, ChecksumVerifies
<1>8. QED BY <1>1, <1>6, <1>7 DEF FrameRight, EthHeader, ArpPacket
-----------------------------------------------------------------------------
(* Every step keeps the invariant.                                         *)

LEMMA NothingSent == ASSUME sent' = 0 PROVE FrameRight'
BY DEF FrameRight, AnswersGoToAsker, LengthsAgree, ChecksumVerifies

LEMMA NumbersKept ==
  ASSUME NumberTypes, NumberInv, UNCHANGED numbers,
         next \in {"receive", "arp", "echo"},
         next' \in {"receive", "arp", "echo"}
  PROVE  NumberTypes' /\ NumberInv'
<1>1. UNCHANGED <<SEQ, SEQACK, seqnum, packet, prev_dlength0, prev_dlength2,
                  prev_dlength, h_expected, h_received>>
  BY DEF numbers, header, lengths
<1>2. NumberTypes'
  BY <1>1 DEF NumberTypes
<1>3. NumberInv'
  BY DEF NumberInv, Parts
<1>4. QED BY <1>2, <1>3

LEMMA ReceiveKeeps ==
  ASSUME IInv, Receive PROVE IInv'
<1>1. PICK s \in Stations : ReceiveArp(s) \/ ReceiveEcho(s) \/ ReceiveSegment(s)
  BY DEF Receive
<1>2. /\ next = "receive" /\ sent' = 0 /\ h_asker' = s
      /\ UNCHANGED ip_identfier
  BY <1>1 DEF ReceiveArp, ReceiveEcho, ReceiveSegment, Take
<1>3. NumberTypes' /\ NumberInv' /\ AskerInv'
  <2>1. CASE ReceiveArp(s)
    <3>1. PICK f \in ArpFrames(s) :
            /\ Take(f, s) /\ next' \in Answers(f)
            /\ UNCHANGED <<numbers, client_ip, dest_port>>
      BY <2>1 DEF ReceiveArp
    <3>2. /\ f \in ArpRecords /\ f.src_mac = s /\ f.sender_ip = Ip[s]
          /\ next' \in {"arp", "receive"}
      BY <3>1, FramesReceived
    <3>3. NumberTypes' /\ NumberInv'
      BY <1>2, <3>1, <3>2, NumbersKept DEF IInv
    <3>4. AskerInv'
      BY <3>1, <3>2 DEF Take, AskerInv, TcpStages
    <3>5. QED BY <3>3, <3>4
  <2>2. CASE ReceiveEcho(s)
    <3>1. PICK f \in EchoFrames(s) :
            /\ Take(f, s) /\ client_ip' = f.ip_src /\ next' \in Answers(f)
            /\ UNCHANGED <<numbers, dest_port>>
      BY <2>2 DEF ReceiveEcho
    <3>2. /\ f \in IpRecords /\ f.src_mac = s /\ f.ip_src = Ip[s]
          /\ next' \in {"echo", "receive"}
      BY <3>1, FramesReceived
    <3>3. NumberTypes' /\ NumberInv'
      BY <1>2, <3>1, <3>2, NumbersKept DEF IInv
    <3>4. AskerInv'
      BY <3>1, <3>2 DEF Take, AskerInv, TcpStages
    <3>5. QED BY <3>3, <3>4
  <2>3. CASE ReceiveSegment(s)
    <3> DEFINE Gives(to) ==
          \/ to = "receive" /\ next' = to /\ UNCHANGED numbers
          \/ to # "receive" /\ \E n \in Requests : Numbers!Receive(n, to)
    <3>0. PICK f \in Segments(s) :
            /\ Take(f, s) /\ client_ip' = f.ip_src /\ dest_port' = f.src_port
            /\ \E to \in Answers(f) : Gives(to)
      BY <2>3 DEF ReceiveSegment
    <3>1. PICK to \in Answers(f) : Gives(to)
      BY <3>0
    <3>2. /\ f \in IpRecords /\ f.src_mac = s /\ f.ip_src = Ip[s]
          /\ f.src_port = Port[s]
          /\ to \in {"synack", "finack", "ack", "receive"}
      BY FramesReceived
    <3>3. NumberTypes' /\ NumberInv' /\ next' = to
      <4>1. CASE to = "receive"
        BY <1>2, <3>1, <4>1, NumbersKept DEF IInv
      <4>2. CASE to # "receive"
        <5>1. PICK n \in Requests : Numbers!Receive(n, to)
          BY <3>1, <4>2
        <5>2. next' = to
          BY <5>1 DEF Numbers!Receive
        <5>3. to \in {"synack", "finack", "ack"}
          BY <3>2, <4>2
        <5>4. QED BY <5>1, <5>2, <5>3, ReceiveNumbers DEF IInv
      <4>3. QED BY <4>1, <4>2
    <3>4. AskerInv'
      BY <3>0, <3>2, <3>3 DEF Take, AskerInv, TcpStages
    <3>5. QED BY <3>3, <3>4
  <2>4. QED BY <1>1, <2>1, <2>2, <2>3
<1>4. FrameRight'
  BY <1>2, NothingSent
<1>5. QED BY <1>2, <1>3, <1>4 DEF IInv, FrameRight

(* An ARP reply and an echo are a whole answer, after which the next frame *)
(* is received.                                                            *)
LEMMA SingleKeeps ==
  ASSUME IInv, arp_send_reply \/ icmp_send_reply PROVE IInv'
<1>1. /\ next \in {"arp", "echo"} /\ next' = "receive"
      /\ UNCHANGED <<numbers, asker>>
  BY DEF arp_send_reply, icmp_send_reply
<1>2. NumberTypes' /\ NumberInv'
  BY <1>1, NumbersKept DEF IInv
<1>3. AskerInv'
  BY <1>1 DEF AskerInv, TcpStages
<1>4. ip_identfier' \in Nat /\ sent' \in Nat /\ FrameRight'
  <2>1. CASE arp_send_reply
    BY <2>1, ArpRight DEF arp_send_reply, IInv
  <2>2. CASE icmp_send_reply
    BY <2>2, EchoRight
  <2>3. QED BY <2>1, <2>2
<1>5. QED BY <1>2, <1>3, <1>4 DEF IInv, FrameRight

(* The packets of TCP: the numbers are set before the packet is made.      *)
LEMMA PacketKeeps ==
  ASSUME IInv, next \in TcpStages, next' \in TcpStages \cup {"receive"},
         NumberTypes', NumberInv',
         NEW dlength \in Nat, NEW options \in Nat,
         NEW flags \in SUBSET {"syn", "ack", "fin", "rst"},
         options = IF "syn" \in flags THEN 4 ELSE 0,
         Packet(dlength, flags, options)
  PROVE  IInv'
<1>1. /\ rxtx_buffer \in IpRecords /\ ip_identfier \in Nat
      /\ h_asker \in Stations /\ client_mac = h_asker
      /\ client_ip = Ip[h_asker] /\ dest_port = Port[h_asker]
  BY DEF IInv, AskerInv, TcpStages
<1>2. SEQ' \in Bytes /\ SEQACK' \in Bytes
  BY DEF NumberTypes
<1>3. /\ rxtx_buffer' \in IpRecords /\ sent' \in Nat
      /\ ip_identfier' \in Nat /\ UNCHANGED asker /\ FrameRight'
  BY <1>1, <1>2, PacketRight
<1>4. AskerInv'
  BY <1>1, <1>3 DEF AskerInv, TcpStages, asker
<1>5. QED BY <1>3, <1>4 DEF IInv, FrameRight

LEMMA TcpKeeps ==
  ASSUME IInv, SynAck \/ FinAck \/ Ack \/ Page PROVE IInv'
<1> USE DEF TcpStages
<1>1. CASE SynAck
  <2>1. /\ next = "synack" /\ next' = "receive"
        /\ NumberTypes' /\ NumberInv' /\ Packet(0, {"syn", "ack"}, 4)
    BY <1>1, SynAckNumbers DEF SynAck, Numbers!SendSynAck, IInv
  <2>2. QED BY <2>1, PacketKeeps
<1>2. CASE FinAck
  <2>1. /\ next = "finack" /\ next' = "receive"
        /\ NumberTypes' /\ NumberInv' /\ Packet(0, {"ack"}, 0)
    BY <1>2, FinAckNumbers DEF FinAck, Numbers!SendFinAck, IInv
  <2>2. QED BY <2>1, PacketKeeps
<1>3. CASE Ack
  <2>1. /\ next = "ack" /\ next' = "part0"
        /\ NumberTypes' /\ NumberInv' /\ Packet(0, {"ack"}, 0)
    BY <1>3, AckNumbers DEF Ack, Numbers!SendAck, IInv
  <2>2. QED BY <2>1, PacketKeeps
<1>4. CASE Page
  <2> DEFINE flags == IF next \in {"part1", "part3"} THEN {"ack", "fin"}
                      ELSE {"ack"}
  <2>1. PICK dlength \in Lengths : /\ Numbers!SendPage(dlength)
                                   /\ Packet(dlength, flags, 0)
    BY <1>4 DEF Page
  <2>2. dlength \in Nat /\ flags \in SUBSET {"syn", "ack", "fin", "rst"}
        /\ "syn" \notin flags
    BY ConstantTypes
  <2> HIDE DEF flags
  <2>3. /\ NumberTypes' /\ NumberInv' /\ next \in Parts
        /\ next' \in {"receive", "part1", "part2", "part3"}
    BY <2>1, PageNumbers DEF IInv
  <2>4. QED BY <2>1, <2>2, <2>3, PacketKeeps DEF Parts
<1>5. QED BY <1>1, <1>2, <1>3, <1>4

LEMMA StutterKeeps ==
  ASSUME IInv, UNCHANGED vars PROVE IInv'
<1>1. UNCHANGED <<SEQ, SEQACK, seqnum, packet, prev_dlength0, prev_dlength2,
                  prev_dlength, h_expected, h_received, next, rxtx_buffer,
                  sent, client_mac, client_ip, dest_port, ip_identfier,
                  h_asker>>
  BY DEF vars, numbers, header, lengths, asker
<1>2. NumberTypes' /\ NumberInv' /\ AskerInv'
  BY <1>1 DEF IInv, NumberTypes, NumberInv, AskerInv
<1>3. FrameRight'
  BY <1>1 DEF IInv, FrameRight, AnswersGoToAsker, LengthsAgree, OddEcho,
              ChecksumVerifies
<1>4. QED BY <1>1, <1>2, <1>3 DEF IInv, FrameRight

LEMMA InitHolds == ASSUME Init PROVE IInv
<1>1. NumberTypes /\ NumberInv
  BY InitNumbers DEF Init
<1>2. next = "receive" /\ sent = 0 /\ ip_identfier = 1
  BY DEF Init, Numbers!Init
<1>3. AskerInv /\ AnswersGoToAsker /\ LengthsAgree /\ ChecksumVerifies
  BY <1>2 DEF AskerInv, TcpStages, AnswersGoToAsker, LengthsAgree,
              ChecksumVerifies
<1>4. QED BY <1>1, <1>2, <1>3 DEF IInv
-----------------------------------------------------------------------------
(* The buffer, the numbers and what is kept of the request always belong   *)
(* together.                                                               *)
THEOREM InductiveInvariant == Spec => []IInv
<1>1. Init => IInv
  BY InitHolds
<1>2. IInv /\ [Next]_vars => IInv'
  <2> SUFFICES ASSUME IInv, [Next]_vars PROVE IInv'
    OBVIOUS
  <2>1. CASE Receive
    BY <2>1, ReceiveKeeps
  <2>2. CASE arp_send_reply \/ icmp_send_reply
    BY <2>2, SingleKeeps
  <2>3. CASE SynAck \/ FinAck \/ Ack \/ Page
    BY <2>3, TcpKeeps
  <2>4. CASE UNCHANGED vars
    BY <2>4, StutterKeeps
  <2>5. QED BY <2>1, <2>2, <2>3, <2>4 DEF Next
<1>3. QED BY <1>1, <1>2, PTL DEF Spec

(* Every frame of an answer goes to the host that asked (main.c:38-49).    *)
THEOREM AnswersReachAsker == Spec => []AnswersGoToAsker
<1>1. IInv => AnswersGoToAsker
  BY DEF IInv
<1>2. QED BY <1>1, InductiveInvariant, PTL

(* The lengths in the headers are what is sent (tcp.c:203-238).            *)
THEOREM LengthsAlwaysAgree == Spec => []LengthsAgree
<1>1. IInv => LengthsAgree
  BY DEF IInv
<1>2. QED BY <1>1, InductiveInvariant, PTL

(* The receiver of an answer finds every checksum right, for addresses,    *)
(* ports, numbers and lengths of any size (ethernet.c:52-70).              *)
THEOREM ChecksumsVerify == Spec => []ChecksumVerifies
<1>1. IInv => ChecksumVerifies
  BY DEF IInv
<1>2. QED BY <1>1, InductiveInvariant, PTL

(* What a step does to the numbers, whoever takes it.                      *)
LEMMA NumbersStep ==
  ASSUME IInv, [Next]_vars
  PROVE  \/ UNCHANGED Numbers!vars
         \/ /\ next \in Numbers!Sends => Acknowledges /\ StartsAtNext
            /\ next = "synack" => Acknowledges
<1> USE DEF Numbers!Sends
<1>1. CASE Receive
  BY <1>1 DEF Receive, ReceiveArp, ReceiveEcho, ReceiveSegment, Take
<1>2. CASE arp_send_reply \/ icmp_send_reply
  BY <1>2 DEF arp_send_reply, icmp_send_reply
<1>3. CASE SynAck
  BY <1>3, SynAckNumbers DEF SynAck, Numbers!SendSynAck, IInv
<1>4. CASE FinAck
  BY <1>4, FinAckNumbers DEF FinAck, Numbers!SendFinAck, IInv
<1>5. CASE Ack
  BY <1>5, AckNumbers DEF Ack, Numbers!SendAck, IInv
<1>6. CASE Page
  BY <1>6, PageNumbers DEF Page, Parts, IInv
<1>7. CASE UNCHANGED vars
  BY <1>7 DEF vars, numbers, header, lengths, Numbers!vars, Numbers!header,
              Numbers!lengths, Numbers!history
<1>8. QED BY <1>1, <1>2, <1>3, <1>4, <1>5, <1>6, <1>7 DEF Next

(* The parts of an answer join without a gap or an overlap, past the end   *)
(* of a DWORD included, for numbers of any width (tcp.c:120-197).          *)
THEOREM PartsJoin == Spec => Contiguous
<1>1. IInv /\ [Next]_vars =>
        [(next \in Numbers!Sends) => Numbers!Value(SEQ') = h_expected]_(Numbers!vars)
  <2> SUFFICES ASSUME IInv, [Next]_vars, next \in Numbers!Sends,
                      ~ UNCHANGED Numbers!vars
               PROVE  Numbers!Value(SEQ') = h_expected
    OBVIOUS
  <2>1. StartsAtNext
    BY NumbersStep
  <2>2. QED BY <2>1 DEF StartsAtNext, Value
<1>2. QED BY <1>1, InductiveInvariant, PTL DEF Spec, Contiguous, Numbers!Contiguous

(* Every packet of an answer acknowledges the byte after the first one of  *)
(* the segment it answers, through all carries (tcp.c:110-125).            *)
THEOREM AcksAreRight == Spec => AcksFirstByte
<1>1. IInv /\ [Next]_vars =>
        [(next \in Numbers!Sends \cup {"synack"}) =>
           Numbers!Value(SEQACK') = (h_received + 1) % Numbers!Number]_(Numbers!vars)
  <2> SUFFICES ASSUME IInv, [Next]_vars, next \in Numbers!Sends \cup {"synack"},
                      ~ UNCHANGED Numbers!vars
               PROVE  Numbers!Value(SEQACK') = (h_received + 1) % Numbers!Number
    OBVIOUS
  <2>1. Acknowledges
    BY NumbersStep
  <2>2. QED BY <2>1 DEF Acknowledges, Value, Number
<1>2. QED BY <1>1, InductiveInvariant, PTL
          DEF Spec, AcksFirstByte, Numbers!AcksFirstByte
=============================================================================
