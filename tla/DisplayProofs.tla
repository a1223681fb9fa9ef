--------------------------- MODULE DisplayProofs ---------------------------
(***************************************************************************)
(* Proofs about Display, for every range of the setpoint and every set of  *)
(* temperatures: each digit that is lit is one, and the setpoint and the   *)
(* compensation read as they were asked for, or a tenth less.              *)
(***************************************************************************)
EXTENDS Display, SequenceTheorems, TLAPS

LEMMA DegreeIs == Degree = 2097152
BY DEF Degree

(* Which of the eight spacings a value has.                                *)
Scaled(v, e) ==
  v \div (Degree * 2 ^ e) \in (IF e = 0 THEN 0 ELSE 4) .. 7

LEMMA ScaledIs ==
  ASSUME NEW v \in Nat
  PROVE  /\ Scaled(v, 0) <=> v < 8 * Degree
         /\ Scaled(v, 1) <=> 8 * Degree <= v /\ v < 16 * Degree
         /\ Scaled(v, 2) <=> 16 * Degree <= v /\ v < 32 * Degree
         /\ Scaled(v, 3) <=> 32 * Degree <= v /\ v < 64 * Degree
         /\ Scaled(v, 4) <=> 64 * Degree <= v /\ v < 128 * Degree
         /\ Scaled(v, 5) <=> 128 * Degree <= v /\ v < 256 * Degree
         /\ Scaled(v, 6) <=> 256 * Degree <= v /\ v < 512 * Degree
         /\ Scaled(v, 7) <=> 512 * Degree <= v /\ v < 1024 * Degree
<1>1. Scaled(v, 0) <=> v < 8 * Degree
  BY DegreeIs DEF Scaled
<1>2. Scaled(v, 1) <=> 8 * Degree <= v /\ v < 16 * Degree
  BY DegreeIs DEF Scaled
<1>3. Scaled(v, 2) <=> 16 * Degree <= v /\ v < 32 * Degree
  BY DegreeIs DEF Scaled
<1>4. Scaled(v, 3) <=> 32 * Degree <= v /\ v < 64 * Degree
  BY DegreeIs DEF Scaled
<1>5. Scaled(v, 4) <=> 64 * Degree <= v /\ v < 128 * Degree
  BY DegreeIs DEF Scaled
<1>6. Scaled(v, 5) <=> 128 * Degree <= v /\ v < 256 * Degree
  BY DegreeIs DEF Scaled
<1>7. Scaled(v, 6) <=> 256 * Degree <= v /\ v < 512 * Degree
  BY DegreeIs DEF Scaled
<1>8. Scaled(v, 7) <=> 512 * Degree <= v /\ v < 1024 * Degree
  BY DegreeIs DEF Scaled
<1>9. QED BY <1>1, <1>2, <1>3, <1>4, <1>5, <1>6, <1>7, <1>8

LEMMA SpacingIs ==
  ASSUME NEW v \in Nat
  PROVE  /\ v < 8 * Degree => Spacing(v) = 1
         /\ 8 * Degree <= v /\ v < 16 * Degree => Spacing(v) = 2
         /\ 16 * Degree <= v /\ v < 32 * Degree => Spacing(v) = 4
         /\ 32 * Degree <= v /\ v < 64 * Degree => Spacing(v) = 8
         /\ 64 * Degree <= v /\ v < 128 * Degree => Spacing(v) = 16
         /\ 128 * Degree <= v /\ v < 256 * Degree => Spacing(v) = 32
         /\ 256 * Degree <= v /\ v < 512 * Degree => Spacing(v) = 64
         /\ 512 * Degree <= v /\ v < 1024 * Degree => Spacing(v) = 128
<1>1. Spacing(v) = 2 ^ (CHOOSE e \in 0 .. 7 : Scaled(v, e))
  BY DEF Spacing, Scaled
<1>2. ASSUME NEW d \in 0 .. 7, Scaled(v, d), \A e \in 0 .. 7 : Scaled(v, e) => e = d
      PROVE  Spacing(v) = 2 ^ d
  <2>1. (CHOOSE e \in 0 .. 7 : Scaled(v, e)) = d
    BY <1>2
  <2>2. QED BY <1>1, <2>1
<1>3. \A e \in 0 .. 7 : \/ e = 0 \/ e = 1 \/ e = 2 \/ e = 3
                         \/ e = 4 \/ e = 5 \/ e = 6 \/ e = 7
  OBVIOUS
<1> DEFINE Only(d) == Scaled(v, d) /\ \A e \in 0 .. 7 : Scaled(v, e) => e = d
<1>4. /\ v < 8 * Degree => Only(0)
      /\ 8 * Degree <= v /\ v < 16 * Degree => Only(1)
      /\ 16 * Degree <= v /\ v < 32 * Degree => Only(2)
      /\ 32 * Degree <= v /\ v < 64 * Degree => Only(3)
      /\ 64 * Degree <= v /\ v < 128 * Degree => Only(4)
      /\ 128 * Degree <= v /\ v < 256 * Degree => Only(5)
      /\ 256 * Degree <= v /\ v < 512 * Degree => Only(6)
      /\ 512 * Degree <= v /\ v < 1024 * Degree => Only(7)
  BY ScaledIs, <1>3, DegreeIs
<1>5. \A d \in 0 .. 7 : Only(d) => Spacing(v) = 2 ^ d
  BY <1>2
<1>6. /\ 2 ^ 0 = 1 /\ 2 ^ 1 = 2 /\ 2 ^ 2 = 4 /\ 2 ^ 3 = 8
      /\ 2 ^ 4 = 16 /\ 2 ^ 5 = 32 /\ 2 ^ 6 = 64 /\ 2 ^ 7 = 128
  OBVIOUS
<1> HIDE DEF Only
<1>7. /\ Only(0) => Spacing(v) = 1
      /\ Only(1) => Spacing(v) = 2
      /\ Only(2) => Spacing(v) = 4
      /\ Only(3) => Spacing(v) = 8
      /\ Only(4) => Spacing(v) = 16
      /\ Only(5) => Spacing(v) = 32
      /\ Only(6) => Spacing(v) = 64
      /\ Only(7) => Spacing(v) = 128
  BY <1>5, <1>6
<1>8. QED BY <1>4, <1>7

(* The nearest float: the one below, unless the rest is over half a        *)
(* spacing.  There is no tie where the fraction is not zero.               *)
LEMMA NearestIs ==
  ASSUME NEW v \in Nat, NEW f \in {13, 51},
         NEW g \in {1, 2, 4, 8, 16}, Spacing(v) = g
  PROVE  Nearest(v, f) = IF 64 * (v % g) + f > 32 * g
                         THEN v - (v % g) + g ELSE v - (v % g)
<1>1. CASE g = 1
  BY <1>1 DEF Nearest
<1>2. CASE g = 2
  BY <1>2 DEF Nearest
<1>3. CASE g = 4
  BY <1>3 DEF Nearest
<1>4. CASE g = 8
  BY <1>4 DEF Nearest
<1>5. CASE g = 16
  BY <1>5 DEF Nearest
<1>6. QED BY <1>1, <1>2, <1>3, <1>4, <1>5

(* Of a whole number, a multiple of the spacing that is not further off    *)
(* than half of it.                                                        *)
Near(r, v, g) ==
  /\ r \in Nat
  /\ r = v - (v % g) \/ r = v - (v % g) + g
  /\ 2 * r <= 2 * v + g

LEMMA NearestWhole ==
  ASSUME NEW v \in Nat, NEW g \in {1, 2, 4, 8, 16, 32, 64, 128}, Spacing(v) = g
  PROVE  Near(Nearest(v, 0), v, g)
<1>1. CASE g = 1
  BY <1>1 DEF Nearest, Near
<1>2. CASE g = 2
  BY <1>2 DEF Nearest, Near
<1>3. CASE g = 4
  BY <1>3 DEF Nearest, Near
<1>4. CASE g = 8
  BY <1>4 DEF Nearest, Near
<1>5. CASE g = 16
  BY <1>5 DEF Nearest, Near
<1>6. CASE g = 32
  BY <1>6 DEF Nearest, Near
<1>7. CASE g = 64
  BY <1>7 DEF Nearest, Near
<1>8. CASE g = 128
  BY <1>8 DEF Nearest, Near
<1>9. QED BY <1>1, <1>2, <1>3, <1>4, <1>5, <1>6, <1>7, <1>8
-----------------------------------------------------------------------------
(* The float that stands for k tenths, however it was arrived at: that of  *)
(* a whole number of steps of the size a tenth has there, but for a few    *)
(* units.  Adding or taking away 0.1 always moves by one such step.        *)
Held(v, k) ==
  /\ v \in Nat /\ k \in Nat
  /\ 4 * Degree <= v /\ v < 64 * Degree
  /\ v < 8 * Degree => v - 209715 * k \in {-79, -63, -59, -39, 9, 10, 11}
  /\ 8 * Degree <= v /\ v < 16 * Degree
       => v - 209716 * k \in {-160, -144, -140, -120, -72, -70}
  /\ 16 * Degree <= v /\ v < 32 * Degree
       => v - 209716 * k \in {-160, -144, -140, -120, -72}
  /\ 32 * Degree <= v => v - 209712 * k \in {1120, 1136, 1160, 1208}

LEMMA TenthUp ==
  ASSUME NEW v, NEW k, Held(v, k), Tenth(v, 1) <= 64 * Degree
  PROVE  Held(Tenth(v, 1), k + 1)
<1> DEFINE u == v + 209715
<1>1. v \in Nat /\ k \in Nat /\ u \in Nat /\ Tenth(v, 1) = Nearest(u, 13)
  BY DEF Held, Tenth
<1>2. CASE u < 8 * Degree
  <2>1. Nearest(u, 13) = u
    BY <1>1, <1>2, SpacingIs, NearestIs
  <2>2. QED BY <1>1, <1>2, <2>1, DegreeIs DEF Held
<1>3. CASE 8 * Degree <= u /\ u < 16 * Degree
  <2>1. Nearest(u, 13) = IF u % 2 = 1 THEN u + 1 ELSE u
    BY <1>1, <1>3, SpacingIs, NearestIs
  <2>2. QED BY <1>1, <1>3, <2>1, DegreeIs DEF Held
<1>4. CASE 16 * Degree <= u /\ u < 32 * Degree
  <2>1. Nearest(u, 13) = IF u % 4 > 1 THEN u - (u % 4) + 4 ELSE u - (u % 4)
    BY <1>1, <1>4, SpacingIs, NearestIs
  <2>2. QED BY <1>1, <1>4, <2>1, DegreeIs DEF Held
<1>5. CASE 32 * Degree <= u /\ u < 64 * Degree
  <2>1. Nearest(u, 13) = IF u % 8 > 3 THEN u - (u % 8) + 8 ELSE u - (u % 8)
    BY <1>1, <1>5, SpacingIs, NearestIs
  <2>2. QED BY <1>1, <1>5, <2>1, DegreeIs DEF Held
<1>6. CASE 64 * Degree <= u
  <2>1. 32 * Degree <= v /\ u < 128 * Degree
    BY <1>1, <1>6, DegreeIs DEF Held
  <2>2. v - 209712 * k \in {1120, 1136, 1160, 1208}
    BY <2>1 DEF Held
  <2>3. u - (u % 16) <= Nearest(u, 13)
    BY <1>1, <1>6, <2>1, SpacingIs, NearestIs
  <2>4. u - (u % 16) <= 64 * Degree
    <3>1. (u % 16) \in 0 .. 15
      BY <1>1
    <3>2. u - (u % 16) \in Int /\ Nearest(u, 13) \in Int
      BY <1>1, <1>6, <2>1, <3>1, SpacingIs, NearestIs
    <3>3. QED BY <1>1, <2>3, <3>2, DegreeIs
  <2>5. u - 64 * Degree \in 0 .. 15
    BY <1>1, <1>6, <2>4, DegreeIs
  <2>6. QED BY <1>1, <2>2, <2>5, DegreeIs
<1>7. QED BY <1>1, <1>2, <1>3, <1>4, <1>5, <1>6, DegreeIs

LEMMA TenthDown ==
  ASSUME NEW v, NEW k, Held(v, k), 4 * Degree <= Tenth(v, -1)
  PROVE  Held(Tenth(v, -1), k - 1)
<1> DEFINE u == v - 209716
<1>1. v \in Nat /\ k \in Nat /\ u \in Nat /\ Tenth(v, -1) = Nearest(u, 51)
  BY DegreeIs DEF Held, Tenth
<1>2. CASE u < 8 * Degree
  <2>1. Nearest(u, 51) = u + 1
    BY <1>1, <1>2, SpacingIs, NearestIs
  <2>2. QED BY <1>1, <1>2, <2>1, DegreeIs DEF Held
<1>3. CASE 8 * Degree <= u /\ u < 16 * Degree
  <2>1. Nearest(u, 51) = IF u % 2 = 1 THEN u + 1 ELSE u
    BY <1>1, <1>3, SpacingIs, NearestIs
  <2>2. QED BY <1>1, <1>3, <2>1, DegreeIs DEF Held
<1>4. CASE 16 * Degree <= u /\ u < 32 * Degree
  <2>1. Nearest(u, 51) = IF u % 4 > 1 THEN u - (u % 4) + 4 ELSE u - (u % 4)
    BY <1>1, <1>4, SpacingIs, NearestIs
  <2>2. QED BY <1>1, <1>4, <2>1, DegreeIs DEF Held
<1>5. CASE 32 * Degree <= u
  <2>1. Nearest(u, 51) = IF u % 8 > 3 THEN u - (u % 8) + 8 ELSE u - (u % 8)
    BY <1>1, <1>5, SpacingIs, NearestIs, DegreeIs DEF Held
  <2>2. QED BY <1>1, <1>5, <2>1, DegreeIs DEF Held
<1>6. QED BY <1>1, <1>2, <1>3, <1>4, <1>5, DegreeIs

-----------------------------------------------------------------------------
(* Ten times a temperature, rounded to a float, stays between the same two *)
(* whole degrees: the last float below the next one is too far from it.    *)
Whole(t, r) ==
  /\ r \in Nat
  /\ 10 * Degree * (t \div Degree) <= r
  /\ r < 10 * Degree * (t \div Degree) + 10 * Degree

LEMMA RoundedTen ==
  ASSUME NEW t \in Nat, NEW g \in {1, 2, 4, 8, 16}, t % g = 0,
         NEW h \in {1, 2, 4, 8, 16, 32, 64, 128}, h <= 16 * g,
         Spacing(10 * t) = h
  PROVE  Whole(t, Nearest(10 * t, 0))
<1> DEFINE r == Nearest(10 * t, 0)
           n == t \div Degree
<1>1. n \in Nat /\ Degree * n <= t /\ t < Degree * n + Degree
  BY DegreeIs
<1>2. /\ r \in Nat
      /\ r = 10 * t - ((10 * t) % h) \/ r = 10 * t - ((10 * t) % h) + h
      /\ 2 * r <= 20 * t + h
  <2>1. 10 * t \in Nat
    OBVIOUS
  <2>2. Near(Nearest(10 * t, 0), 10 * t, h)
    BY <2>1, NearestWhole
  <2>3. QED BY <2>2 DEF Near
<1> HIDE DEF r, n
<1>3. t <= Degree * n + Degree - g
  <2>1. CASE g = 1
    BY <1>1, <2>1, DegreeIs
  <2>2. CASE g = 2
    BY <1>1, <2>2, DegreeIs
  <2>3. CASE g = 4
    BY <1>1, <2>3, DegreeIs
  <2>4. CASE g = 8
    BY <1>1, <2>4, DegreeIs
  <2>5. CASE g = 16
    BY <1>1, <2>5, DegreeIs
  <2>6. QED BY <2>1, <2>2, <2>3, <2>4, <2>5
<1>4. r < 10 * Degree * n + 10 * Degree
  BY <1>1, <1>2, <1>3, DegreeIs
<1>5. 10 * Degree * n <= 10 * t - ((10 * t) % h)
  <2>1. CASE h = 1
    BY <1>1, <2>1, DegreeIs
  <2>2. CASE h = 2
    BY <1>1, <2>2, DegreeIs
  <2>3. CASE h = 4
    BY <1>1, <2>3, DegreeIs
  <2>4. CASE h = 8
    BY <1>1, <2>4, DegreeIs
  <2>5. CASE h = 16
    BY <1>1, <2>5, DegreeIs
  <2>6. CASE h = 32
    BY <1>1, <2>6, DegreeIs
  <2>7. CASE h = 64
    BY <1>1, <2>7, DegreeIs
  <2>8. CASE h = 128
    BY <1>1, <2>8, DegreeIs
  <2>9. QED BY <2>1, <2>2, <2>3, <2>4, <2>5, <2>6, <2>7, <2>8
<1>6. 10 * Degree * n <= r
  BY <1>1, <1>2, <1>5, DegreeIs
<1>7. QED BY <1>2, <1>4, <1>6 DEF Whole, r, n

LEMMA FloatTen ==
  ASSUME NEW t \in Nat, t < 100 * Degree, t >= 4 * Degree => t % Spacing(t) = 0
  PROVE  Whole(t, Nearest(10 * t, 0))
<1> DEFINE u == 10 * t
           D == 2097152
<1>1. u \in Nat
  OBVIOUS
<1>2. PICK g \in {1, 2, 4, 8, 16} :
        /\ t % g = 0
        /\ t < 8 * g * D
  <2>1. CASE t < 8 * Degree
    <3>1. t % 1 = 0
      OBVIOUS
    <3>2. QED BY <2>1, <3>1, DegreeIs
  <2>2. CASE 8 * Degree <= t /\ t < 16 * Degree
    BY <2>2, SpacingIs, DegreeIs
  <2>3. CASE 16 * Degree <= t /\ t < 32 * Degree
    BY <2>3, SpacingIs, DegreeIs
  <2>4. CASE 32 * Degree <= t /\ t < 64 * Degree
    BY <2>4, SpacingIs, DegreeIs
  <2>5. CASE 64 * Degree <= t
    BY <2>5, SpacingIs, DegreeIs
  <2>6. QED BY <2>1, <2>2, <2>3, <2>4, <2>5, DegreeIs
<1>3. PICK h \in {1, 2, 4, 8, 16, 32, 64, 128} :
        /\ Spacing(u) = h
        /\ h = 1 \/ 4 * h * D <= u
  <2>1. CASE u < 8 * Degree
    BY <1>1, <2>1, SpacingIs, DegreeIs
  <2>2. CASE 8 * Degree <= u /\ u < 16 * Degree
    BY <1>1, <2>2, SpacingIs, DegreeIs
  <2>3. CASE 16 * Degree <= u /\ u < 32 * Degree
    BY <1>1, <2>3, SpacingIs, DegreeIs
  <2>4. CASE 32 * Degree <= u /\ u < 64 * Degree
    BY <1>1, <2>4, SpacingIs, DegreeIs
  <2>5. CASE 64 * Degree <= u /\ u < 128 * Degree
    BY <1>1, <2>5, SpacingIs, DegreeIs
  <2>6. CASE 128 * Degree <= u /\ u < 256 * Degree
    BY <1>1, <2>6, SpacingIs, DegreeIs
  <2>7. CASE 256 * Degree <= u /\ u < 512 * Degree
    BY <1>1, <2>7, SpacingIs, DegreeIs
  <2>8. CASE 512 * Degree <= u /\ u < 1024 * Degree
    BY <1>1, <2>8, SpacingIs, DegreeIs
  <2>9. QED BY <1>1, <2>1, <2>2, <2>3, <2>4, <2>5, <2>6, <2>7, <2>8, DegreeIs
<1>4. h <= 16 * g
  <2>1. CASE g = 1
    BY <1>2, <1>3, <2>1, DegreeIs
  <2>2. CASE g = 2
    BY <1>2, <1>3, <2>2, DegreeIs
  <2>3. CASE g = 4
    BY <1>2, <1>3, <2>3, DegreeIs
  <2>4. CASE g = 8
    BY <1>2, <1>3, <2>4, DegreeIs
  <2>5. CASE g = 16
    BY <1>2, <1>3, <2>5, DegreeIs
  <2>6. QED BY <2>1, <2>2, <2>3, <2>4, <2>5
<1>5. QED BY <1>2, <1>3, <1>4, RoundedTen

(* The three digits.                                                       *)
LEMMA DigitsAre ==
  ASSUME NEW t \in Nat, t < 100 * Degree, Whole(t, Nearest(10 * t, 0))
  PROVE  /\ temp1(t) \in 0 .. 9 /\ temp2(t) \in 0 .. 9 /\ temp3(t) \in 0 .. 9
         /\ Reading(t) = Nearest(10 * t, 0) \div Degree
<1> DEFINE a == t \div (10 * Degree)
           b == t \div Degree
           q == Nearest(10 * t, 0) \div Degree
<1>1. a \in Int /\ b \in Int /\ q \in Int
  BY DegreeIs DEF Whole
<1>2. a \in 0 .. 9 /\ b - 10 * a \in 0 .. 9
  BY DegreeIs
<1>3. q - 10 * b \in 0 .. 9
  BY <1>1, DegreeIs DEF Whole
<1>4. temp1(t) = a /\ temp2(t) = b - 10 * a /\ temp3(t) = q - 10 * b
  BY DEF temp1, temp2, temp3
<1> HIDE DEF a, b, q
<1>5. Reading(t) = q
  BY <1>1, <1>4 DEF Reading
<1>6. QED BY <1>2, <1>3, <1>4, <1>5 DEF q

(* What is held for k tenths is a float, and reads as k tenths or one less. *)
LEMMA HeldReads ==
  ASSUME NEW v, NEW k, Held(v, k)
  PROVE  /\ v \in Nat /\ v < 100 * Degree /\ k \in Nat
         /\ Whole(v, Nearest(10 * v, 0))
         /\ Reading(v) - k \in {-1, 0}
<1>1. v \in Nat /\ k \in Nat /\ v < 100 * Degree
  BY DegreeIs DEF Held
<1>2. v % Spacing(v) = 0
  <2>1. CASE v < 8 * Degree
    BY <1>1, <2>1, SpacingIs
  <2>2. CASE 8 * Degree <= v /\ v < 16 * Degree
    <3>1. Spacing(v) = 2
      BY <1>1, <2>2, SpacingIs
    <3>2. QED BY <1>1, <2>2, <3>1, DegreeIs DEF Held
  <2>3. CASE 16 * Degree <= v /\ v < 32 * Degree
    <3>1. Spacing(v) = 4
      BY <1>1, <2>3, SpacingIs
    <3>2. QED BY <1>1, <2>3, <3>1, DegreeIs DEF Held
  <2>4. CASE 32 * Degree <= v
    <3>1. Spacing(v) = 8
      BY <1>1, <2>4, SpacingIs DEF Held
    <3>2. QED BY <1>1, <2>4, <3>1, DegreeIs DEF Held
  <2>5. QED BY <1>1, <2>1, <2>2, <2>3, <2>4, DegreeIs
<1>3. Whole(v, Nearest(10 * v, 0))
  BY <1>1, <1>2, FloatTen
<1>4. Reading(v) = Nearest(10 * v, 0) \div Degree
  BY <1>1, <1>3, DigitsAre
<1>5. PICK h \in {1, 2, 4, 8, 16, 32, 64, 128} : Near(Nearest(10 * v, 0), 10 * v, h)
  <2> DEFINE u == 10 * v
  <2>1. u \in Nat /\ u < 1024 * Degree
    BY <1>1, DegreeIs
  <2>2. Spacing(u) \in {1, 2, 4, 8, 16, 32, 64, 128}
    BY <2>1, SpacingIs, DegreeIs
  <2> HIDE DEF u
  <2>3. Near(Nearest(u, 0), u, Spacing(u))
    BY <2>1, <2>2, NearestWhole
  <2>4. QED BY <2>2, <2>3 DEF u
<1> DEFINE r == Nearest(10 * v, 0)
<1>6. r \in Nat /\ 2 * r <= 20 * v + 128 /\ r >= 10 * v - 128
  BY <1>1, <1>5 DEF Near
<1> HIDE DEF r
<1>7. (k - 1) * Degree <= r /\ r < (k + 1) * Degree
  BY <1>1, <1>6, DegreeIs DEF Held
<1>8. r \div Degree \in {k - 1, k}
  BY <1>1, <1>6, <1>7, DegreeIs
<1>9. QED BY <1>1, <1>3, <1>4, <1>8 DEF r
-----------------------------------------------------------------------------
(* Whichever of the two is adjusted, up or down, by the dial or the page,  *)
(* and wherever the compensation is chosen anew, both are held.            *)
Inv ==
  /\ adc0_temp \in Temps \cup {0}
  /\ Held(desired_temp, h_setpoint)
  /\ Held(adc0_heat_compensation, h_compensation)

LEMMA Limits ==
  /\ 4 * Degree <= Low * Degree /\ High * Degree <= 64 * Degree
  /\ Low * Degree \in Nat /\ High * Degree \in Nat
<1>1. Low \in 4 .. 20 /\ High \in 20 .. 64
  BY DisplayAssumption
<1>2. /\ 4 * 2097152 <= Low * 2097152 /\ High * 2097152 <= 64 * 2097152
      /\ Low * 2097152 \in Nat /\ High * 2097152 \in Nat
  BY <1>1
<1>3. QED BY <1>2, DegreeIs

LEMMA TenthHeld ==
  ASSUME NEW v, NEW k, Held(v, k), NEW d \in {1, -1},
         d = -1 => 4 * Degree <= Tenth(v, d), d = 1 => Tenth(v, d) <= 64 * Degree
  PROVE  Held(Tenth(v, d), k + d)
<1>1. CASE d = 1
  BY <1>1, TenthUp
<1>2. CASE d = -1
  <2>1. Held(Tenth(v, -1), k - 1)
    BY <1>2, TenthDown
  <2>2. k - 1 = k + d
    BY <1>2 DEF Held
  <2>3. QED BY <1>2, <2>1, <2>2
<1>3. QED BY <1>1, <1>2

LEMMA TenthInt ==
  ASSUME NEW v, NEW k, Held(v, k), NEW d \in {1, -1}
  PROVE  Tenth(v, d) \in Int
<1>1. v \in Nat /\ 4 * Degree <= v /\ v < 64 * Degree
  BY DEF Held
<1>2. CASE d = 1
  <2> DEFINE u == v + 209715
  <2>1. u \in Nat /\ Tenth(v, d) = Nearest(u, 13)
    BY <1>1, <1>2 DEF Tenth
  <2>2. PICK g \in {1, 2, 4, 8, 16} : Spacing(u) = g
    BY <1>1, <2>1, SpacingIs, DegreeIs
  <2> HIDE DEF u
  <2>3. QED BY <2>1, <2>2, NearestIs
<1>3. CASE d = -1
  <2> DEFINE u == v - 209716
  <2>1. u \in Nat /\ Tenth(v, d) = Nearest(u, 51)
    BY <1>1, <1>3, DegreeIs DEF Tenth
  <2>2. PICK g \in {1, 2, 4, 8, 16} : Spacing(u) = g
    BY <1>1, <2>1, SpacingIs, DegreeIs
  <2> HIDE DEF u
  <2>3. QED BY <2>1, <2>2, NearestIs
<1>4. QED BY <1>2, <1>3

LEMMA MoveHeld ==
  ASSUME Held(desired_temp, h_setpoint), NEW d \in {1, -1}, Move(d)
  PROVE  Held(desired_temp', h_setpoint')
<1>1. /\ desired_temp' = Tenth(desired_temp, d) /\ h_setpoint' = h_setpoint + d
      /\ Low * Degree <= desired_temp' /\ desired_temp' <= High * Degree
  BY DEF Move
<1>2. desired_temp' \in Int
  BY <1>1, TenthInt
<1>3. 4 * Degree <= desired_temp' /\ desired_temp' <= 64 * Degree
  BY <1>1, <1>2, Limits, DegreeIs
<1>4. Held(Tenth(desired_temp, d), h_setpoint + d)
  BY <1>1, <1>3, TenthHeld
<1>5. QED BY <1>1, <1>4

LEMMA NudgeHeld ==
  ASSUME Held(adc0_heat_compensation, h_compensation), NEW d \in {1, -1}, Nudge(d)
  PROVE  Held(adc0_heat_compensation', h_compensation')
<1>1. /\ adc0_heat_compensation' = Tenth(adc0_heat_compensation, d)
      /\ h_compensation' = h_compensation + d
      /\ 4 * Degree <= adc0_heat_compensation'
      /\ adc0_heat_compensation' <= 25 * Degree
  BY DEF Nudge
<1>2. adc0_heat_compensation' \in Int
  BY <1>1, TenthInt
<1>3. adc0_heat_compensation' <= 64 * Degree
  BY <1>1, <1>2, DegreeIs
<1>4. Held(Tenth(adc0_heat_compensation, d), h_compensation + d)
  BY <1>1, <1>3, TenthHeld
<1>5. QED BY <1>1, <1>4

LEMMA SourceHeld ==
  ASSUME NEW n \in {50, 150, 175, 200}
  PROVE  Held((n * Degree) \div 10, n)
<1>1. CASE n = 50
  BY <1>1, DegreeIs DEF Held
<1>2. CASE n = 150
  BY <1>2, DegreeIs DEF Held
<1>3. CASE n = 175
  BY <1>3, DegreeIs DEF Held
<1>4. CASE n = 200
  BY <1>4, DegreeIs DEF Held
<1>5. QED BY <1>1, <1>2, <1>3, <1>4

LEMMA InitInv == Init => Inv
<1>1. 20 * Degree = (200 * Degree) \div 10 /\ 15 * Degree = (150 * Degree) \div 10
  BY DegreeIs
<1>2. Held(20 * Degree, 200) /\ Held(15 * Degree, 150)
  BY <1>1, SourceHeld
<1>3. QED BY <1>2 DEF Init, Inv

LEMMA NextInv == ASSUME Inv, [Next]_vars PROVE Inv'
<1>0. /\ adc0_temp \in Temps \cup {0}
      /\ Held(desired_temp, h_setpoint)
      /\ Held(adc0_heat_compensation, h_compensation)
  BY DEF Inv
<1>1. CASE server_process
  <2>1. CASE /\ \E d \in {1, -1} : Move(d)
             /\ UNCHANGED <<sensor, heat>>
    BY <1>0, <2>1, MoveHeld DEF Inv, sensor, heat
  <2>2. CASE /\ \E d \in {1, -1} : Nudge(d)
             /\ UNCHANGED <<sensor, setpoint>>
    BY <1>0, <2>2, NudgeHeld DEF Inv, sensor, setpoint
  <2>3. CASE /\ \E tenths \in {50, 150, 175, 200} : ChooseSource(tenths)
             /\ UNCHANGED <<sensor, setpoint>>
    BY <1>0, <2>3, SourceHeld DEF ChooseSource, Inv, sensor, setpoint
  <2>4. CASE UNCHANGED <<sensor, setpoint, heat>>
    BY <1>0, <2>4 DEF Inv, sensor, setpoint, heat
  <2>5. QED BY <1>1, <2>1, <2>2, <2>3, <2>4 DEF server_process
<1>2. CASE adc0_data
  BY <1>0, <1>2 DEF adc0_data, Inv, sensor, setpoint, heat
<1>3. CASE update_display
  BY <1>0, <1>3 DEF update_display, Inv, sensor, setpoint, heat
<1>4. CASE check_rotary
  <2>1. CASE \E d \in {1, -1} : Move(d)
    BY <1>0, <1>4, <2>1, MoveHeld DEF check_rotary, Inv, sensor, heat
  <2>2. CASE UNCHANGED setpoint
    BY <1>0, <1>4, <2>2 DEF check_rotary, Inv, sensor, heat, setpoint
  <2>3. QED BY <1>4, <2>1, <2>2 DEF check_rotary
<1>5. CASE OpenView
  BY <1>0, <1>5 DEF OpenView, Inv, sensor, setpoint, heat
<1>6. CASE UNCHANGED vars
  BY <1>0, <1>6 DEF vars, Inv, sensor, setpoint, heat
<1>7. QED BY <1>1, <1>2, <1>3, <1>4, <1>5, <1>6 DEF Next

(* The setpoint and the compensation are always held for the tenths asked  *)
(* for: the errors of adding and of taking away 0.1 cancel.                *)
THEOREM HeldForTenths == Spec => []Inv
<1>1. Inv /\ [Next]_vars => Inv'
  BY NextInv
<1>2. QED BY InitInv, <1>1, PTL DEF Spec

(* The settings page shows the compensation as it was chosen and added to, *)
(* or a tenth less.                                                        *)
THEOREM CompensationIsNear == Spec => []CompensationNear
<1>1. Inv => CompensationNear
  BY HeldReads DEF Inv, CompensationNear
<1>2. QED BY <1>1, HeldForTenths, PTL
-----------------------------------------------------------------------------
(* What is lit, position after position.                                   *)
Lits == [pins : SUBSET (0 .. 7), digit : 0 .. 15, points : SUBSET (0 .. 7)]
Proper(x) == x.pins \in {{4}, {5}, {6}} => x.digit <= 9
AllProper(s) == \A i \in DOMAIN s : Proper(s[i])

LEMMA ConcatProper ==
  ASSUME NEW p \in Seq(Lits), NEW s \in Seq(Lits), AllProper(p), AllProper(s)
  PROVE  p \o s \in Seq(Lits) /\ AllProper(p \o s)
<1>1. /\ p \o s \in Seq(Lits) /\ Len(p \o s) = Len(p) + Len(s)
      /\ \A i \in 1 .. Len(p) + Len(s) :
           (p \o s)[i] = IF i <= Len(p) THEN p[i] ELSE s[i - Len(p)]
  BY ConcatProperties
<1>2. Len(p) \in Nat /\ Len(s) \in Nat /\ DOMAIN p = 1 .. Len(p)
      /\ DOMAIN s = 1 .. Len(s) /\ DOMAIN (p \o s) = 1 .. Len(p) + Len(s)
  BY <1>1, LenProperties
<1>3. ASSUME NEW i \in 1 .. Len(p) + Len(s) PROVE Proper((p \o s)[i])
  <2>1. CASE i <= Len(p)
    BY <1>1, <1>2, <1>3, <2>1 DEF AllProper
  <2>2. CASE i > Len(p)
    <3>1. i - Len(p) \in 1 .. Len(s)
      BY <1>2, <2>2
    <3>2. (p \o s)[i] = s[i - Len(p)]
      BY <1>1, <1>2, <2>2
    <3>3. QED BY <1>2, <3>1, <3>2 DEF AllProper
  <2>3. QED BY <1>2, <2>1, <2>2
<1>4. QED BY <1>1, <1>2, <1>3 DEF AllProper

LEMMA FixedProper ==
  /\ <<Everything>> \in Seq(Lits) /\ AllProper(<<Everything>>)
  /\ <<>> \in Seq(Lits) /\ AllProper(<<>>)
  /\ Celsius \in Seq(Lits) /\ AllProper(Celsius)
<1>1. Everything \in Lits /\ Proper(Everything)
  BY DEF Everything, Lit, Lits, Proper
<1>2. Lit({7}, 10, {}) \in Lits /\ Proper(Lit({7}, 10, {}))
  BY DEF Lit, Lits, Proper
<1>3. Lit({}, 11, {1}) \in Lits /\ Proper(Lit({}, 11, {1}))
  BY DEF Lit, Lits, Proper
<1>4. <<Everything>> \in Seq(Lits) /\ AllProper(<<Everything>>)
  BY <1>1 DEF AllProper
<1>5. Celsius \in Seq(Lits) /\ AllProper(Celsius)
  BY <1>2, <1>3 DEF Celsius, AllProper
<1>6. QED BY <1>4, <1>5 DEF AllProper

(* Three digits that read as n.                                            *)
Reads(s, n) ==
  s \in Seq(Lits) /\ AllProper(s) /\ Len(s) = 3 /\ Shown(s) = n

LEMMA NumberReads ==
  ASSUME NEW a \in 0 .. 9, NEW b \in 0 .. 9, NEW c \in 0 .. 9
  PROVE  Reads(Number(<<a, b, c>>), 100 * a + 10 * b + c)
<1> DEFINE x == Lit({4}, a, {})
           y == Lit({5}, b, {2})
           z == Lit({6}, c, {})
<1>1. a % 16 = a /\ b % 16 = b /\ c % 16 = c
  OBVIOUS
<1>2. x \in Lits /\ x.digit = a /\ y \in Lits /\ y.digit = b
      /\ z \in Lits /\ z.digit = c
  BY <1>1 DEF Lit, Lits
<1>3. Number(<<a, b, c>>) = <<x, y, z>>
  BY DEF Number
<1> HIDE DEF x, y, z
<1>4. Proper(x) /\ Proper(y) /\ Proper(z)
  BY <1>2 DEF Proper
<1> DEFINE s == <<x, y, z>>
<1>5. /\ s \in Seq(Lits) /\ Len(s) = 3 /\ DOMAIN s = 1 .. 3
      /\ s[1] = x /\ s[2] = y /\ s[3] = z
  BY <1>2
<1>6. Number(<<a, b, c>>) = s
  BY <1>3
<1> HIDE DEF s
<1>7. AllProper(s)
  BY <1>4, <1>5 DEF AllProper
<1>8. Shown(s) = 100 * a + 10 * b + c
  BY <1>2, <1>5 DEF Shown
<1>9. Reads(s, 100 * a + 10 * b + c)
  BY <1>5, <1>7, <1>8 DEF Reads
<1>10. QED BY <1>6, <1>9

(* The digits of a temperature, or of the setpoint, are digits.            *)
Legal(t) == t >= 0 => t < 100 * Degree /\ Whole(t, Nearest(10 * t, 0))

LEMMA DigitsProper ==
  ASSUME NEW t \in Int, Legal(t), Readable(t), NEW d \in Digits(t)
  PROVE  /\ t >= 0 => Reads(Number(d), Reading(t))
         /\ Number(d) \in Seq(Lits) /\ AllProper(Number(d))
<1>1. CASE t >= 0
  <2>1. d = <<temp1(t), temp2(t), temp3(t)>>
    BY <1>1 DEF Digits
  <2>2. temp1(t) \in 0 .. 9 /\ temp2(t) \in 0 .. 9 /\ temp3(t) \in 0 .. 9
    BY <1>1, DigitsAre DEF Legal
  <2>3. Reads(Number(d), 100 * temp1(t) + 10 * temp2(t) + temp3(t))
    BY <2>1, <2>2, NumberReads, Zenon
  <2>4. QED BY <2>3 DEF Reading, Reads
<1>2. CASE ~(t >= 0)
  <2>1. d = <<0, 0, 0>>
    BY <1>2 DEF Digits
  <2>2. 0 \in 0 .. 9
    OBVIOUS
  <2>3. Reads(Number(d), 100 * 0 + 10 * 0 + 0)
    BY <2>1, <2>2, NumberReads, Zenon
  <2>4. QED BY <1>2, <2>3 DEF Reads
<1>3. QED BY <1>1, <1>2

LEMMA InvLegal ==
  ASSUME Inv
  PROVE  /\ desired_temp \in Int /\ Legal(desired_temp) /\ Readable(desired_temp)
         /\ adc0_temp \in Int /\ Legal(adc0_temp)
<1>1. desired_temp \in Nat /\ Legal(desired_temp)
  BY HeldReads DEF Inv, Legal
<1>2. Readable(desired_temp)
  BY <1>1, DegreeIs DEF Readable
<1>3. adc0_temp \in Int /\ adc0_temp < 100 * Degree
  <2>1. Temps \subseteq -10 * Degree .. 100 * Degree - 1
    BY DisplayAssumption
  <2>2. 100 * Degree \in Nat \ {0} /\ -10 * Degree \in Int
    BY DegreeIs
  <2>3. QED BY <2>1, <2>2 DEF Inv
<1>4. adc0_temp >= 4 * Degree => adc0_temp % Spacing(adc0_temp) = 0
  BY FloatsAssumption, DegreeIs DEF Inv
<1>5. Legal(adc0_temp)
  BY <1>3, <1>4, FloatTen DEF Legal
<1>6. QED BY <1>1, <1>2, <1>3, <1>5

(* A refresh lights the digits of one of the two, with or without          *)
(* everything before them.                                                 *)
LEMMA Refresh ==
  ASSUME Inv, update_display, rot_enc_change = 1 \/ Readable(adc0_temp)
  PROVE  AllProper(shown')
<1>1. PICK s \in InView :
        shown' = (IF adc0_valid = 0 THEN <<Everything>> ELSE <<>>) \o s
  BY DEF update_display
<1>2. s \in Seq(Lits) /\ AllProper(s)
  <2>1. CASE rot_enc_change = 1
    BY <1>1, <2>1, InvLegal, DigitsProper DEF InView
  <2>2. CASE rot_enc_change # 1
    <3>1. PICK d \in Digits(adc0_temp) : s = Number(d) \o Celsius
      BY <1>1, <2>2 DEF InView
    <3>2. Number(d) \in Seq(Lits) /\ AllProper(Number(d))
      BY <2>2, InvLegal, DigitsProper
    <3>3. QED BY <3>1, <3>2, FixedProper, ConcatProper
  <2>3. QED BY <2>1, <2>2
<1>3. CASE adc0_valid = 0
  <2>1. shown' = <<Everything>> \o s
    BY <1>1, <1>3
  <2>2. QED BY <1>2, <2>1, FixedProper, ConcatProper
<1>4. CASE adc0_valid # 0
  <2>1. shown' = <<>> \o s
    BY <1>1, <1>4
  <2>2. QED BY <1>2, <2>1, FixedProper, ConcatProper
<1>5. QED BY <1>3, <1>4

(* Every digit that is lit is one.                                         *)
THEOREM DigitsAreLegible == Spec => Legible
<1>1. Inv /\ [Next]_vars =>
        [update_display /\ (rot_enc_change = 1 \/ Readable(adc0_temp))
           => \A i \in DOMAIN shown' :
                shown'[i].pins \in {{4}, {5}, {6}} => shown'[i].digit <= 9]_vars
  BY Refresh DEF AllProper, Proper
<1>2. QED BY <1>1, HeldForTenths, PTL DEF Spec, Legible

LEMMA WithoutFirst ==
  ASSUME NEW x \in Lits, NEW s \in Seq(Lits)
  PROVE  Tail(<<x>> \o s) = s
<1> DEFINE q == <<x>> \o s
<1>1. <<x>> \in Seq(Lits) /\ Len(<<x>>) = 1
  OBVIOUS
<1>2. /\ q \in Seq(Lits) /\ Len(q) = 1 + Len(s)
      /\ \A i \in 1 .. 1 + Len(s) : q[i] = IF i <= 1 THEN <<x>>[i] ELSE s[i - 1]
  BY <1>1, ConcatProperties
<1> HIDE DEF q
<1>3. Len(s) \in Nat
  BY LenProperties
<1>4. q # <<>>
  BY <1>2, <1>3
<1>5. /\ Tail(q) \in Seq(Lits) /\ Len(Tail(q)) = Len(s)
      /\ \A i \in 1 .. Len(s) : Tail(q)[i] = s[i]
  BY <1>2, <1>3, <1>4
<1>6. QED BY <1>5, SeqEqual DEF q

(* While the setpoint is in view, a refresh shows it as it was asked for   *)
(* or a tenth less.                                                        *)
THEOREM SetpointIsShown == Spec => ShowsSetpoint
<1>1. ASSUME Inv, update_display, rot_enc_change = 1
      PROVE  LET s == IF adc0_valid = 0 THEN Tail(shown') ELSE shown'
             IN  /\ Len(s) = 3
                 /\ Shown(s) - h_setpoint \in {-1, 0}
  <2>1. PICK d \in Digits(desired_temp) :
          shown' = (IF adc0_valid = 0 THEN <<Everything>> ELSE <<>>) \o Number(d)
    BY <1>1 DEF update_display, InView
  <2>2. desired_temp \in Nat /\ Reading(desired_temp) - h_setpoint \in {-1, 0}
    BY <1>1, HeldReads DEF Inv
  <2>3. /\ Number(d) \in Seq(Lits) /\ Len(Number(d)) = 3
        /\ Shown(Number(d)) = Reading(desired_temp)
    BY <1>1, <2>2, InvLegal, DigitsProper DEF Reads
  <2>4. (IF adc0_valid = 0 THEN Tail(shown') ELSE shown') = Number(d)
    <3>1. CASE adc0_valid = 0
      <4>1. Everything \in Lits
        BY DEF Everything, Lit, Lits
      <4>2. shown' = <<Everything>> \o Number(d)
        BY <2>1, <3>1
      <4>3. QED BY <2>3, <3>1, <4>1, <4>2, WithoutFirst
    <3>2. CASE adc0_valid # 0
      <4>1. shown' = <<>> \o Number(d)
        BY <2>1, <3>2
      <4>2. QED BY <2>3, <3>2, <4>1, ConcatEmptySeq
    <3>3. QED BY <3>1, <3>2
  <2>5. QED BY <2>2, <2>3, <2>4
<1>2. Inv /\ [Next]_vars =>
        [update_display /\ rot_enc_change = 1
           => LET s == IF adc0_valid = 0 THEN Tail(shown') ELSE shown'
              IN  /\ Len(s) = 3
                  /\ Shown(s) - h_setpoint \in {-1, 0}]_vars
  BY <1>1
<1>3. QED BY <1>2, HeldForTenths, PTL DEF Spec, ShowsSetpoint
=============================================================================
