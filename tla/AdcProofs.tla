------------------------------ MODULE AdcProofs ------------------------------
(***************************************************************************)
(* Proofs about Adc, for every length of the windows and every set of      *)
(* readings its assumption admits: its types, that the compensation is the *)
(* one of the power source shown, and that each average published is one   *)
(* that TempSensor allows of the readings taken for it.                    *)
(***************************************************************************)
EXTENDS Adc, TLAPS

USE AdcAssumption DEF Degree

-----------------------------------------------------------------------------
(* Arithmetic.                                                             *)

LEMMA DoesNotWrap ==
  ASSUME NEW n \in Nat, NEW m \in Nat, n < m
  PROVE  n % m = n
OBVIOUS

LEMMA Monotone ==
  ASSUME NEW k \in Nat, NEW m \in Nat, NEW n \in Nat, m <= n
  PROVE  k * m <= k * n
<1>1. k * n = k * m + k * (n - m) /\ k * (n - m) \in Nat
  OBVIOUS
<1>2. QED BY <1>1

LEMMA OneMore ==
  ASSUME NEW k \in Nat, NEW n \in Int
  PROVE  k * (n + 1) = k * n + k /\ k * n \in Int
OBVIOUS

(* A sum of n terms, divided by n, lies where the terms lie.               *)
LEMMA QuotientBelow ==
  ASSUME NEW s \in Nat, NEW n \in Nat \ {0}, NEW k \in Nat, s <= k * n
  PROVE  s \div n <= k
<1>1. (s \div n) * n <= s /\ s \div n \in Nat
  OBVIOUS
<1>2. SUFFICES ASSUME k + 1 <= s \div n PROVE FALSE
  BY <1>1
<1>3. (k + 1) * n <= (s \div n) * n
  BY <1>1, <1>2, Monotone
<1>4. (k + 1) * n = k * n + n
  OBVIOUS
<1>5. QED BY <1>1, <1>3, <1>4

LEMMA QuotientAbove ==
  ASSUME NEW s \in Nat, NEW n \in Nat \ {0}, NEW k \in Int, k * n <= s
  PROVE  k <= s \div n
<1>1. s < (s \div n) * n + n /\ s \div n \in Nat
  OBVIOUS
<1>2. SUFFICES ASSUME (s \div n) + 1 <= k PROVE FALSE
  BY <1>1
<1>3. ((s \div n) + 1) * n <= k * n
  BY <1>1, <1>2, Monotone
<1>4. ((s \div n) + 1) * n = (s \div n) * n + n
  BY <1>1
<1>5. QED BY <1>1, <1>3, <1>4
-----------------------------------------------------------------------------
(* The window.                                                             *)

WindowLen == IF adc0_valid = 0 THEN FirstLen ELSE LongLen

Lowest(lo, S)   == \A s \in S : lo <= s
Highest(hi, S)  == \A s \in S : s <= hi
HasExtremes(S)  == \E lo, hi \in S : Lowest(lo, S) /\ Highest(hi, S)

(* The sum lies between as many times the lowest reading and as many times *)
(* the highest as there were readings: x of them, but that the count of a  *)
(* window after the first may be one ahead.                                *)
SumInv ==
  /\ x < WindowLen
  /\ h_seen # {} => HasExtremes(h_seen)
  /\ \A m \in Readings :
       /\ Highest(m, h_seen) => adc0_sum <= m * x
       /\ Lowest(m, h_seen) => m * (x - adc0_valid) <= adc0_sum

IInv == TypeOK /\ SumInv /\ SourceMatchesCompensation

LEMMA ExtremesOfOneMore ==
  ASSUME NEW r \in Readings, NEW S \in SUBSET Readings,
         S # {} => HasExtremes(S)
  PROVE  HasExtremes(S \cup {r})
<1>1. CASE S = {}
  BY <1>1 DEF HasExtremes, Lowest, Highest
<1>2. CASE S # {}
  <2>1. PICK lo \in S, hi \in S : Lowest(lo, S) /\ Highest(hi, S)
    BY <1>2 DEF HasExtremes
  <2>2. PICK l \in {lo, r} : l <= lo /\ l <= r
    BY <2>1
  <2>3. PICK h \in {hi, r} : hi <= h /\ r <= h
    BY <2>1
  <2>4. Lowest(l, S \cup {r}) /\ Highest(h, S \cup {r})
    BY <2>1, <2>2, <2>3 DEF Lowest, Highest
  <2>5. QED BY <2>2, <2>3, <2>4 DEF HasExtremes
<1>3. QED BY <1>1, <1>2

(* The extremes are the ones TempSensor speaks of.                         *)
LEMMA ExtremesAreMinMax ==
  ASSUME NEW S \in SUBSET Readings, NEW lo \in S, NEW hi \in S,
         Lowest(lo, S), Highest(hi, S)
  PROVE  Sensor!Averages(S) = (lo - 1) .. hi
<1>0. \A s \in S : s \in Int
  OBVIOUS
<1>1. Sensor!Min(S) = lo
  <2>1. \E m \in S : \A s \in S : m <= s
    BY DEF Lowest
  <2>2. Sensor!Min(S) \in S /\ \A s \in S : Sensor!Min(S) <= s
    BY <2>1 DEF Sensor!Min
  <2>3. Sensor!Min(S) <= lo /\ lo <= Sensor!Min(S)
    BY <2>2 DEF Lowest
  <2>4. Sensor!Min(S) \in Int /\ lo \in Int
    BY <1>0, <2>2
  <2>5. QED BY <2>3, <2>4
<1>2. Sensor!Max(S) = hi
  <2>1. \E m \in S : \A s \in S : m >= s
    BY DEF Highest
  <2>2. Sensor!Max(S) \in S /\ \A s \in S : Sensor!Max(S) >= s
    BY <2>1 DEF Sensor!Max
  <2>3. Sensor!Max(S) >= hi /\ hi >= Sensor!Max(S)
    BY <2>2 DEF Highest
  <2>4. Sensor!Max(S) \in Int /\ hi \in Int
    BY <1>0, <2>2
  <2>5. QED BY <2>3, <2>4
<1>3. QED BY <1>1, <1>2 DEF Sensor!Averages

(* One reading more: the sum stays within its DWORD, and within the bounds *)
(* set by the extremes of the readings.                                    *)
LEMMA AccumulateBounds ==
  ASSUME TypeOK, SumInv, NEW r \in Readings
  PROVE  /\ Accumulate(r) = adc0_sum + r
         /\ Accumulate(r) \in 0 .. SumMod - 1
         /\ \A m \in Readings :
              /\ Highest(m, h_seen \cup {r}) => adc0_sum + r <= m * (x + 1)
              /\ Lowest(m, h_seen \cup {r})
                   => m * (x - adc0_valid + 1) <= adc0_sum + r
<1>1. /\ adc0_sum \in Nat /\ x \in Nat /\ r \in Nat /\ adc0_valid \in {0, 1}
      /\ WindowLen \in Nat /\ x + 1 <= WindowLen
  BY DEF TypeOK, SumInv, WindowLen
<1>2. ASSUME NEW m \in Readings, Highest(m, h_seen \cup {r})
      PROVE  adc0_sum + r <= m * (x + 1)
  <2>1. adc0_sum <= m * x /\ r <= m /\ m \in Nat
    BY <1>2 DEF SumInv, Highest
  <2>2. QED BY <1>1, <2>1, OneMore
<1>3. ASSUME NEW m \in Readings, Lowest(m, h_seen \cup {r})
      PROVE  m * (x - adc0_valid + 1) <= adc0_sum + r
  <2>1. m * (x - adc0_valid) <= adc0_sum /\ m <= r /\ m \in Nat
    BY <1>3 DEF SumInv, Lowest
  <2>2. m * (x - adc0_valid + 1) = m * (x - adc0_valid) + m
    BY <1>1, <2>1, OneMore
  <2>3. m * (x - adc0_valid) \in Int
    BY <1>1, <2>1
  <2>4. QED BY <1>1, <2>1, <2>2, <2>3
<1>4. adc0_sum + r < SumMod
  <2>1. PICK hi \in h_seen \cup {r} : Highest(hi, h_seen \cup {r})
    BY ExtremesOfOneMore DEF SumInv, TypeOK, HasExtremes
  <2>2. hi \in Readings /\ hi \in Nat
    BY DEF TypeOK
  <2>3. adc0_sum + r <= hi * (x + 1)
    BY <1>2, <2>1, <2>2
  <2>4. hi * (x + 1) <= hi * WindowLen
    BY <1>1, <2>2, Monotone
  <2>5. hi * WindowLen < SumMod /\ hi * WindowLen \in Nat
    BY <2>2 DEF WindowLen
  <2>6. hi * (x + 1) \in Nat
    BY <1>1, <2>2
  <2>7. QED BY <1>1, <2>3, <2>4, <2>5, <2>6
<1>5. Accumulate(r) = adc0_sum + r
  BY <1>1, <1>4, DoesNotWrap DEF Accumulate
<1>6. Accumulate(r) \in 0 .. SumMod - 1
  BY <1>1, <1>4, <1>5
<1>7. QED BY <1>2, <1>3, <1>5, <1>6
-----------------------------------------------------------------------------
(* The steps.                                                              *)

LEMMA InitIInv == Init => IInv
<1> SUFFICES ASSUME Init PROVE IInv
  OBVIOUS
<1>1. TypeOK
  BY DEF Init, TypeOK
<1>2. SumInv
  BY DEF Init, SumInv, WindowLen
<1>3. SourceMatchesCompensation
  BY DEF Init, SourceMatchesCompensation, SourceCompensation
<1>4. QED BY <1>1, <1>2, <1>3 DEF IInv

LEMMA KeepReadingIInv ==
  ASSUME IInv, NEW r \in Readings, KeepReading(r), UNCHANGED board
  PROVE  IInv'
<1>1. /\ TypeOK /\ SumInv /\ SourceMatchesCompensation
      /\ UNCHANGED <<adc0_valid, adc0_temp, adc0_heat_compensation,
                     adc0_pwr_src>>
      /\ h_seen' = h_seen \cup {r}
  BY DEF IInv, KeepReading, publish, board
<1>2. adc0_sum' = adc0_sum + r /\ adc0_sum' \in 0 .. SumMod - 1
  BY <1>1, AccumulateBounds DEF KeepReading
<1>3. x \in Nat /\ x + 1 < WindowLen /\ WindowLen < WordMod
  BY <1>1 DEF KeepReading, SumInv, TypeOK, WindowLen
<1>4. x' = x + 1
  <2>1. x + 1 \in Nat /\ x + 1 < WordMod
    BY <1>3 DEF WindowLen
  <2>2. (x + 1) % WordMod = x + 1
    BY <2>1, DoesNotWrap
  <2>3. QED BY <2>2 DEF KeepReading
<1>5. TypeOK'
  BY <1>1, <1>2, <1>3, <1>4 DEF TypeOK, WindowLen
<1>6. SumInv'
  <2>1. x' < WindowLen'
    BY <1>1, <1>3, <1>4 DEF WindowLen
  <2>2. HasExtremes(h_seen')
    BY <1>1, ExtremesOfOneMore DEF SumInv, TypeOK
  <2>3. ASSUME NEW m \in Readings
        PROVE  /\ Highest(m, h_seen') => adc0_sum' <= m * x'
               /\ Lowest(m, h_seen') => m * (x' - adc0_valid') <= adc0_sum'
    <3>1. x' - adc0_valid' = x - adc0_valid + 1
      BY <1>1, <1>3, <1>4 DEF TypeOK
    <3>2. QED BY <1>1, <1>2, <1>4, <3>1, AccumulateBounds
  <2>4. QED BY <2>1, <2>2, <2>3 DEF SumInv, Highest, Lowest, HasExtremes
<1>7. SourceMatchesCompensation'
  BY <1>1 DEF SourceMatchesCompensation
<1>8. QED BY <1>5, <1>6, <1>7 DEF IInv

LEMMA TempType ==
  ASSUME NEW a \in Int
  PROVE  FirstTemp(a) \in Int /\ LongTemp(a) \in Int
BY DEF FirstTemp, LongTemp

LEMMA AverageIInv ==
  ASSUME IInv, NEW r \in Readings, FirstAverage(r) \/ LongAverage(r),
         UNCHANGED board
  PROVE  IInv'
<1>1. Accumulate(r) \in Nat
  <2>1. Accumulate(r) \in 0 .. SumMod - 1
    BY AccumulateBounds DEF IInv
  <2>2. QED BY <2>1
<1>2. Accumulate(r) \div FirstLen \in Int /\ Accumulate(r) \div LongLen \in Int
  BY <1>1
<1>3. adc0_temp' \in Int
  BY <1>2, TempType DEF FirstAverage, LongAverage, IInv, TypeOK
<1>4. /\ adc0_valid' = 1 /\ adc0_sum' = 0 /\ h_seen' = {} /\ x' \in {0, 1}
      /\ UNCHANGED <<adc0_heat_compensation, adc0_pwr_src>>
  BY DEF FirstAverage, LongAverage, CloseWindow, board
<1>5. TypeOK'
  BY <1>3, <1>4 DEF IInv, TypeOK
<1>6. SumInv'
  <2>1. x' < WindowLen'
    BY <1>4 DEF WindowLen
  <2>2. ASSUME NEW m \in Readings
        PROVE  0 <= m * x' /\ m * (x' - 1) <= 0
    <3>1. m \in Nat
      OBVIOUS
    <3>2. CASE x' = 0
      BY <3>1, <3>2
    <3>3. CASE x' = 1
      BY <3>1, <3>3
    <3>4. QED BY <1>4, <3>2, <3>3
  <2>3. QED BY <1>4, <2>1, <2>2 DEF SumInv
<1>7. SourceMatchesCompensation'
  BY <1>4 DEF IInv, SourceMatchesCompensation
<1>8. QED BY <1>5, <1>6, <1>7 DEF IInv

LEMMA AdcsrcPostIInv == ASSUME IInv, AdcsrcPost PROVE IInv'
<1>1. UNCHANGED <<adc0_valid, adc0_temp, adc0_sum, x, h_seen>>
  BY DEF AdcsrcPost, publish, window
<1>2. /\ adc0_heat_compensation' \in Compensations
      /\ adc0_pwr_src' \in 0 .. 3
      /\ SourceMatchesCompensation'
  BY DEF AdcsrcPost, ChooseCustom, ChooseSource, Nudge, SourceCompensation,
         SourceMatchesCompensation, IInv, TypeOK
<1>3. TypeOK'
  BY <1>1, <1>2 DEF IInv, TypeOK
<1>4. SumInv'
  BY <1>1 DEF IInv, SumInv, WindowLen
<1>5. QED BY <1>2, <1>3, <1>4 DEF IInv

LEMMA NextIInv == ASSUME IInv, [Next]_vars PROVE IInv'
<1>1. CASE adc0_data
  BY <1>1, KeepReadingIInv, AverageIInv DEF adc0_data
<1>2. CASE AdcsrcPost
  BY <1>2, AdcsrcPostIInv
<1>3. CASE UNCHANGED vars
  BY <1>3 DEF vars, publish, window, board, IInv, TypeOK, SumInv, WindowLen,
              SourceMatchesCompensation
<1>4. QED BY <1>1, <1>2, <1>3 DEF Next

(* The sum stays between its bounds through every reading, average and     *)
(* command.                                                                *)
THEOREM InductiveInvariant == Spec => []IInv
<1>1. IInv /\ [Next]_vars => IInv'
  BY NextIInv
<1>2. QED BY InitIInv, <1>1, PTL DEF Spec

(* The sum never leaves its DWORD, nor the count its WORD.                 *)
THEOREM TypeCorrect == Spec => []TypeOK
<1>1. IInv => TypeOK
  BY DEF IInv
<1>2. QED BY <1>1, InductiveInvariant, PTL

(* The compensation is the one of the power source shown as chosen.        *)
THEOREM SourceIsMatched == Spec => []SourceMatchesCompensation
<1>1. IInv => SourceMatchesCompensation
  BY DEF IInv
<1>2. QED BY <1>1, InductiveInvariant, PTL
-----------------------------------------------------------------------------
(* What TempSensor promises.                                               *)

(* Each average lies between the highest of its readings and one step of   *)
(* the converter below the lowest; the first window is complete, the next  *)
(* one short of a reading and yet divided by its length.                   *)
LEMMA AverageWithinReadings ==
  ASSUME IInv, NEW r \in Readings, x = WindowLen - 1
  PROVE  Accumulate(r) \div WindowLen \in Sensor!Averages(h_seen \cup {r})
<1> DEFINE S == h_seen \cup {r}
           sum == adc0_sum + r
<1>1. TypeOK /\ SumInv /\ S \in SUBSET Readings /\ HasExtremes(S)
  BY ExtremesOfOneMore DEF IInv, TypeOK, SumInv
<1>2. PICK lo \in S, hi \in S : Lowest(lo, S) /\ Highest(hi, S)
  BY <1>1 DEF HasExtremes
<1>3. lo \in Readings /\ hi \in Readings
  BY <1>1
<1>4. /\ sum \in Nat /\ lo \in Nat /\ hi \in Nat /\ lo <= LongLen
      /\ WindowLen \in Nat \ {0} /\ adc0_valid \in {0, 1} /\ x + 1 = WindowLen
  BY <1>1, <1>3 DEF TypeOK, WindowLen
<1>5. /\ Accumulate(r) = sum
      /\ sum <= hi * (x + 1)
      /\ lo * (x - adc0_valid + 1) <= sum
  BY <1>1, <1>2, <1>3, AccumulateBounds
<1>6. sum \div WindowLen <= hi
  BY <1>4, <1>5, QuotientBelow
<1>7. (lo - 1) * WindowLen <= sum
  <2>1. CASE adc0_valid = 0
    <3>1. lo * WindowLen <= sum
      BY <1>4, <1>5, <2>1
    <3>2. (lo - 1) * WindowLen = lo * WindowLen - WindowLen
      BY <1>4
    <3>3. lo * WindowLen \in Nat
      BY <1>4
    <3>4. QED BY <1>4, <3>1, <3>2, <3>3
  <2>2. CASE adc0_valid = 1
    <3>1. lo * (LongLen - 1) <= sum /\ WindowLen = LongLen
      BY <1>4, <1>5, <2>2 DEF WindowLen
    <3>2. /\ (lo - 1) * LongLen = lo * LongLen - LongLen
          /\ lo * (LongLen - 1) = lo * LongLen - lo
          /\ lo * LongLen \in Nat
      BY <1>4
    <3>3. QED BY <1>4, <3>1, <3>2
  <2>3. QED BY <1>4, <2>1, <2>2
<1>8. lo - 1 <= sum \div WindowLen
  <2>1. PICK k \in Int : k = lo - 1
    BY <1>4
  <2>2. k * WindowLen <= sum
    BY <1>7, <2>1
  <2>3. k <= sum \div WindowLen
    BY <1>4, <2>2, QuotientAbove
  <2>4. QED BY <2>1, <2>3
<1>9. sum \div WindowLen \in (lo - 1) .. hi
  BY <1>4, <1>6, <1>8
<1>10. QED BY <1>1, <1>2, <1>5, <1>9, ExtremesAreMinMax

LEMMA PromiseStep ==
  ASSUME IInv, [Next]_vars
  PROVE  [Sensor!Next]_(Sensor!vars)
<1>1. CASE adc0_data
  <2>1. PICK r \in Readings :
          KeepReading(r) \/ FirstAverage(r) \/ LongAverage(r)
    BY <1>1 DEF adc0_data
  <2>2. UNCHANGED adc0_heat_compensation
    BY <1>1 DEF adc0_data, board
  <2>3. CASE KeepReading(r)
    <3>1. Sensor!Take(r)
      BY <2>2, <2>3 DEF KeepReading, publish, Sensor!Take
    <3>2. QED BY <3>1 DEF Sensor!Next
  <2>4. CASE FirstAverage(r) \/ LongAverage(r)
    <3>1. x = WindowLen - 1
      BY <2>4 DEF FirstAverage, LongAverage, WindowLen
    <3>2. Accumulate(r) \div WindowLen \in Sensor!Averages(h_seen \cup {r})
      BY <3>1, AverageWithinReadings
    <3>3. adc0_temp' = (IF adc0_valid = 0
                        THEN FirstTemp(Accumulate(r) \div WindowLen)
                        ELSE LongTemp(Accumulate(r) \div WindowLen))
                         - adc0_heat_compensation
      BY <2>4 DEF FirstAverage, LongAverage, WindowLen
    <3>4. adc0_valid' = 1 /\ h_seen' = {}
      BY <2>4 DEF FirstAverage, LongAverage, CloseWindow
    <3>5. Sensor!Publish(r)
      BY <2>2, <3>2, <3>3, <3>4 DEF Sensor!Publish
    <3>6. QED BY <3>5 DEF Sensor!Next
  <2>5. QED BY <2>1, <2>3, <2>4
<1>2. CASE AdcsrcPost
  <2>1. adc0_heat_compensation' \in Compensations
    BY <1>2, AdcsrcPostIInv DEF IInv, TypeOK
  <2>2. QED BY <1>2, <2>1
            DEF AdcsrcPost, publish, window, Sensor!Compensate, Sensor!Next
<1>3. CASE UNCHANGED vars
  BY <1>3 DEF vars, publish, window, board, Sensor!vars
<1>4. QED BY <1>1, <1>2, <1>3 DEF Next

(* Every temperature published is the conversion of an average of the      *)
(* readings taken since the last one.                                      *)
THEOREM KeepsPromise == Spec => Promise
<1>1. Init => Sensor!Init
  BY DEF Init, Sensor!Init
<1>2. IInv /\ [Next]_vars => [Sensor!Next]_(Sensor!vars)
  BY PromiseStep
<1>3. QED BY <1>1, <1>2, InductiveInvariant, PTL DEF Spec, Promise, Sensor!Spec
=============================================================================
