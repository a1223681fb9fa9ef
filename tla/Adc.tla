-------------------------------- MODULE Adc --------------------------------
(***************************************************************************)
(* The temperature measurement, src/src/adc.c, with the web command that   *)
(* sets its heat compensation (src/src/http.c, "3Fadcsrc").  adc0_data     *)
(* takes one reading per pass of the main loop; FirstLen readings make the *)
(* first average, LongLen each of those that follow.                       *)
(*                                                                         *)
(* Temperatures are integers, Click units to a tenth of a degree, rounded  *)
(* down where the code keeps a float.                                      *)
(***************************************************************************)
EXTENDS Integers

CONSTANTS FirstLen,   \* readings of the first window: 512
          LongLen,    \* readings of the windows that follow: 4096
          SumMod,     \* 2^32, the range of the DWORD adc0_sum
          WordMod,    \* 2^16, the range of the WORD x
          Readings,   \* what the ten-bit converter may return
          Click,      \* a tenth of a degree
          Compensations  \* bound: the heat compensations considered

Degree == 10 * Click

ASSUME AdcAssumption ==
  /\ FirstLen \in Nat /\ FirstLen > 1
  /\ LongLen \in Nat /\ LongLen > 1
  /\ LongLen < WordMod /\ FirstLen < WordMod
  /\ Readings \subseteq 0 .. LongLen
  /\ \A r \in Readings : r * LongLen < SumMod /\ r * FirstLen < SumMod
  /\ SumMod \in Nat \ {0} /\ WordMod \in Nat
  /\ Click \in Nat \ {0}
  /\ Compensations \subseteq Int
  /\ {5 * Degree, 15 * Degree, 175 * Click, 20 * Degree} \subseteq Compensations

VARIABLES adc0_valid,              \* a first average has been published
          adc0_temp,               \* the temperature published last
          adc0_sum,                \* the readings of this window, added up
          x,                       \* the count of them
          adc0_heat_compensation,  \* the correction for board heat
          adc0_pwr_src,            \* the power source it belongs to, 0: custom
          h_seen                   \* history: the readings of this window

window  == <<adc0_sum, x, h_seen>>
publish == <<adc0_valid, adc0_temp>>
board   == <<adc0_heat_compensation, adc0_pwr_src>>
vars    == <<publish, window, board>>

(* The compensation that belongs to each power source.                     *)
SourceCompensation == [src \in 1 .. 3 |->
                         CASE src = 1 -> 15 * Degree
                           [] src = 2 -> 175 * Click
                           [] src = 3 -> 20 * Degree]

FirstTemp(average) == (average * 2000 * Degree) \div 9216 - (550 * Degree) \div 9
LongTemp(average)  == (average * 2172 * Degree) \div 10000 - (6107 * Degree) \div 100

TypeOK ==
  /\ adc0_valid \in {0, 1}
  /\ adc0_temp \in Int
  /\ adc0_sum \in 0 .. SumMod - 1
  /\ x \in 0 .. WordMod - 1
  /\ adc0_heat_compensation \in Compensations
  /\ adc0_pwr_src \in 0 .. 3
  /\ h_seen \subseteq Readings

Init ==
  /\ adc0_valid = 0
  /\ adc0_temp = 0
  /\ adc0_sum = 0
  /\ x = 0
  /\ adc0_heat_compensation = 15 * Degree
  /\ adc0_pwr_src = 1
  /\ h_seen = {}
-----------------------------------------------------------------------------
(* adc0_data.                                                              *)

Accumulate(r) == (adc0_sum + r) % SumMod

(* Faulty variant: the second test does not ask whether the sensor is      *)
(* valid, and counts every reading of the first window again.              *)
KeepReading_Twice(r) ==
  /\ x # (IF adc0_valid = 0 THEN FirstLen - 1 ELSE LongLen - 1)
  /\ adc0_sum' = Accumulate(r)
  /\ x' = (x + (IF adc0_valid = 0 THEN 2 ELSE 1)) % WordMod
  /\ h_seen' = h_seen \cup {r}
  /\ UNCHANGED publish

(* The window is not complete: the reading is only added.                  *)
KeepReading(r) ==
  /\ x # (IF adc0_valid = 0 THEN FirstLen - 1 ELSE LongLen - 1)
  /\ adc0_sum' = Accumulate(r)
  /\ x' = (x + 1) % WordMod
  /\ h_seen' = h_seen \cup {r}
  /\ UNCHANGED publish

(* Faulty variant: the sum is carried into the next window.                *)
CloseWindow_KeepSum ==
  /\ UNCHANGED adc0_sum
  /\ h_seen' = {}

CloseWindow ==
  /\ adc0_sum' = 0
  /\ h_seen' = {}

(* The first average makes the sensor valid, and the same call goes on     *)
(* into the second test, which counts the reading once more.               *)
FirstAverage(r) ==
  /\ adc0_valid = 0
  /\ x = FirstLen - 1
  /\ adc0_valid' = 1
  /\ adc0_temp' = FirstTemp(Accumulate(r) \div FirstLen)
                    - adc0_heat_compensation
  /\ CloseWindow
  /\ x' = 1

LongAverage(r) ==
  /\ adc0_valid = 1
  /\ x = LongLen - 1
  /\ adc0_temp' = LongTemp(Accumulate(r) \div LongLen)
                    - adc0_heat_compensation
  /\ CloseWindow
  /\ x' = 0
  /\ UNCHANGED adc0_valid

adc0_data ==
  /\ \E r \in Readings : KeepReading(r) \/ FirstAverage(r) \/ LongAverage(r)
  /\ UNCHANGED board
-----------------------------------------------------------------------------
(* The web command "3Fadcsrc".                                             *)

(* Faulty variant: the custom setting is taken off the one in use.         *)
ChooseCustom_Relative ==
  /\ adc0_pwr_src' = 0
  /\ adc0_heat_compensation' = adc0_heat_compensation - 10 * Degree

ChooseCustom ==
  /\ adc0_pwr_src' = 0
  /\ adc0_heat_compensation' = 5 * Degree

ChooseSource(src) ==
  /\ adc0_pwr_src' = src
  /\ adc0_heat_compensation' = SourceCompensation[src]

(* Faulty variant: the power source stays chosen.                          *)
Nudge_KeepSource(d) ==
  /\ adc0_heat_compensation + d \in Compensations
  /\ adc0_heat_compensation' = adc0_heat_compensation + d
  /\ UNCHANGED adc0_pwr_src

Nudge(d) ==
  /\ adc0_heat_compensation + d \in Compensations
  /\ adc0_pwr_src' = 0
  /\ adc0_heat_compensation' = adc0_heat_compensation + d

AdcsrcPost ==
  /\ \/ ChooseCustom
     \/ \E src \in 1 .. 3 : ChooseSource(src)
     \/ \E d \in {Click, -Click} : Nudge(d)
  /\ UNCHANGED <<publish, window>>

Next == adc0_data \/ AdcsrcPost

Spec == Init /\ [][Next]_vars

(* The main loop calls adc0_data on every pass.                            *)
FairSpec == Spec /\ WF_vars(adc0_data)
-----------------------------------------------------------------------------
(* The measurement keeps what TempSensor promises: with the first long     *)
(* window one reading short, its sum divided all the same by LongLen, the  *)
(* average is at most one step low (adc.c:45-71).                          *)
Sensor == INSTANCE TempSensor WITH seen <- h_seen
Promise == Sensor!Spec

(* The board's compensation is the one of the power source that the        *)
(* settings page shows as chosen (http.c:188-217).                         *)
SourceMatchesCompensation ==
  adc0_pwr_src # 0 => adc0_heat_compensation = SourceCompensation[adc0_pwr_src]

(* Averages never stop being published: neither equality test on x is      *)
(* stepped over (adc.c:46, 61).                                            *)
KeepsPublishing == []<><<CloseWindow>>_vars
=============================================================================
