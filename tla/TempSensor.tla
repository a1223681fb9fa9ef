----------------------------- MODULE TempSensor -----------------------------
(***************************************************************************)
(* What the rest of the thermostat may rely on of the temperature          *)
(* measurement (src/src/adc.c): from time to time it publishes an average  *)
(* of the readings taken since the last one, an average that is never      *)
(* above the highest of them and at most one step of the converter below   *)
(* the lowest, converted to a temperature and corrected for board heat.    *)
(* How many readings make an average is left open.                         *)
(***************************************************************************)
EXTENDS Integers, FiniteSetsExt

CONSTANTS Readings,         \* what the converter may return
          FirstTemp(_),     \* the conversion of the first average
          LongTemp(_),      \* and of those that follow
          Compensations     \* the heat compensations that may be chosen

VARIABLES adc0_valid,              \* an average has been published
          adc0_temp,               \* the temperature published last
          adc0_heat_compensation,  \* the correction for board heat
          seen                     \* the readings since the last average

vars == <<adc0_valid, adc0_temp, adc0_heat_compensation, seen>>

Init ==
  /\ adc0_valid = 0
  /\ adc0_temp = 0
  /\ adc0_heat_compensation \in Compensations
  /\ seen = {}

Averages(S) == (Min(S) - 1) .. Max(S)

Take(r) ==
  /\ seen' = seen \cup {r}
  /\ UNCHANGED <<adc0_valid, adc0_temp, adc0_heat_compensation>>

Publish(r) ==
  /\ \E a \in Averages(seen \cup {r}) :
       adc0_temp' = (IF adc0_valid = 0 THEN FirstTemp(a) ELSE LongTemp(a))
                      - adc0_heat_compensation
  /\ adc0_valid' = 1
  /\ seen' = {}
  /\ UNCHANGED adc0_heat_compensation

Compensate ==
  /\ adc0_heat_compensation' \in Compensations
  /\ UNCHANGED <<adc0_valid, adc0_temp, seen>>

Next == (\E r \in Readings : Take(r) \/ Publish(r)) \/ Compensate

Spec == Init /\ [][Next]_vars
=============================================================================
