------------------------------ MODULE Display ------------------------------
(***************************************************************************)
(* What the user reads: update_display of src/src/display.c, with the      *)
(* helpers that take a temperature apart into digits (adc.c,               *)
(* rotaryencoder.c), and the two values that are adjusted a tenth of a     *)
(* degree at a time, the setpoint (rotaryencoder.c, http.c) and the heat   *)
(* compensation (http.c).                                                  *)
(*                                                                         *)
(* The values are floats of 24 significant bits, which hold no tenth       *)
(* exactly; they are integers here, Degree = 2^21 to the degree, and every *)
(* operation rounds to the nearest float, a tie to the even one.  The      *)
(* compiler's double is a float too.                                       *)
(***************************************************************************)
EXTENDS Integers, Sequences

CONSTANTS Temps,     \* bound: temperatures that are published
          Garbage,   \* bound: digits that a negative temperature may give
          Low, High  \* bound: the degrees the setpoint is adjusted between

Degree == 2 ^ 21

ASSUME DisplayAssumption ==
  /\ Low \in 4 .. 20 /\ High \in 20 .. 64
  /\ Temps \subseteq -10 * Degree .. 100 * Degree - 1
  /\ Garbage \subseteq 0 .. 15

VARIABLES adc0_valid, adc0_temp,       \* the temperature, once there is one
          rot_enc_change,              \* the setpoint is in view
          desired_temp,                \* the setpoint
          adc0_heat_compensation,      \* the correction for board heat
          shown,                       \* what the last refresh lit, in order
          pc,                          \* what the main loop does next
          knob,                        \* bound: which of the two is adjusted
          h_setpoint, h_compensation   \* history: the tenths asked for

sensor   == <<adc0_valid, adc0_temp>>
setpoint == <<desired_temp, h_setpoint>>
heat     == <<adc0_heat_compensation, h_compensation>>
vars     == <<sensor, rot_enc_change, setpoint, heat, shown, pc, knob>>

Init ==
  /\ adc0_valid = 0
  /\ adc0_temp = 0
  /\ rot_enc_change = 0
  /\ desired_temp = 20 * Degree
  /\ adc0_heat_compensation = 15 * Degree
  /\ shown = <<>>
  /\ h_setpoint = 200
  /\ h_compensation = 150
  /\ pc = "server_process"
  /\ knob \in {"setpoint", "compensation"}
-----------------------------------------------------------------------------
(* Floating point.  From 4 degrees on the floats are Spacing(v) apart;     *)
(* below, where they are closer, only the whole numbers occur here.        *)
Spacing(v) ==
  2 ^ (CHOOSE e \in 0 .. 7 :
         v \div (Degree * 2 ^ e) \in (IF e = 0 THEN 0 ELSE 4) .. 7)

(* What the sensor publishes are floats.                                   *)
ASSUME FloatsAssumption ==
  \A t \in Temps : t >= 4 * Degree => t % Spacing(t) = 0

(* The float nearest to v and f sixty-fourths.                             *)
Nearest(v, f) ==
  LET gap  == Spacing(v)
      low  == v - (v % gap)
      over == 2 * (64 * (v % gap) + f) - 64 * gap
  IN  IF over > 0 \/ (over = 0 /\ (low \div gap) % 2 = 1)
      THEN low + gap ELSE low

(* 0.1 is held as 209715 and 13 sixty-fourths of a unit.                   *)
(* Faulty variant: a tenth is taken for an eighth.                         *)
Tenth_Eighth(v, d) == v + d * (Degree \div 8)

Tenth(v, d) == IF d = 1 THEN Nearest(v + 209715, 13)
                        ELSE Nearest(v - 209716, 51)
-----------------------------------------------------------------------------
(* Digits: adc_read_temp1 .. 3, adc_read_compensation1 .. 3 and            *)
(* desired_read_temp1 .. 3, the same text three times.                     *)

temp1(t) == t \div (10 * Degree)
temp2(t) == t \div Degree - 10 * temp1(t)

(* Faulty variant: the tenths are rounded.                                 *)
temp3_Rounded(t) ==
  (Nearest(10 * t, 0) + Degree \div 2) \div Degree - 10 * (t \div Degree)

temp3(t) == Nearest(10 * t, 0) \div Degree - 10 * (t \div Degree)

Reading(t) == 100 * temp1(t) + 10 * temp2(t) + temp3(t)

(* A tenth of a degree below zero, and colder, the conversions to an       *)
(* unsigned WORD are undefined.                                            *)
Readable(t) == 10 * t > -Degree

Digits(t) ==
  IF t >= 0 THEN {<<temp1(t), temp2(t), temp3(t)>>}
  ELSE IF Readable(t) THEN {<<0, 0, 0>>}
  ELSE [1 .. 3 -> Garbage]
-----------------------------------------------------------------------------
(* The refresh.  One position is lit at a time, pins 4 to 7 of PORTD, with *)
(* the low four bits of its digit; bits 1 and 2 of PORTA are the dot and   *)
(* the decimal point.                                                      *)

Lit(pins, digit, points) ==
  [pins |-> pins, digit |-> digit % 16, points |-> points]

Everything == Lit({4, 5, 6, 7}, 8, {1, 2})
Number(d)  == <<Lit({4}, d[1], {}), Lit({5}, d[2], {2}), Lit({6}, d[3], {})>>
Celsius    == <<Lit({7}, 10, {}), Lit({}, 11, {1})>>

(* Faulty variant: the two branches are swapped.                           *)
InView_Swapped ==
  IF rot_enc_change = 1 THEN {Number(d) : d \in Digits(adc0_temp)}
  ELSE {Number(d) \o Celsius : d \in Digits(desired_temp)}

InView ==
  IF rot_enc_change = 1 THEN {Number(d) : d \in Digits(desired_temp)}
  ELSE {Number(d) \o Celsius : d \in Digits(adc0_temp)}

(* Before the first average everything is lit, and then the digits all the *)
(* same.                                                                   *)
update_display ==
  /\ \E s \in InView :
       shown' = (IF adc0_valid = 0 THEN <<Everything>> ELSE <<>>) \o s
  /\ pc = "update_display" /\ pc' = "check_rotary"
  /\ UNCHANGED <<sensor, rot_enc_change, setpoint, heat, knob>>
-----------------------------------------------------------------------------
(* The rest of the program, in the order of the main loop.                 *)

Move(d) ==
  /\ knob = "setpoint"
  /\ desired_temp' = Tenth(desired_temp, d)
  /\ Low * Degree <= desired_temp' /\ desired_temp' <= High * Degree
  /\ h_setpoint' = h_setpoint + d

Nudge(d) ==
  /\ adc0_heat_compensation' = Tenth(adc0_heat_compensation, d)
  /\ 4 * Degree <= adc0_heat_compensation'
  /\ adc0_heat_compensation' <= 25 * Degree
  /\ h_compensation' = h_compensation + d

ChooseSource(tenths) ==
  /\ adc0_heat_compensation' = (tenths * Degree) \div 10
  /\ h_compensation' = tenths

(* The web commands "3Fsub" and "3Fadcsrc", or neither.                    *)
server_process ==
  /\ pc = "server_process" /\ pc' = "adc0_data"
  /\ \/ /\ \E d \in {1, -1} : Move(d)
        /\ rot_enc_change' = 1
        /\ UNCHANGED heat
     \/ /\ knob = "compensation"
        /\ \/ \E d \in {1, -1} : Nudge(d)
           \/ \E tenths \in {50, 150, 175, 200} : ChooseSource(tenths)
        /\ UNCHANGED <<rot_enc_change, setpoint>>
     \/ UNCHANGED <<rot_enc_change, setpoint, heat>>
  /\ UNCHANGED <<sensor, shown, knob>>

(* A temperature is published, or only a reading taken.                    *)
adc0_data ==
  /\ pc = "adc0_data" /\ pc' = "update_display"
  /\ \/ adc0_valid' = 1 /\ adc0_temp' \in Temps
     \/ UNCHANGED sensor
  /\ UNCHANGED <<rot_enc_change, setpoint, heat, shown, knob>>

(* A click is taken, or none, and the view closes, or does not; the relays *)
(* change nothing here.                                                    *)
check_rotary ==
  /\ pc = "check_rotary" /\ pc' = "server_process"
  /\ (\E d \in {1, -1} : Move(d)) \/ UNCHANGED setpoint
  /\ rot_enc_change' \in {0, rot_enc_change}
  /\ UNCHANGED <<sensor, heat, shown, knob>>

(* The interrupt of the dial.                                              *)
OpenView ==
  /\ rot_enc_change' = 1
  /\ UNCHANGED <<sensor, setpoint, heat, shown, pc, knob>>

Next == server_process \/ adc0_data \/ update_display \/ check_rotary
          \/ OpenView

Spec == Init /\ [][Next]_vars
-----------------------------------------------------------------------------
(* Every digit that is lit, of a temperature that is not below zero, is    *)
(* one: the product 10 t, rounded, never reaches the next whole degree,    *)
(* which would be a tenth of ten (adc.c:94-96, rotaryencoder.c:72-74).     *)
Legible ==
  [][update_display /\ (rot_enc_change = 1 \/ Readable(adc0_temp))
       => \A i \in DOMAIN shown' :
            shown'[i].pins \in {{4}, {5}, {6}} => shown'[i].digit <= 9]_vars

(* While the setpoint is in view, a refresh shows the setpoint, as it was  *)
(* asked for or a tenth less, never more: the errors of adding 0.1 as a    *)
(* float, up and down again and into floats of another spacing, and of     *)
(* cutting off the digits do not add up (rotaryencoder.c:32-38, 50-76,     *)
(* display.c:23-51).                                                       *)
Shown(s) == 100 * s[1].digit + 10 * s[2].digit + s[3].digit
ShowsSetpoint ==
  [][update_display /\ rot_enc_change = 1
       => LET s == IF adc0_valid = 0 THEN Tail(shown') ELSE shown'
          IN  /\ Len(s) = 3
              /\ Shown(s) - h_setpoint \in {-1, 0}]_vars

(* The settings page shows the compensation as it was chosen and added to, *)
(* or a tenth less (adc.c:99-122, http.c:183-219).                         *)
CompensationNear == Reading(adc0_heat_compensation) - h_compensation \in {-1, 0}
=============================================================================
