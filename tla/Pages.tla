------------------------------- MODULE Pages -------------------------------
(***************************************************************************)
(* The two pages of the web server, http_home of src/src/http.c, beside    *)
(* the relay controller whose state they show.  Part 0 of an answer is the *)
(* head of either page, part 1 the home page, parts 2 and 3 the settings.  *)
(*                                                                         *)
(* A part is known by its length in bytes, by the statements it makes and  *)
(* by the buttons it offers; its wording is left out.  The digits of a     *)
(* temperature are always three, one character each.                       *)
(***************************************************************************)
EXTENDS Relays

VARIABLES web_page,        \* the page shown: 1 home, 2 settings
          adc0_pwr_src,    \* the power source chosen
          mac_filter,      \* the address filter is on
          PORTB            \* the light diodes that are lit

web      == <<web_page, adc0_pwr_src, mac_filter, PORTB>>
pageVars == <<vars, web>>

MAX_RXTX_BUFFER == 1518
MAX_TX_BUFFER   == 1500
Headers == 54    \* Ethernet, IP and TCP headers ahead of the data

PagesTypeOK ==
  /\ TypeOK
  /\ web_page \in {1, 2}
  /\ adc0_pwr_src \in 0 .. 3
  /\ mac_filter \in {0, 1}
  /\ PORTB \subseteq {0, 1}

InitSource == adc0_pwr_src = 1

PagesInit ==
  /\ Init
  /\ InitSource
  /\ web_page = 1
  /\ mac_filter = 0
  /\ PORTB = {}
-----------------------------------------------------------------------------
(* What the home page says is on.                                          *)
StatusOn(flag, demand) == flag = 1 /\ (demand = 1 \/ hvac_flag_auto = 0)
HeatingOn     == StatusOn(hvac_heat_flag, hvac_heat)
VentilationOn == StatusOn(hvac_vent_flag, hvac_vent)

(* Faulty variant: the demand alone, without its switch.                   *)
CoolingOn_Demand == hvac_ac = 1 \/ hvac_flag_auto = 0

CoolingOn == StatusOn(hvac_ac_flag, hvac_ac)

(* What the settings page says: the switches, as far as they can be used.  *)
Settings == <<hvac_flag_sys, hvac_flag_auto, hvac_flag_heat_src,
              IF hvac_flag_sys = 1
              THEN <<hvac_heat_flag, hvac_vent_flag, hvac_ac_flag>>
              ELSE <<0, 0, 0>>,
              mac_filter>>

(* The switches offered, as <<name, value>>; "x" is a dead button.  With   *)
(* the system off the others cannot be used.                               *)
(* Faulty variant: a button asks for the mode that is on already.          *)
HvacButtons_SameMode ==
  {<<"hvac", "0">>} \cup
  IF hvac_flag_sys = 0
  THEN {<<"hvac", "x">>}
  ELSE {<<"hvac", v>> : v \in {"1", "2", "3"}}
         \cup {<<"hvac", IF hvac_flag_auto = 0 THEN "m" ELSE "a">>}
         \cup {<<"hvac", IF hvac_flag_heat_src = 1 THEN "s" ELSE "p">>}

HvacButtons ==
  {<<"hvac", "0">>} \cup
  IF hvac_flag_sys = 0
  THEN {<<"hvac", "x">>}
  ELSE {<<"hvac", v>> : v \in {"1", "2", "3"}}
         \cup {<<"hvac", IF hvac_flag_auto = 0 THEN "a" ELSE "m">>}
         \cup {<<"hvac", IF hvac_flag_heat_src = 1 THEN "s" ELSE "p">>}

HomeButtons == {<<"sub", "1">>, <<"sub", "2">>}
SettingsButtons ==
  HvacButtons \cup {<<"mac", IF mac_filter = 0 THEN "1" ELSE "0">>}
    \cup {<<"adcsrc", v>> : v \in {"0", "1", "2", "3", "u", "d"}}
    \cup {<<"sub", v>> : v \in {"u", "d"}}
Buttons ==
  {<<"page", "1">>, <<"page", "2">>}
    \cup IF web_page = 1 THEN HomeButtons ELSE SettingsButtons

(* The lengths of the parts, in the order of the text.                     *)
OnOff(on, length) == IF on THEN length ELSE length + 1
Ticked(flag, length) == IF flag = 1 THEN length + 7 ELSE length

HeadLength ==
  1108 + (IF web_page = 1 THEN 98 + 88 ELSE 84 + 102) + 15

HomeLength ==
  848
    + OnOff(hvac_flag_sys = 1, 15)
    + (IF hvac_flag_auto = 0 THEN 16 ELSE 19)
    + (IF hvac_flag_heat_src = 1 THEN 24 ELSE 26)
    + OnOff(HeatingOn, 26) + OnOff(VentilationOn, 26) + OnOff(CoolingOn, 22)
    + 39 + 20
    + (IF 1 \in PORTB THEN 87 ELSE 56)
    + (IF 0 \in PORTB THEN 94 ELSE 63)
    + 24

SettingsLength ==
  418
    + (IF hvac_flag_sys = 1 THEN 73 ELSE 66)
    + (IF hvac_flag_auto = 0 THEN 65 ELSE 68)
    + (IF hvac_flag_heat_src = 1 THEN 78 ELSE 80)
    + 50
    + (IF hvac_flag_sys = 1
       THEN Ticked(hvac_heat_flag, 62) + Ticked(hvac_vent_flag, 70)
              + Ticked(hvac_ac_flag, 66)
       ELSE 62 + 70 + 66)

(* Faulty variant: the last part goes after the text of the one before.    *)
CompensationLength_NoReset == SettingsLength + 639 + Ticked(mac_filter, 53)

CompensationLength ==
  46 + 26 + 4 + 6 + 50 + 20
    + (61 + 92 + 60 + 60)            \* one source is shown as chosen
    + 65 + 65 + 39
    + Ticked(mac_filter, 53) + 14 + 31

http_home(packet) ==
  CASE packet = 0 -> HeadLength
    [] packet = 1 -> HomeLength
    [] packet = 2 -> SettingsLength
    [] packet = 3 -> CompensationLength
-----------------------------------------------------------------------------
(* A button is pressed on a page that is up to date, by the client that    *)
(* owns the address filter (owns = TRUE: its address is the one stored) or *)
(* by another.  While the filter is off every client passes, and the one   *)
(* that switches it on owns it.  The page is offered to all of them.       *)
mac_filter_pass(owns) == mac_filter = 0 \/ owns

HvacCommand(v) ==
  \/ /\ \/ v = "0" /\ ToggleSystem
        \/ v \in {"1", "2", "3"} /\ ToggleComponent(v)
        \/ v \in {"p", "s"} /\ ChooseSource(IF v = "p" THEN 1 ELSE 2)
        \/ v \in {"a", "m"} /\ ChooseMode(IF v = "a" THEN 1 ELSE 0)
     /\ h_commanded' = 1
  \/ v = "x" /\ UNCHANGED <<flags, h_commanded>>

PressHvac(v, owns) ==
  /\ <<"hvac", v>> \in Buttons
  /\ mac_filter_pass(owns)
  /\ HvacCommand(v)
  /\ UNCHANGED <<inputs, control, web>>

PressPage(v) ==
  /\ <<"page", v>> \in Buttons
  /\ web_page' = IF v = "1" THEN 1 ELSE 2
  /\ UNCHANGED <<inputs, flags, relays, adc0_pwr_src, mac_filter, PORTB>>

PressFilter(v, owns) ==
  /\ <<"mac", v>> \in Buttons
  /\ mac_filter_pass(owns)
  /\ mac_filter' = IF v = "1" THEN 1 ELSE 0
  /\ UNCHANGED <<inputs, flags, relays, web_page, adc0_pwr_src, PORTB>>

PressLight(v, owns) ==
  /\ <<"sub", v>> \in Buttons
  /\ mac_filter_pass(owns)
  /\ LET bit == IF v = "1" THEN 1 ELSE 0
     IN  PORTB' = (PORTB \ {bit}) \cup ({bit} \ PORTB)
  /\ UNCHANGED <<inputs, flags, relays, web_page, adc0_pwr_src, mac_filter>>

(* Nudging the compensation makes the source a custom one.                 *)
PressSource(v, owns) ==
  /\ <<"adcsrc", v>> \in Buttons
  /\ mac_filter_pass(owns)
  /\ adc0_pwr_src' = CASE v = "1" -> 1 [] v = "2" -> 2 [] v = "3" -> 3
                       [] OTHER -> 0
  /\ UNCHANGED <<inputs, flags, relays, web_page, mac_filter, PORTB>>

(* A client that the filter refuses gets the page and changes nothing; the *)
(* page buttons alone work for it.                                         *)
PressRefused(b, owns) ==
  /\ b \in Buttons
  /\ b[1] # "page"
  /\ ~mac_filter_pass(owns)
  /\ UNCHANGED pageVars

(* The switches: those of the system that are live, the filter, the lights.*)
Switches == {<<"hvac", v>> : v \in {"0", "1", "2", "3", "p", "s", "a", "m"}}
              \cup {<<"mac", v>> : v \in {"0", "1"}}
              \cup {<<"sub", v>> : v \in {"1", "2"}}

PressSwitch(b, owns) ==
  \/ b[1] = "hvac" /\ PressHvac(b[2], owns)
  \/ b[1] = "mac" /\ PressFilter(b[2], owns)
  \/ b[1] = "sub" /\ PressLight(b[2], owns)

Press ==
  \/ \E v \in {"1", "2"} : PressPage(v)
  \/ \E owns \in BOOLEAN :
       \/ \E b \in Switches \cup {<<"hvac", "x">>} : PressSwitch(b, owns)
       \/ \E v \in {"0", "1", "2", "3", "u", "d"} : PressSource(v, owns)
       \/ \E b \in Buttons : PressRefused(b, owns)

(* The rest of the program: the main loop, the sensor and the dial.        *)
Elsewhere ==
  /\ ControlRelays \/ SensorPublish \/ AdjustSetpoint
  /\ UNCHANGED web

PagesNext == Press \/ Elsewhere

PagesSpec == PagesInit /\ [][PagesNext]_pageVars
-----------------------------------------------------------------------------
(* Whatever the switches, every part of a page fits the buffer it is built *)
(* in, behind the headers, and the transmit area of the controller with    *)
(* the control byte ahead of it and the seven status bytes after it        *)
(* (http.c:484-1161, enc28j60.c:257-283).                                  *)
FitsFrame ==
  \A packet \in 0 .. 3 :
    /\ Headers + http_home(packet) <= MAX_RXTX_BUFFER
    /\ 1 + Headers + http_home(packet) + 7 <= MAX_TX_BUFFER

(* A switch that a page offers as live does something for every client the *)
(* filter lets pass, and what it does shows: the pages then say something  *)
(* else of the settings or the lights, never the same again (http.c:104,   *)
(* 121-125, 145-180, 725-773, 854-996, 1138-1148).                         *)
Shown == <<Settings, PORTB>>
ButtonsWork ==
  \A b \in Switches, owns \in BOOLEAN :
    b \in Buttons /\ mac_filter_pass(owns)
      => ENABLED (PressSwitch(b, owns) /\ Shown' # Shown)

(* In automatic mode, when control_relays has evaluated the temperature,   *)
(* the home page says of heating and of cooling what their relays do.      *)
StatusTrueInAuto ==
  [][Evaluate /\ hvac_flag_auto = 1
       => /\ HeatingOn' = (PORTC' \cap {0, 1} # {})
          /\ CoolingOn' = (6 \in PORTC')]_pageVars
=============================================================================
