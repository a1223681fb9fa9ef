------------------------------- MODULE MCAdc -------------------------------
(* A small instance of Adc: short windows, readings at both ends of the    *)
(* converter's range, and a few custom compensations on either side of the *)
(* ones that belong to a power source.                                     *)
EXTENDS Adc

MCReadings == {0, 5, 8}
MCCompensations == {49, 50, 51, 150, 151, 175, 200}
=============================================================================
