------------------------------ MODULE MCRelays ------------------------------
(* Small instances of Relays: temperatures that lie below, inside and      *)
(* above the band of each setpoint, on its edges where they can.           *)
EXTENDS Relays

MCTemps == {190, 200, 260}
MCSetpoints == {200, 210}
=============================================================================
