---------------------------- MODULE MCThermostat ----------------------------
(* A small instance of Thermostat: a cold and a warm room, a pass of the   *)
(* main loop of one tick, one click or setpoint command and one switch     *)
(* command.                                                                *)
EXTENDS Thermostat

MCTemps == {190, 260}
MCSetpoints == 195 .. 205
=============================================================================
