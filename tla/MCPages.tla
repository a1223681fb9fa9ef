------------------------------ MODULE MCPages ------------------------------
(* A cold, a comfortable and a warm room, and a demand after one pass.     *)
EXTENDS Pages

MCTemps == {190, 200, 250}
MCSetpoints == {200}
=============================================================================
