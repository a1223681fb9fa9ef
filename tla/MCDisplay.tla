----------------------------- MODULE MCDisplay -----------------------------
(* Temperatures at zero and on either side of it, the last float below     *)
(* some whole degrees, ten and a hundred with them, and an even one.       *)
EXTENDS Display

LastBelow(n) ==
  n * Degree - (IF n <= 8 THEN 1 ELSE IF n <= 16 THEN 2
                ELSE IF n <= 32 THEN 4 ELSE IF n <= 64 THEN 8 ELSE 16)
MCTemps == {-5 * Degree, -1, 0, 20 * Degree}
             \cup {LastBelow(n) : n \in {8, 10, 33, 100}}
MCGarbage == {0, 11}
=============================================================================
