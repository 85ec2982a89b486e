------------------------------ MODULE MCTimer ------------------------------
(* The timer with a 3-bit counter; waits of 0, 1 and 2 ticks.             *)
EXTENDS Timer

MCDurations == {0, 1, 2}
=============================================================================
