--------------------------- MODULE MC_Simulation ---------------------------
(* The main program on a clock of five ticks.                              *)
EXTENDS InstationarySimulation

MCTimes == {0, 3, 5}
MCStepSizes == {1, 3}
MCIntervals == {2}

(* Periodic check points fall on a time that is queued as well. *)
SameInterval == {3}

ASSUME ShortClock == ShortSimulations
=============================================================================
