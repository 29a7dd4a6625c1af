---------------------------- MODULE MC_TimeLoop ----------------------------
(* A client on a small clock, one that keeps to its notes or another.      *)
EXTENDS TimeLoopClient

MCTimes == {0, 2, 4, 5}
MCStepSizes == {0, 1, 3}
MCIntervals == {2, 3}

ASSUME ShortClock == ShortSimulations

(* Bounds on the client that keeps to nothing: without aligning its step   *)
(* it runs off to any time.                                                *)
ClockBound ==
    keepsNotes \/ /\ time \in -1..4 /\ endTime = 4 /\ 5 \notin Due
                  /\ deltaPeriodicCheckPoint \in {0, 2} /\ ~finishedFlag
                  /\ userSetMaxTimeStepSize = MaxScalar
=============================================================================
