--------------------------- MODULE TimeLoopClient ---------------------------
(***************************************************************************)
(* The time loop driven by a client that keeps to its notes                *)
(* (dumux/common/timeloop.hh:230,448,506; the client in                    *)
(* test/common/timeloop/test_timeloop.cc:97-98): after it has moved the    *)
(* time or the end it sets the step size before it advances, it moves the  *)
(* time past no check point, and it resets a loop without check points.    *)
(* Another client calls what it likes.                                     *)
(***************************************************************************)
EXTENDS TimeLoop

VARIABLES
    mustAlign,  \* the client has moved time or end and not aligned since
    keepsNotes  \* it is a client that keeps to its notes

clientVars == <<vars, mustAlign, keepsNotes>>

ClientTypeOK == TypeOK /\ mustAlign \in BOOLEAN

(* The client moves the time within the simulated span and past no check point. *)
ClientSetTime(t) ==
    /\ t <= endTime
    /\ \A c \in Due : t < c
    /\ SetTime(t)

ClientSetEndTime(t) == t >= time /\ SetEndTime(t)

ClientReset(start, dt, end) ==
    /\ start <= end
    /\ ~periodicCheckPoints /\ checkPoints = << >>
    /\ Reset(start, dt, end)

ClientInit == Init /\ mustAlign = FALSE /\ keepsNotes \in BOOLEAN

ClientAdvance == ~mustAlign /\ AdvanceTimeStep /\ UNCHANGED mustAlign

ClientAlign == AligningCall /\ mustAlign' = FALSE

ClientNeutral == NeutralCall /\ UNCHANGED mustAlign

ClientMove ==
    /\ \/ \E t \in Times : ClientSetTime(t)
       \/ \E t \in Times : ClientSetEndTime(t)
       \/ \E start, end \in Times, dt \in StepSizes : ClientReset(start, dt, end)
    /\ mustAlign' = TRUE

KeptCall ==
    /\ keepsNotes /\ UNCHANGED keepsNotes
    /\ ClientAdvance \/ ClientAlign \/ ClientNeutral \/ ClientMove

FreeCall == ~keepsNotes /\ Next /\ UNCHANGED <<keepsNotes, mustAlign>>

ClientNext == KeptCall \/ FreeCall

ClientSpec == ClientInit /\ [][ClientNext]_clientVars
-----------------------------------------------------------------------------
(* Whenever the client may advance, the step is neither negative nor does  *)
(* it cross the end of the simulation or a check point that is due.        *)
ClientStepAligned ==
    /\ timeStepSize >= 0
    /\ ~mustAlign => StepIsAligned

(* No check point is left behind: each one due is at or after the current  *)
(* time, a periodic one strictly after.                                    *)
NoneLeftBehind ==
    /\ \A i \in 1..Len(checkPoints) : time <= checkPoints[i]
    /\ periodicCheckPoints => time < NextPeriodic

(* What advanceTimeStep needs to preserve the two. *)
KeptInv ==
    /\ ClientTypeOK
    /\ QueueSorted
    /\ periodicCheckPoints => deltaPeriodicCheckPoint > 0
    /\ time <= endTime
    /\ ClientStepAligned
    /\ NoneLeftBehind

(* It holds if the client keeps to its notes; the queue is sorted in any   *)
(* case.  The proof in TimeLoopProofs shows this inductive.                *)
ClientInv ==
    /\ ClientTypeOK /\ keepsNotes \in BOOLEAN
    /\ QueueSorted
    /\ keepsNotes => KeptInv

(* What the arrival at time' leaves of the points that were due: the         *)
(* periodic point it arrives at is moved to the next period and the queue    *)
(* stays; without one, a queued point it arrives at is taken off the front,  *)
(* and that one only, should the same time be queued twice.                  *)
OneTakenOff ==
    IF periodicCheckPoints /\ time' = NextPeriodic
    THEN NextPeriodic' > time' /\ checkPoints' = checkPoints
    ELSE /\ NextPeriodic' = NextPeriodic
         /\ IF time' \in Due
            THEN checkPoints = <<time'>> \o checkPoints'
            ELSE checkPoints' = checkPoints

(* A step that moves the time passes no check point that is due, raises the  *)
(* flag exactly when it arrives at one, and takes exactly one of those it    *)
(* arrives at off.  It is exact as long as the tolerance stays below a tick  *)
(* (ShortSimulations).                                                       *)
CheckPointsMet ==
    [][keepsNotes /\ ClientAdvance /\ timeStepSize > 0 =>
         /\ \A c \in Due : c >= time'
         /\ isCheckPoint' <=> time' \in Due
         /\ OneTakenOff]_clientVars
=============================================================================
