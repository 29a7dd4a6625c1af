---------------------------- MODULE TimeManager ----------------------------
(***************************************************************************)
(* The time manager of the sequential models: dumux/common/timemanager.hh. *)
(* It keeps the time, the step size and the current episode, and aligns a  *)
(* step to the end of the episode and of the simulation.  Time is counted  *)
(* in integer ticks.  The flag of setFinished, which only the stationary   *)
(* problem sets, and the description of an episode are left out.           *)
(***************************************************************************)
EXTENDS Integers

CONSTANTS
    EndTime,         \* TimeManager.TEnd
    MaxTimeStepSize  \* TimeManager.MaxTimeStepSize: the problem's maxTimeStepSize()

ASSUME TimeManagerAssumption == EndTime \in Nat /\ MaxTimeStepSize \in Nat \ {0}

VARIABLES
    time, timeStepSize, previousTimeStepSize, timeStepIdx,
    episodeIndex, episodeStartTime, episodeLength

stepVars == <<time, timeStepSize, previousTimeStepSize, timeStepIdx>>
episodeVars == <<episodeIndex, episodeStartTime, episodeLength>>
managerVars == <<stepVars, episodeVars>>
-----------------------------------------------------------------------------
AtMost(a, b) == IF a <= b THEN a ELSE b
AtLeast(a, b) == IF a >= b THEN a ELSE b

Finished == time >= EndTime
WillBeFinished == time + timeStepSize >= EndTime

EpisodeEndTime == episodeStartTime + episodeLength

(* Mutant: strictly after its end. *)
EpisodeIsOverAfter(t) == t > EpisodeEndTime

EpisodeIsOver(t) == t >= EpisodeEndTime

EpisodeIsFinished == EpisodeIsOver(time)
EpisodeWillBeFinished == EpisodeIsOver(time + timeStepSize)

(* Mutant: the length of the episode. *)
EpisodeLengthStep(t, e) == episodeLength

(* The largest step from time t in the episode that ends at e. *)
EpisodeMaxStep(t, e) == AtLeast(0, e - t)

(* Mutant: the end of the simulation is not heeded. *)
MaxStepAcrossEnd(t, e) == AtMost(EpisodeMaxStep(t, e), MaxTimeStepSize)

(* Nor does it exceed the problem's maximum or cross the end. *)
MaxStep(t, e) ==
    AtMost(AtMost(EpisodeMaxStep(t, e), MaxTimeStepSize), AtLeast(0, EndTime - t))

SetTimeStepSize(dt) == timeStepSize' = AtMost(dt, MaxStep(time, EpisodeEndTime))

(* The step proposed after one that ends at t: at the end of an episode the *)
(* last one that was not cut to it, as the problem's episodeEnd() sets none; *)
(* else the current one, which is what nextTimeStepSize() returns.          *)
ProposedStep(t) ==
    IF EpisodeIsOver(t) THEN AtLeast(previousTimeStepSize, timeStepSize)
                        ELSE timeStepSize
-----------------------------------------------------------------------------
(* run(), after the time integration: the time advances by the step.  An   *)
(* episode that is over is left to the problem, which starts the next one  *)
(* of length len, or does nothing for len = 0 or at the end.               *)
AdvanceTime(len) ==
    LET now == time + timeStepSize
        begins == EpisodeIsOver(now) /\ len > 0 /\ now < EndTime
    IN  /\ time' = now
        /\ timeStepIdx' = timeStepIdx + 1
        /\ episodeIndex' = IF begins THEN episodeIndex + 1 ELSE episodeIndex
        /\ episodeStartTime' = IF begins THEN now ELSE episodeStartTime
        /\ episodeLength' = IF begins THEN len ELSE episodeLength
        /\ previousTimeStepSize' = ProposedStep(now)
        /\ timeStepSize' = AtMost(ProposedStep(now),
              MaxStep(now, IF begins THEN now + len ELSE EpisodeEndTime))
=============================================================================
