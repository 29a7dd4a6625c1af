------------------------------ MODULE TimeLoop ------------------------------
(***************************************************************************)
(* The time loop of an instationary simulation: dumux/common/timeloop.hh,  *)
(* class CheckPointTimeLoop and its base TimeLoop.  (A plain TimeLoop is   *)
(* the object whose check points are never set.)                           *)
(*                                                                         *)
(* Time is counted in integer ticks.  The comparisons with a relative      *)
(* tolerance of 1e-10 or 1e-14 are exact at that resolution; the one with  *)
(* 1e-8*timeStepSize() is not and is modelled by FuzzyEq.  None of the     *)
(* members is virtual: a call made inside the base class reaches the base  *)
(* class's setTimeStepSize, a call on the object reaches the derived one.  *)
(* The step index, the size of the last step and the wall clock are only   *)
(* reported and are left out.                                              *)
(***************************************************************************)
EXTENDS Integers, Sequences

CONSTANTS
    MaxScalar,  \* std::numeric_limits<Scalar>::max(), in ticks
    EqScale,    \* 1e8 divided by the seconds of a tick: see FuzzyEq
    Times,      \* points in time a client passes
    StepSizes,  \* step sizes a client passes
    Intervals,  \* check point intervals a client passes
    QueueBound  \* bound: length of the queue of check points

ASSUME TimeLoopAssumption ==
    /\ MaxScalar \in Nat /\ EqScale \in Nat \ {0} /\ QueueBound \in Nat
    /\ Times \subseteq Int
    /\ StepSizes \subseteq Nat
    /\ Intervals \subseteq Nat \ {0}

VARIABLES
    time, endTime, timeStepSize, maxTimeStepSize, userSetMaxTimeStepSize,
    finishedFlag,                                   \* member finished_
    periodicCheckPoints, deltaPeriodicCheckPoint, lastPeriodicCheckPoint,
    checkPoints, isCheckPoint

baseVars == <<time, endTime, timeStepSize, maxTimeStepSize,
              userSetMaxTimeStepSize, finishedFlag>>
checkVars == <<periodicCheckPoints, deltaPeriodicCheckPoint,
               lastPeriodicCheckPoint, checkPoints, isCheckPoint>>
vars == <<baseVars, checkVars>>

TypeOK ==
    /\ time \in Int /\ endTime \in Int /\ timeStepSize \in Int
    /\ maxTimeStepSize \in Nat /\ userSetMaxTimeStepSize \in Nat
    /\ finishedFlag \in BOOLEAN
    /\ periodicCheckPoints \in BOOLEAN
    /\ deltaPeriodicCheckPoint \in Nat /\ lastPeriodicCheckPoint \in Int
    /\ checkPoints \in Seq(Int)
    /\ isCheckPoint \in BOOLEAN
-----------------------------------------------------------------------------
AtMost(a, b) == IF a <= b THEN a ELSE b
AtLeast(a, b) == IF a >= b THEN a ELSE b
Abs(a) == AtLeast(a, -a)

(* Dune::FloatCmp::eq(a, b, 1e-8*d) compares |a-b| with 1e-8*d*max(|a|,|b|): *)
(* a tolerance that is relative and grows with the step size d in seconds.   *)
FuzzyEq(a, b, d) == Abs(a - b) * EqScale <= d * AtLeast(Abs(a), Abs(b))

(* No client simulates so long, counted in ticks, that this tolerance      *)
(* reaches a tick.                                                         *)
ShortSimulations ==
    \A s, t \in Times : s <= t => (t - s) * (AtLeast(Abs(s), Abs(t)) + 1) < EqScale

(* Mutant: strictly past the end. *)
IsFinishedBeyond(t, end, flag) == flag \/ end < t

IsFinished(t, end, flag) ==
    \/ flag
    \/ t > 0 /\ end <= t
    \/ t <= 0 /\ end < t

finished == IsFinished(time, endTime, finishedFlag)

(* computeMaxTimeStepSize_ *)
MaxStep(t, end, userMax, flag) ==
    IF IsFinished(t, end, flag) THEN 0 ELSE AtMost(userMax, AtLeast(0, end - t))

(* The next periodic check point. *)
NextPeriodic == lastPeriodicCheckPoint + deltaPeriodicCheckPoint

(* Mutant: the queue of check points is forgotten. *)
StepToPeriodicOnly(t, periodic, next, queue) ==
    IF periodic THEN AtMost(MaxScalar, next - t) ELSE MaxScalar

(* computeStepSizeRespectingCheckPoints_, after the members named here have *)
(* received their values.                                                   *)
StepToCheckPoint(t, periodic, next, queue) ==
    AtMost(IF periodic THEN AtMost(MaxScalar, next - t) ELSE MaxScalar,
           IF queue # << >> THEN Head(queue) - t ELSE MaxScalar)

(* The base class's setTimeStepSize(dt), given the new values of the other  *)
(* members, and the derived class's.                                        *)
BaseSetTimeStepSize(dt) ==
    /\ maxTimeStepSize' = MaxStep(time', endTime', userSetMaxTimeStepSize', finishedFlag')
    /\ timeStepSize' = AtMost(dt, maxTimeStepSize')

AlignTimeStepSize(dt) ==
    BaseSetTimeStepSize(
        AtMost(dt, StepToCheckPoint(time', periodicCheckPoints', NextPeriodic', checkPoints')))
-----------------------------------------------------------------------------
(* Both constructors, with a step size and an end the caller gives. *)
Init ==
    /\ time \in Times /\ endTime \in {t \in Times : t >= time}
    /\ userSetMaxTimeStepSize = MaxScalar
    /\ finishedFlag = FALSE
    /\ maxTimeStepSize = MaxStep(time, endTime, MaxScalar, FALSE)
    /\ \E dt \in StepSizes : timeStepSize = AtMost(dt, maxTimeStepSize)
    /\ periodicCheckPoints = FALSE
    /\ deltaPeriodicCheckPoint = 0
    /\ lastPeriodicCheckPoint = time
    /\ checkPoints = << >>
    /\ isCheckPoint = FALSE

(* reset() belongs to the base class: it leaves the check points alone. *)
Reset(start, dt, end) ==
    /\ time' = start /\ endTime' = end
    /\ userSetMaxTimeStepSize' = MaxScalar
    /\ finishedFlag' = FALSE
    /\ BaseSetTimeStepSize(dt)
    /\ UNCHANGED checkVars

(* The step size that the check point comparison of advanceTimeStep sees:   *)
(* the base class has already cut it to the end and to the user's maximum.  *)
CutStep == AtMost(timeStepSize,
                  MaxStep(time + timeStepSize, endTime, userSetMaxTimeStepSize, finishedFlag))

AtPeriodic == periodicCheckPoints /\ FuzzyEq(time + timeStepSize, NextPeriodic, CutStep)

AtManual == checkPoints # << >> /\ FuzzyEq(time + timeStepSize, Head(checkPoints), CutStep)

(* Mutant: the point arrived at stays in the queue. *)
QueueKept == checkPoints

(* One check point at most is taken off per step, a periodic one first. *)
QueueAfter == IF ~AtPeriodic /\ AtManual THEN Tail(checkPoints) ELSE checkPoints

AdvanceTimeStep ==
    /\ time' = time + timeStepSize
    /\ lastPeriodicCheckPoint' = IF AtPeriodic THEN NextPeriodic ELSE lastPeriodicCheckPoint
    /\ checkPoints' = QueueAfter
    /\ isCheckPoint' = (AtPeriodic \/ AtManual)
    /\ UNCHANGED <<endTime, userSetMaxTimeStepSize, finishedFlag,
                   periodicCheckPoints, deltaPeriodicCheckPoint>>
    /\ AlignTimeStepSize(CutStep)

SetTime(t) ==
    /\ time' = t
    /\ UNCHANGED <<endTime, timeStepSize, maxTimeStepSize, userSetMaxTimeStepSize,
                   finishedFlag, checkVars>>

SetEndTime(t) ==
    /\ endTime' = t
    /\ UNCHANGED <<time, timeStepSize, maxTimeStepSize, userSetMaxTimeStepSize,
                   finishedFlag, checkVars>>

SetTimeStepSize(dt) ==
    /\ UNCHANGED <<time, endTime, userSetMaxTimeStepSize, finishedFlag, checkVars>>
    /\ AlignTimeStepSize(dt)

SetMaxTimeStepSize(maxDt) ==
    /\ userSetMaxTimeStepSize' = maxDt
    /\ UNCHANGED <<time, endTime, finishedFlag, checkVars>>
    /\ BaseSetTimeStepSize(timeStepSize)

SetFinished(flag) ==
    /\ finishedFlag' = flag
    /\ UNCHANGED <<time, endTime, timeStepSize, maxTimeStepSize,
                   userSetMaxTimeStepSize, checkVars>>

(* Mutant: < for <= in the while loop. *)
LastPeriodBefore(interval, offset) ==
    IF offset + interval >= time THEN offset
    ELSE offset + interval * ((time - offset - 1) \div interval)

(* The last period before or at the current time, unless the offset is    *)
(* less than one interval ahead: what the while loop leaves.              *)
LastPeriod(interval, offset) ==
    IF offset + interval > time THEN offset
    ELSE offset + interval * ((time - offset) \div interval)

SetPeriodicCheckPoint(interval, offset) ==
    /\ periodicCheckPoints' = TRUE
    /\ deltaPeriodicCheckPoint' = interval
    /\ lastPeriodicCheckPoint' = LastPeriod(interval, offset)
    /\ isCheckPoint' = (isCheckPoint \/ FuzzyEq(time, lastPeriodicCheckPoint', interval))
    /\ UNCHANGED <<time, endTime, userSetMaxTimeStepSize, finishedFlag, checkPoints>>
    /\ AlignTimeStepSize(timeStepSize)

DisablePeriodicCheckPoints ==
    /\ periodicCheckPoints' = FALSE
    /\ UNCHANGED <<baseVars, deltaPeriodicCheckPoint, lastPeriodicCheckPoint,
                   checkPoints, isCheckPoint>>

RemoveAllCheckPoints ==
    /\ periodicCheckPoints' = FALSE
    /\ checkPoints' = << >>
    /\ UNCHANGED <<baseVars, deltaPeriodicCheckPoint, lastPeriodicCheckPoint, isCheckPoint>>

(* Mutant: the order of the queue is not checked. *)
EnqueueUnordered(queue, t) == IF t < time THEN queue ELSE Append(queue, t)

(* setCheckPoint_: a point in the past, or before the last one, is refused. *)
Enqueue(queue, t) ==
    IF t < time \/ (queue # << >> /\ t < queue[Len(queue)]) THEN queue ELSE Append(queue, t)

(* setCheckPoint(t) and, for a range of two, setCheckPoint(first, last). *)
SetCheckPoint(t) ==
    /\ Len(checkPoints) < QueueBound
    /\ checkPoints' = Enqueue(checkPoints, t)
    /\ UNCHANGED <<time, endTime, userSetMaxTimeStepSize, finishedFlag,
                   periodicCheckPoints, deltaPeriodicCheckPoint,
                   lastPeriodicCheckPoint, isCheckPoint>>
    /\ AlignTimeStepSize(timeStepSize)

SetCheckPoints(t1, t2) ==
    /\ Len(checkPoints) + 1 < QueueBound
    /\ checkPoints' = Enqueue(Enqueue(checkPoints, t1), t2)
    /\ UNCHANGED <<time, endTime, userSetMaxTimeStepSize, finishedFlag,
                   periodicCheckPoints, deltaPeriodicCheckPoint,
                   lastPeriodicCheckPoint, isCheckPoint>>
    /\ AlignTimeStepSize(timeStepSize)

(* The calls that leave the step size aligned, and those that do not. *)
AligningCall ==
    \/ \E dt \in StepSizes : SetTimeStepSize(dt)
    \/ \E i \in Intervals, o \in Times : SetPeriodicCheckPoint(i, o)
    \/ \E t \in Times : SetCheckPoint(t)
    \/ \E t1, t2 \in Times : SetCheckPoints(t1, t2)

NeutralCall ==
    \/ \E m \in StepSizes : SetMaxTimeStepSize(m)
    \/ \E b \in BOOLEAN : SetFinished(b)
    \/ DisablePeriodicCheckPoints
    \/ RemoveAllCheckPoints

Next ==
    \/ AdvanceTimeStep
    \/ AligningCall
    \/ NeutralCall
    \/ \E t \in Times : SetTime(t)
    \/ \E t \in Times : SetEndTime(t)
    \/ \E start, end \in Times, dt \in StepSizes : start <= end /\ Reset(start, dt, end)

Spec == Init /\ [][Next]_vars
-----------------------------------------------------------------------------
(* Points in time at which a check point is due and not yet taken off, as   *)
(* the code counts them: of periodic ones the first is one interval after   *)
(* an offset that lies ahead (see LastPeriod), not the offset itself.       *)
Due == {checkPoints[i] : i \in 1..Len(checkPoints)}
       \cup (IF periodicCheckPoints THEN {NextPeriodic} ELSE {})

(* The queue is in ascending order, whatever the client calls. *)
QueueSorted ==
    \A i, j \in 1..Len(checkPoints) : i <= j => checkPoints[i] <= checkPoints[j]

(* timeStepSize() "so that we don't miss the beginning of the next episode *)
(* or cross the end of the simulation".                                    *)
StepIsAligned ==
    /\ time + timeStepSize <= endTime
    /\ checkPoints # << >> => time + timeStepSize <= Head(checkPoints)
    /\ periodicCheckPoints => time + timeStepSize <= NextPeriodic

(* A call that ends in the check point loop's setTimeStepSize repairs the  *)
(* step after any jump of the time or of the end, as long as the jump has  *)
(* left no check point and not the end behind.                             *)
CallRepairsStep ==
    [][AligningCall /\ time <= endTime /\ (\A c \in Due' : time <= c) => StepIsAligned']_vars
=============================================================================
