--------------------------- MODULE TimeLoopProofs ---------------------------
(***************************************************************************)
(* The time loop used as documented keeps its step aligned to the end and  *)
(* to every check point, and however it is used the queue stays sorted and *)
(* the next aligning call repairs the step: for every clock, every set of  *)
(* step sizes and intervals, every queue length and every tolerance.  When *)
(* the tolerance stays below a tick, every check point is met exactly.     *)
(***************************************************************************)
EXTENDS TimeLoopClient, TLAPS

(* MaxStep is a step size that does not cross the end. *)
LEMMA MaxStepBounds ==
    ASSUME NEW t \in Int, NEW end \in Int, NEW userMax \in Nat, NEW flag \in BOOLEAN,
           t <= end
    PROVE  /\ MaxStep(t, end, userMax, flag) \in Nat
           /\ t + MaxStep(t, end, userMax, flag) <= end
BY DEF MaxStep, IsFinished, AtMost, AtLeast

(* MaxStep is a step size even when the time is past the end. *)
LEMMA MaxStepType ==
    ASSUME NEW t \in Int, NEW end \in Int, NEW userMax \in Nat, NEW flag \in BOOLEAN
    PROVE  MaxStep(t, end, userMax, flag) \in Nat
BY DEF MaxStep, IsFinished, AtMost, AtLeast

(* The distance to the next check point, when none is behind. *)
LEMMA StepToCheckPointBounds ==
    ASSUME TimeLoopAssumption,
           NEW t \in Int, NEW periodic \in BOOLEAN, NEW next \in Int,
           NEW queue \in Seq(Int),
           periodic => t <= next,
           queue # << >> => t <= Head(queue)
    PROVE  LET step == StepToCheckPoint(t, periodic, next, queue)
           IN  /\ step \in Nat
               /\ periodic => t + step <= next
               /\ queue # << >> => t + step <= Head(queue)
<1> queue # << >> => Head(queue) \in Int
  OBVIOUS
<1> QED
  BY DEF StepToCheckPoint, AtMost, TimeLoopAssumption

(* The step that AlignTimeStepSize computes, when no check point is behind. *)
LEMMA AlignedStepBounds ==
    ASSUME TimeLoopAssumption,
           NEW dt \in Int, NEW t \in Int, NEW end \in Int, NEW userMax \in Nat,
           NEW flag \in BOOLEAN, NEW periodic \in BOOLEAN, NEW next \in Int,
           NEW queue \in Seq(Int),
           t <= end,
           periodic => t <= next,
           queue # << >> => t <= Head(queue)
    PROVE  LET step == AtMost(AtMost(dt, StepToCheckPoint(t, periodic, next, queue)),
                              MaxStep(t, end, userMax, flag))
           IN  /\ step \in Int
               /\ dt >= 0 => step >= 0
               /\ t + step <= end
               /\ queue # << >> => t + step <= Head(queue)
               /\ periodic => t + step <= next
<1>1. PICK toCheck \in Nat :
        /\ toCheck = StepToCheckPoint(t, periodic, next, queue)
        /\ periodic => t + toCheck <= next
        /\ queue # << >> => t + toCheck <= Head(queue)
  BY StepToCheckPointBounds
<1>2. PICK toEnd \in Nat : toEnd = MaxStep(t, end, userMax, flag) /\ t + toEnd <= end
  BY MaxStepBounds
<1>3. PICK step \in Int : step = AtMost(AtMost(dt, toCheck), toEnd)
  BY DEF AtMost
<1>4. step <= toCheck /\ step <= toEnd
  BY <1>3 DEF AtMost
<1>5. t + step <= end
  BY <1>2, <1>4
<1>6. ASSUME queue # << >>
      PROVE  t + step <= Head(queue)
  <2>1. t + toCheck <= Head(queue) /\ Head(queue) \in Int
    BY <1>1, <1>6
  <2> QED
    BY <1>4, <2>1
<1>7. ASSUME periodic
      PROVE  t + step <= next
  <2>1. t + toCheck <= next
    BY <1>1, <1>7, Zenon
  <2> QED
    BY <1>4, <2>1
<1>8. ASSUME dt >= 0
      PROVE  step >= 0
  BY <1>3, <1>8 DEF AtMost
<1>9. step = AtMost(AtMost(dt, StepToCheckPoint(t, periodic, next, queue)),
                    MaxStep(t, end, userMax, flag))
  BY <1>1, <1>2, <1>3, Zenon
<1> QED
  BY <1>5, <1>6, <1>7, <1>8, <1>9, Zenon

(* What AlignTimeStepSize leaves behind when no check point is behind. *)
LEMMA AlignLemma ==
    ASSUME TimeLoopAssumption,
           NEW dt \in Int, AlignTimeStepSize(dt),
           time' \in Int, endTime' \in Int, userSetMaxTimeStepSize' \in Nat,
           finishedFlag' \in BOOLEAN, periodicCheckPoints' \in BOOLEAN,
           NextPeriodic' \in Int, checkPoints' \in Seq(Int),
           time' <= endTime',
           periodicCheckPoints' => time' <= NextPeriodic',
           checkPoints' # << >> => time' <= Head(checkPoints')
    PROVE  /\ timeStepSize' \in Int /\ maxTimeStepSize' \in Nat
           /\ dt >= 0 => timeStepSize' >= 0
           /\ StepIsAligned'
<1>1. maxTimeStepSize' = MaxStep(time', endTime', userSetMaxTimeStepSize', finishedFlag')
  BY DEF AlignTimeStepSize, BaseSetTimeStepSize
<1>2. timeStepSize' = AtMost(AtMost(dt, StepToCheckPoint(time', periodicCheckPoints',
                                                         NextPeriodic', checkPoints')),
                             maxTimeStepSize')
  BY DEF AlignTimeStepSize, BaseSetTimeStepSize
<1>3. maxTimeStepSize' \in Nat
  BY <1>1, MaxStepType
<1>4. /\ timeStepSize' \in Int
      /\ dt >= 0 => timeStepSize' >= 0
      /\ time' + timeStepSize' <= endTime'
      /\ checkPoints' # << >> => time' + timeStepSize' <= Head(checkPoints')
      /\ periodicCheckPoints' => time' + timeStepSize' <= NextPeriodic'
  BY <1>1, <1>2, AlignedStepBounds
<1> QED
  BY <1>3, <1>4 DEF StepIsAligned

(* A point refused or appended: the queue stays in ascending order. *)
LEMMA EnqueueKeepsOrder ==
    ASSUME NEW queue \in Seq(Int), NEW t \in Int, time \in Int,
           \A i, j \in 1..Len(queue) : i <= j => queue[i] <= queue[j]
    PROVE  LET q == Enqueue(queue, t)
           IN  /\ q \in Seq(Int)
               /\ \A i, j \in 1..Len(q) : i <= j => q[i] <= q[j]
<1>1. CASE t < time \/ (queue # << >> /\ t < queue[Len(queue)])
  BY <1>1 DEF Enqueue
<1>2. CASE ~(t < time \/ (queue # << >> /\ t < queue[Len(queue)]))
  <2>1. PICK q : /\ q = Append(queue, t)
                 /\ q \in Seq(Int) /\ Len(q) = Len(queue) + 1
                 /\ \A i \in 1..Len(queue) : q[i] = queue[i]
                 /\ q[Len(queue) + 1] = t
    <3>1. /\ Append(queue, t) \in Seq(Int) /\ Len(Append(queue, t)) = Len(queue) + 1
          /\ \A i \in 1..Len(queue) : Append(queue, t)[i] = queue[i]
          /\ Append(queue, t)[Len(queue) + 1] = t
      OBVIOUS
    <3> QED BY <3>1, Zenon
  <2>2. Enqueue(queue, t) = q
    BY <1>2, <2>1 DEF Enqueue
  <2>3. Len(queue) \in Nat /\ \A i \in 1..Len(queue) : queue[i] \in Int
    OBVIOUS
  <2>4. \A i \in 1..Len(queue) : queue[i] <= t
    <3> TAKE i \in 1..Len(queue)
    <3>1. queue # << >> /\ Len(queue) \in 1..Len(queue) /\ queue[Len(queue)] <= t
      BY <1>2
    <3> QED BY <2>3, <3>1
  <2>5. ASSUME NEW i \in 1..Len(q), NEW j \in 1..Len(q), i <= j
        PROVE  q[i] <= q[j]
    <3>1. CASE j \in 1..Len(queue)
      <4>1. i \in 1..Len(queue)
        BY <2>1, <2>3, <2>5, <3>1
      <4> QED BY <2>1, <2>5, <3>1, <4>1
    <3>2. CASE j = Len(queue) + 1 /\ i \in 1..Len(queue)
      BY <2>1, <2>4, <3>2
    <3>3. CASE j = Len(queue) + 1 /\ i = Len(queue) + 1
      BY <2>1, <3>3
    <3> QED BY <2>1, <2>3, <2>5, <3>1, <3>2, <3>3
  <2> QED BY <2>1, <2>2, <2>5
<1> QED BY <1>1, <1>2

(* Nor does a point in the past enter the queue. *)
LEMMA EnqueueLemma ==
    ASSUME NEW queue \in Seq(Int), NEW t \in Int, time \in Int,
           \A i, j \in 1..Len(queue) : i <= j => queue[i] <= queue[j],
           \A i \in 1..Len(queue) : time <= queue[i]
    PROVE  LET q == Enqueue(queue, t)
           IN  /\ q \in Seq(Int)
               /\ \A i, j \in 1..Len(q) : i <= j => q[i] <= q[j]
               /\ \A i \in 1..Len(q) : time <= q[i]
<1>1. CASE Enqueue(queue, t) = queue
  BY <1>1
<1>2. CASE Enqueue(queue, t) = Append(queue, t) /\ time <= t
  <2>1. \A i \in 1..Len(Append(queue, t)) : time <= Append(queue, t)[i]
    BY <1>2
  <2> QED BY <1>2, <2>1, EnqueueKeepsOrder
<1>3. Enqueue(queue, t) = queue \/ (Enqueue(queue, t) = Append(queue, t) /\ time <= t)
  BY DEF Enqueue
<1> QED BY <1>1, <1>2, <1>3

(* What is left of a sorted queue is sorted. *)
LEMMA TailKeepsOrder ==
    ASSUME NEW queue \in Seq(Int), queue # << >>,
           \A i, j \in 1..Len(queue) : i <= j => queue[i] <= queue[j]
    PROVE  /\ Tail(queue) \in Seq(Int) /\ Len(Tail(queue)) = Len(queue) - 1
           /\ \A i \in 1..Len(Tail(queue)) : /\ i + 1 \in 1..Len(queue)
                                            /\ Tail(queue)[i] = queue[i + 1]
           /\ \A i, j \in 1..Len(Tail(queue)) : i <= j => Tail(queue)[i] <= Tail(queue)[j]
<1>1. PICK q : /\ q = Tail(queue) /\ q \in Seq(Int) /\ Len(q) = Len(queue) - 1
               /\ Len(queue) \in Nat \ {0}
               /\ \A i \in 1..Len(q) : q[i] = queue[i + 1]
  <2>1. /\ Tail(queue) \in Seq(Int) /\ Len(Tail(queue)) = Len(queue) - 1
        /\ Len(queue) \in Nat \ {0}
        /\ \A i \in 1..Len(Tail(queue)) : Tail(queue)[i] = queue[i + 1]
    OBVIOUS
  <2> QED BY <2>1, Zenon
<1>2. \A i \in 1..Len(q) : i + 1 \in 1..Len(queue)
  BY <1>1
<1>3. ASSUME NEW i \in 1..Len(q), NEW j \in 1..Len(q), i <= j
      PROVE  q[i] <= q[j]
  <2>1. /\ i + 1 \in 1..Len(queue) /\ j + 1 \in 1..Len(queue)
        /\ i + 1 <= j + 1
    BY <1>1, <1>2, <1>3
  <2> QED BY <1>1, <2>1
<1> QED BY <1>1, <1>2, <1>3

(* The tolerance never makes a point in time differ from itself. *)
LEMMA FuzzyEqReflexive ==
    ASSUME TimeLoopAssumption, NEW a \in Int, NEW d \in Nat
    PROVE  FuzzyEq(a, a, d)
<1>1. PICK m \in Nat : m = AtLeast(Abs(a), Abs(a))
  BY DEF AtLeast, Abs
<1>2. Abs(a - a) = 0
  BY DEF AtLeast, Abs
<1>3. EqScale \in Nat /\ 0 * EqScale = 0
  BY DEF TimeLoopAssumption
<1>4. d * m >= 0
  OBVIOUS
<1> QED
  BY <1>1, <1>2, <1>3, <1>4 DEF FuzzyEq

(* Advancing with an aligned step arrives at or before the next check point. *)
LEMMA AdvanceLemma ==
    ASSUME TimeLoopAssumption, KeptInv, ~mustAlign, AdvanceTimeStep
    PROVE  /\ time' \in Int /\ time' <= endTime'
           /\ lastPeriodicCheckPoint' \in Int
           /\ periodicCheckPoints' => time' < NextPeriodic'
           /\ checkPoints' \in Seq(Int)
           /\ \A i, j \in 1..Len(checkPoints') : i <= j => checkPoints'[i] <= checkPoints'[j]
           /\ \A i \in 1..Len(checkPoints') : time' <= checkPoints'[i]
           /\ CutStep \in Nat
           /\ isCheckPoint' \in BOOLEAN
<1> USE DEF KeptInv, ClientTypeOK, TypeOK, ClientStepAligned
<1>1. time' \in Int /\ time' = time + timeStepSize /\ endTime' = endTime
  BY DEF AdvanceTimeStep
<1>2. /\ timeStepSize \in Nat /\ time + timeStepSize <= endTime
      /\ checkPoints # << >> => time + timeStepSize <= Head(checkPoints)
      /\ periodicCheckPoints => time + timeStepSize <= NextPeriodic
  BY DEF StepIsAligned
<1>3. CutStep \in Nat
  <2>1. MaxStep(time + timeStepSize, endTime, userSetMaxTimeStepSize, finishedFlag) \in Nat
    BY <1>1, MaxStepType
  <2> QED BY <1>2, <2>1 DEF CutStep, AtMost
<1>4. /\ NextPeriodic \in Int
      /\ periodicCheckPoints' = periodicCheckPoints
      /\ deltaPeriodicCheckPoint' = deltaPeriodicCheckPoint
  BY DEF AdvanceTimeStep, NextPeriodic
<1>5. lastPeriodicCheckPoint' \in Int
  BY <1>4 DEF AdvanceTimeStep
<1>6. ASSUME periodicCheckPoints'
      PROVE  time' < NextPeriodic'
  <2>1. periodicCheckPoints /\ deltaPeriodicCheckPoint > 0
    BY <1>4, <1>6
  <2>2. CASE AtPeriodic
    <3>1. lastPeriodicCheckPoint' = NextPeriodic
      BY <2>2 DEF AdvanceTimeStep
    <3>2. NextPeriodic' = NextPeriodic + deltaPeriodicCheckPoint
      BY <1>4, <3>1 DEF NextPeriodic
    <3> QED BY <1>1, <1>2, <1>4, <2>1, <3>2
  <2>3. CASE ~AtPeriodic
    <3>1. NextPeriodic' = NextPeriodic
      BY <1>4, <2>3 DEF AdvanceTimeStep, NextPeriodic
    <3>2. time + timeStepSize # NextPeriodic
      BY <1>1, <1>3, <2>1, <2>3, FuzzyEqReflexive DEF AtPeriodic
    <3> QED BY <1>1, <1>2, <1>4, <2>1, <3>1, <3>2
  <2> QED BY <2>2, <2>3
<1>7. \A i \in 1..Len(checkPoints) : time' <= checkPoints[i]
  <2> SUFFICES ASSUME NEW i \in 1..Len(checkPoints)
               PROVE  time' <= checkPoints[i]
    OBVIOUS
  <2>1. /\ checkPoints # << >> /\ 1 \in 1..Len(checkPoints) /\ 1 <= i
        /\ Head(checkPoints) = checkPoints[1]
        /\ checkPoints[1] \in Int /\ checkPoints[i] \in Int
    OBVIOUS
  <2>2. checkPoints[1] <= checkPoints[i]
    BY <2>1 DEF QueueSorted
  <2> QED BY <1>1, <1>2, <2>1, <2>2
<1>8. /\ checkPoints' \in Seq(Int)
      /\ \A i, j \in 1..Len(checkPoints') : i <= j => checkPoints'[i] <= checkPoints'[j]
      /\ \A i \in 1..Len(checkPoints') : time' <= checkPoints'[i]
  <2>1. CASE checkPoints' = checkPoints
    BY <1>7, <2>1 DEF QueueSorted
  <2>2. CASE checkPoints # << >> /\ checkPoints' = Tail(checkPoints)
    <3>1. /\ checkPoints' \in Seq(Int)
          /\ \A i \in 1..Len(checkPoints') : /\ i + 1 \in 1..Len(checkPoints)
                                            /\ checkPoints'[i] = checkPoints[i + 1]
          /\ \A i, j \in 1..Len(checkPoints') : i <= j => checkPoints'[i] <= checkPoints'[j]
      BY <2>2, TailKeepsOrder DEF QueueSorted
    <3> QED BY <1>7, <3>1
  <2>3. \/ checkPoints' = checkPoints
        \/ checkPoints # << >> /\ checkPoints' = Tail(checkPoints)
    BY DEF AdvanceTimeStep, QueueAfter, AtManual
  <2> QED BY <2>1, <2>2, <2>3
<1>9. isCheckPoint' \in BOOLEAN
  BY DEF AdvanceTimeStep
<1>10. time' <= endTime'
  BY <1>1, <1>2
<1> QED
  BY <1>1, <1>3, <1>5, <1>6, <1>8, <1>9, <1>10

(* The constructors leave an aligned step. *)
LEMMA ClientInitInv == ASSUME TimeLoopAssumption, ClientInit PROVE KeptInv
<1>1. /\ time \in Int /\ endTime \in Int /\ time <= endTime
      /\ MaxScalar \in Nat /\ checkPoints = << >> /\ periodicCheckPoints = FALSE
  BY DEF ClientInit, Init, TimeLoopAssumption
<1>2. maxTimeStepSize \in Nat /\ time + maxTimeStepSize <= endTime
  BY <1>1, MaxStepBounds DEF ClientInit, Init
<1>3. PICK dt \in Nat : timeStepSize = AtMost(dt, maxTimeStepSize)
  BY DEF ClientInit, Init, TimeLoopAssumption
<1>4. timeStepSize \in Nat /\ time + timeStepSize <= endTime
  BY <1>1, <1>2, <1>3 DEF AtMost
<1>5. ClientTypeOK
  <2>1. /\ userSetMaxTimeStepSize \in Nat /\ deltaPeriodicCheckPoint \in Nat
        /\ lastPeriodicCheckPoint \in Int /\ timeStepSize \in Int
    <3>1. /\ userSetMaxTimeStepSize = MaxScalar /\ deltaPeriodicCheckPoint = 0
          /\ lastPeriodicCheckPoint = time
      BY DEF ClientInit, Init
    <3> QED BY <1>1, <1>4, <3>1
  <2>4. checkPoints \in Seq(Int)
    BY <1>1
  <2>2. finishedFlag \in BOOLEAN
    BY DEF ClientInit, Init
  <2>3. periodicCheckPoints \in BOOLEAN /\ isCheckPoint \in BOOLEAN /\ mustAlign \in BOOLEAN
    BY DEF ClientInit, Init
  <2> QED
    BY <1>1, <1>2, <2>1, <2>2, <2>3, <2>4, Zenon DEF ClientTypeOK, TypeOK
<1>6. QueueSorted /\ NoneLeftBehind
  BY <1>1 DEF QueueSorted, NoneLeftBehind
<1>7. ClientStepAligned
  BY <1>1, <1>4 DEF ClientStepAligned, StepIsAligned
<1> QED
  BY <1>1, <1>5, <1>6, <1>7 DEF KeptInv

(* The invariant after a call that ends in AlignTimeStepSize, whatever it  *)
(* did to the check points before.                                         *)
LEMMA AlignRestores ==
    ASSUME TimeLoopAssumption, NEW dt \in Nat, AlignTimeStepSize(dt),
           time' \in Int, endTime' \in Int, userSetMaxTimeStepSize' \in Nat,
           finishedFlag' \in BOOLEAN, periodicCheckPoints' \in BOOLEAN,
           deltaPeriodicCheckPoint' \in Nat, lastPeriodicCheckPoint' \in Int,
           isCheckPoint' \in BOOLEAN, mustAlign' \in BOOLEAN,
           time' <= endTime',
           periodicCheckPoints' => deltaPeriodicCheckPoint' > 0,
           periodicCheckPoints' => time' < NextPeriodic',
           checkPoints' \in Seq(Int),
           \A i, j \in 1..Len(checkPoints') : i <= j => checkPoints'[i] <= checkPoints'[j],
           \A i \in 1..Len(checkPoints') : time' <= checkPoints'[i]
    PROVE  KeptInv'
<1>1. NextPeriodic' \in Int
  BY DEF NextPeriodic
<1>2. checkPoints' # << >> => time' <= Head(checkPoints')
  <2> SUFFICES ASSUME checkPoints' # << >>
               PROVE  time' <= Head(checkPoints')
    OBVIOUS
  <2>1. 1 \in 1..Len(checkPoints') /\ Head(checkPoints') = checkPoints'[1]
    OBVIOUS
  <2> QED BY <2>1
<1>3. timeStepSize' \in Nat /\ maxTimeStepSize' \in Nat /\ StepIsAligned'
  BY <1>1, <1>2, AlignLemma
<1>4. ClientTypeOK'
  BY <1>3 DEF ClientTypeOK, TypeOK
<1>5. QueueSorted' /\ NoneLeftBehind' /\ ClientStepAligned'
  BY <1>3 DEF QueueSorted, NoneLeftBehind, ClientStepAligned
<1> QED
  BY <1>4, <1>5 DEF KeptInv

(* The while loop of setPeriodicCheckPoint ends with the next check point  *)
(* after the current time.                                                 *)
LEMMA LastPeriodBounds ==
    ASSUME NEW i \in Nat \ {0}, NEW o \in Int, time \in Int
    PROVE  LastPeriod(i, o) \in Int /\ time < LastPeriod(i, o) + i
<1>1. PICK d \in Int : d = (time - o) \div i /\ i * d <= time - o /\ time - o < i * (d + 1)
  OBVIOUS
<1>2. i * (d + 1) = i * d + i
  OBVIOUS
<1>3. PICK p \in Int : p = i * d
  OBVIOUS
<1> QED
  BY <1>1, <1>2, <1>3 DEF LastPeriod

(* The calls that align, from any state of the invariant. *)
LEMMA ClientAlignInv ==
    ASSUME TimeLoopAssumption, KeptInv, ClientAlign PROVE KeptInv'
<1> USE DEF KeptInv, ClientTypeOK, TypeOK
<1>1. /\ \A i, j \in 1..Len(checkPoints) : i <= j => checkPoints[i] <= checkPoints[j]
      /\ \A i \in 1..Len(checkPoints) : time <= checkPoints[i]
      /\ timeStepSize \in Nat
      /\ mustAlign' \in BOOLEAN
  <2>1. timeStepSize \in Nat
    BY DEF ClientStepAligned
  <2>2. mustAlign' \in BOOLEAN
    BY DEF ClientAlign
  <2> QED
    BY <2>1, <2>2, Zenon DEF QueueSorted, NoneLeftBehind
<1>2. periodicCheckPoints => time < lastPeriodicCheckPoint + deltaPeriodicCheckPoint
  BY DEF NoneLeftBehind, NextPeriodic
<1>3. CASE \E dt \in StepSizes : SetTimeStepSize(dt)
  <2>1. PICK dt \in Nat : SetTimeStepSize(dt)
    BY <1>3 DEF TimeLoopAssumption
  <2>2. /\ AlignTimeStepSize(dt)
        /\ UNCHANGED <<time, endTime, userSetMaxTimeStepSize, finishedFlag, checkVars>>
    BY <2>1 DEF SetTimeStepSize
  <2> QED
    BY <1>1, <1>2, <2>2, AlignRestores DEF checkVars, NextPeriodic
<1>4. CASE \E i \in Intervals, o \in Times : SetPeriodicCheckPoint(i, o)
  <2>1. PICK i \in Nat \ {0}, o \in Int : SetPeriodicCheckPoint(i, o)
    BY <1>4 DEF TimeLoopAssumption
  <2>2. LastPeriod(i, o) \in Int /\ time < LastPeriod(i, o) + i
    BY LastPeriodBounds
  <2>3. /\ AlignTimeStepSize(timeStepSize)
        /\ UNCHANGED <<time, endTime, userSetMaxTimeStepSize, finishedFlag, checkPoints>>
        /\ deltaPeriodicCheckPoint' = i /\ lastPeriodicCheckPoint' = LastPeriod(i, o)
    BY <2>1 DEF SetPeriodicCheckPoint
  <2>4. periodicCheckPoints' \in BOOLEAN /\ isCheckPoint' \in BOOLEAN
    BY <2>1 DEF SetPeriodicCheckPoint
  <2>5. time' < NextPeriodic'
    BY <2>2, <2>3 DEF NextPeriodic
  <2> QED
    BY <1>1, <2>2, <2>3, <2>4, <2>5, AlignRestores
<1>5. ASSUME AlignTimeStepSize(timeStepSize),
             UNCHANGED <<time, endTime, userSetMaxTimeStepSize, finishedFlag,
                         periodicCheckPoints, deltaPeriodicCheckPoint,
                         lastPeriodicCheckPoint, isCheckPoint>>,
             NEW q \in Seq(Int), checkPoints' = q,
             \A i, j \in 1..Len(q) : i <= j => q[i] <= q[j],
             \A i \in 1..Len(q) : time <= q[i]
      PROVE  KeptInv'
  BY <1>1, <1>2, <1>5, AlignRestores DEF NextPeriodic
<1>6. CASE \E t \in Times : SetCheckPoint(t)
  <2>1. PICK t \in Int : SetCheckPoint(t)
    BY <1>6 DEF TimeLoopAssumption
  <2> DEFINE q == Enqueue(checkPoints, t)
  <2>2. /\ q \in Seq(Int)
        /\ \A i, j \in 1..Len(q) : i <= j => q[i] <= q[j]
        /\ \A i \in 1..Len(q) : time <= q[i]
    BY <1>1, EnqueueLemma
  <2> QED
    BY <1>5, <2>1, <2>2 DEF SetCheckPoint
<1>7. CASE \E t1, t2 \in Times : SetCheckPoints(t1, t2)
  <2>1. PICK t1 \in Int, t2 \in Int : SetCheckPoints(t1, t2)
    BY <1>7 DEF TimeLoopAssumption
  <2> DEFINE p == Enqueue(checkPoints, t1)
             q == Enqueue(p, t2)
  <2>2. /\ p \in Seq(Int)
        /\ \A i, j \in 1..Len(p) : i <= j => p[i] <= p[j]
        /\ \A i \in 1..Len(p) : time <= p[i]
    BY <1>1, EnqueueLemma
  <2>3. /\ q \in Seq(Int)
        /\ \A i, j \in 1..Len(q) : i <= j => q[i] <= q[j]
        /\ \A i \in 1..Len(q) : time <= q[i]
    <3> HIDE DEF p
    <3> QED BY <2>2, EnqueueLemma
  <2> QED
    BY <1>5, <2>1, <2>3 DEF SetCheckPoints
<1> QED
  BY <1>3, <1>4, <1>6, <1>7 DEF ClientAlign, AligningCall

(* A step that shrinks stays below every bound it respected. *)
LEMMA ShorterStep ==
    ASSUME NEW t \in Int, NEW s \in Nat, NEW r \in Nat, NEW bound \in Int,
           t + s <= bound, r <= s
    PROVE  t + r <= bound
OBVIOUS

(* The calls that touch neither the time, the end nor the next check point. *)
LEMMA ClientNeutralInv ==
    ASSUME TimeLoopAssumption, KeptInv, ClientNeutral PROVE KeptInv'
<1> USE DEF KeptInv, ClientTypeOK, TypeOK, ClientStepAligned, StepIsAligned,
            NoneLeftBehind, QueueSorted, NextPeriodic
<1>1. CASE \E m \in StepSizes : SetMaxTimeStepSize(m)
  <2>1. PICK m \in Nat : SetMaxTimeStepSize(m)
    BY <1>1 DEF TimeLoopAssumption
  <2>2. /\ userSetMaxTimeStepSize' = m
        /\ UNCHANGED <<time, endTime, finishedFlag, checkVars, mustAlign>>
    BY <2>1 DEF SetMaxTimeStepSize, ClientNeutral
  <2>3. maxTimeStepSize' \in Nat
    BY <2>1, <2>2, MaxStepType DEF SetMaxTimeStepSize, BaseSetTimeStepSize
  <2>4. timeStepSize' \in Nat /\ timeStepSize' <= timeStepSize
    BY <2>1, <2>3 DEF SetMaxTimeStepSize, BaseSetTimeStepSize, AtMost
  <2>5. ClientTypeOK'
    BY <2>2, <2>3, <2>4 DEF checkVars
  <2>6. checkPoints # << >> => Head(checkPoints) \in Int
    OBVIOUS
  <2>7. ASSUME NEW bound \in Int, time + timeStepSize <= bound
        PROVE  time' + timeStepSize' <= bound
    <3> HIDE DEF KeptInv, ClientStepAligned, StepIsAligned
    <3>1. time' = time /\ time \in Int /\ timeStepSize \in Nat
      BY <2>2 DEF KeptInv, ClientStepAligned
    <3> QED BY <2>4, <2>7, <3>1, ShorterStep
  <2>8. ASSUME ~mustAlign'
        PROVE  StepIsAligned'
    <3>1. /\ time + timeStepSize <= endTime
          /\ checkPoints # << >> => time + timeStepSize <= Head(checkPoints)
          /\ periodicCheckPoints => time + timeStepSize <= NextPeriodic
          /\ endTime \in Int /\ NextPeriodic \in Int
      BY <2>2, <2>8
    <3>2. UNCHANGED <<endTime, checkPoints, periodicCheckPoints, NextPeriodic>>
      BY <2>2 DEF checkVars
    <3> HIDE DEF NextPeriodic
    <3> QED BY <2>6, <2>7, <3>1, <3>2
  <2>9. ClientStepAligned'
    BY <2>4, <2>8
  <2> QED
    BY <2>2, <2>5, <2>9 DEF checkVars
<1>2. CASE \E b \in BOOLEAN : SetFinished(b)
  BY <1>2 DEF SetFinished, checkVars, ClientNeutral
<1>3. CASE DisablePeriodicCheckPoints
  BY <1>3 DEF DisablePeriodicCheckPoints, baseVars, ClientNeutral
<1>4. CASE RemoveAllCheckPoints
  <2>1. /\ UNCHANGED <<baseVars, deltaPeriodicCheckPoint, lastPeriodicCheckPoint,
                       isCheckPoint, mustAlign>>
        /\ checkPoints' = << >>
        /\ periodicCheckPoints' = FALSE
    BY <1>4 DEF RemoveAllCheckPoints, ClientNeutral
  <2>2. checkPoints' \in Seq(Int) /\ Len(checkPoints') = 0
    BY <2>1
  <2>3. ClientTypeOK'
    BY <2>1, <2>2 DEF baseVars
  <2>4. QueueSorted' /\ NoneLeftBehind'
    BY <2>1, <2>2
  <2>5. ClientStepAligned'
    BY <2>1 DEF baseVars
  <2> QED
    BY <2>1, <2>3, <2>4, <2>5 DEF baseVars
<1> QED
  BY <1>1, <1>2, <1>3, <1>4 DEF ClientNeutral, NeutralCall

(* Moving the time, moving the end, resetting: the step may be stale, but   *)
(* nothing is left behind.                                                  *)
LEMMA ClientMoveInv ==
    ASSUME TimeLoopAssumption, KeptInv, ClientMove PROVE KeptInv'
<1> USE DEF KeptInv, ClientTypeOK, TypeOK, ClientStepAligned, QueueSorted
<1>1. mustAlign' = TRUE
  BY DEF ClientMove
<1>2. CASE \E t \in Times : ClientSetTime(t)
  <2>1. PICK t \in Int : ClientSetTime(t)
    BY <1>2 DEF TimeLoopAssumption
  <2>2. /\ \A i \in 1..Len(checkPoints) : t < checkPoints[i]
        /\ periodicCheckPoints => t < NextPeriodic
        /\ t <= endTime
    BY <2>1 DEF ClientSetTime, Due
  <2>3. /\ time' = t
        /\ UNCHANGED <<endTime, timeStepSize, maxTimeStepSize, userSetMaxTimeStepSize,
                       finishedFlag, checkVars>>
    BY <2>1 DEF ClientSetTime, SetTime
  <2>4. NoneLeftBehind'
    BY <2>2, <2>3 DEF NoneLeftBehind, NextPeriodic, checkVars
  <2> QED
    BY <1>1, <2>2, <2>3, <2>4 DEF checkVars
<1>3. CASE \E t \in Times : ClientSetEndTime(t)
  <2>1. PICK t \in Int : ClientSetEndTime(t)
    BY <1>3 DEF TimeLoopAssumption
  <2> QED
    BY <1>1, <2>1 DEF ClientSetEndTime, SetEndTime, checkVars, NoneLeftBehind, NextPeriodic
<1>4. CASE \E start, end \in Times, dt \in StepSizes : ClientReset(start, dt, end)
  <2>1. PICK start \in Int, end \in Int, dt \in Nat : ClientReset(start, dt, end)
    BY <1>4 DEF TimeLoopAssumption
  <2>2. /\ time' = start /\ endTime' = end /\ start <= end
        /\ userSetMaxTimeStepSize' \in Nat /\ finishedFlag' \in BOOLEAN
        /\ UNCHANGED checkVars
        /\ ~periodicCheckPoints /\ checkPoints = << >>
    BY <2>1 DEF ClientReset, Reset, TimeLoopAssumption
  <2>3. maxTimeStepSize' \in Nat
    BY <2>1, <2>2, MaxStepType DEF ClientReset, Reset, BaseSetTimeStepSize
  <2>4. timeStepSize' \in Nat
    BY <2>1, <2>3 DEF ClientReset, Reset, BaseSetTimeStepSize, AtMost
  <2>5. NoneLeftBehind'
    BY <2>2 DEF NoneLeftBehind, checkVars
  <2> QED
    BY <1>1, <2>2, <2>3, <2>4, <2>5 DEF checkVars
<1> QED
  BY <1>2, <1>3, <1>4 DEF ClientMove

(* Advancing with an aligned step. *)
LEMMA ClientAdvanceInv ==
    ASSUME TimeLoopAssumption, KeptInv, ClientAdvance PROVE KeptInv'
<1>1. ~mustAlign /\ AdvanceTimeStep /\ mustAlign' = mustAlign
  BY DEF ClientAdvance
<1>2. /\ time' \in Int /\ time' <= endTime'
      /\ lastPeriodicCheckPoint' \in Int
      /\ periodicCheckPoints' => time' < NextPeriodic'
      /\ checkPoints' \in Seq(Int)
      /\ \A i, j \in 1..Len(checkPoints') : i <= j => checkPoints'[i] <= checkPoints'[j]
      /\ \A i \in 1..Len(checkPoints') : time' <= checkPoints'[i]
      /\ CutStep \in Nat
      /\ isCheckPoint' \in BOOLEAN
  BY <1>1, AdvanceLemma
<1>3. /\ AlignTimeStepSize(CutStep)
      /\ UNCHANGED <<endTime, userSetMaxTimeStepSize, finishedFlag,
                     periodicCheckPoints, deltaPeriodicCheckPoint>>
  BY <1>1 DEF AdvanceTimeStep
<1>4. /\ endTime' \in Int /\ userSetMaxTimeStepSize' \in Nat
      /\ finishedFlag' \in BOOLEAN /\ periodicCheckPoints' \in BOOLEAN
      /\ deltaPeriodicCheckPoint' \in Nat /\ mustAlign' \in BOOLEAN
      /\ periodicCheckPoints' => deltaPeriodicCheckPoint' > 0
  BY <1>1, <1>3 DEF KeptInv, ClientTypeOK, TypeOK
<1> QED
  BY <1>2, <1>3, <1>4, AlignRestores

-----------------------------------------------------------------------------
(* From here on the client calls what it likes. *)

(* The distance to a check point that may lie behind. *)
LEMMA StepToCheckPointType ==
    ASSUME TimeLoopAssumption,
           NEW t \in Int, NEW periodic \in BOOLEAN, NEW next \in Int,
           NEW queue \in Seq(Int)
    PROVE  StepToCheckPoint(t, periodic, next, queue) \in Int
<1>1. queue # << >> => Head(queue) \in Int
  OBVIOUS
<1> QED
  BY <1>1 DEF StepToCheckPoint, AtMost, TimeLoopAssumption

(* Both versions of setTimeStepSize compute a size, a negative one maybe. *)
LEMMA BaseSizeType ==
    ASSUME NEW dt \in Int, BaseSetTimeStepSize(dt),
           time' \in Int, endTime' \in Int, userSetMaxTimeStepSize' \in Nat,
           finishedFlag' \in BOOLEAN
    PROVE  timeStepSize' \in Int /\ maxTimeStepSize' \in Nat
<1>1. maxTimeStepSize' \in Nat
  BY MaxStepType DEF BaseSetTimeStepSize
<1> QED
  BY <1>1 DEF BaseSetTimeStepSize, AtMost

(* The same for the derived one, whichever check point lies behind. *)
LEMMA AlignedSizeType ==
    ASSUME TimeLoopAssumption, NEW dt \in Int, AlignTimeStepSize(dt),
           time' \in Int, endTime' \in Int, userSetMaxTimeStepSize' \in Nat,
           finishedFlag' \in BOOLEAN, periodicCheckPoints' \in BOOLEAN,
           deltaPeriodicCheckPoint' \in Nat, lastPeriodicCheckPoint' \in Int,
           checkPoints' \in Seq(Int)
    PROVE  timeStepSize' \in Int /\ maxTimeStepSize' \in Nat
<1>1. PICK toCheck \in Int :
        toCheck = StepToCheckPoint(time', periodicCheckPoints', NextPeriodic', checkPoints')
  BY StepToCheckPointType DEF NextPeriodic
<1>2. AtMost(dt, toCheck) \in Int
  BY DEF AtMost
<1>3. BaseSetTimeStepSize(AtMost(dt, toCheck))
  BY <1>1 DEF AlignTimeStepSize
<1> QED
  BY <1>2, <1>3, BaseSizeType

(* The queue of check points is typed and sorted. *)
FreeInv == TypeOK /\ QueueSorted

(* Both constructors start without check points. *)
LEMMA FreeInit == ASSUME TimeLoopAssumption, Init PROVE FreeInv
<1>1. /\ time \in Int /\ endTime \in Int /\ MaxScalar \in Nat
      /\ userSetMaxTimeStepSize = MaxScalar /\ deltaPeriodicCheckPoint = 0
      /\ lastPeriodicCheckPoint = time
      /\ checkPoints = << >>
  BY DEF Init, TimeLoopAssumption
<1>2. maxTimeStepSize \in Nat
  BY <1>1, MaxStepType DEF Init
<1>3. PICK dt \in Nat : timeStepSize = AtMost(dt, maxTimeStepSize)
  BY DEF Init, TimeLoopAssumption
<1>4. timeStepSize \in Int
  BY <1>2, <1>3 DEF AtMost
<1>5. finishedFlag \in BOOLEAN /\ periodicCheckPoints \in BOOLEAN /\ isCheckPoint \in BOOLEAN
  BY DEF Init
<1>6. TypeOK
  BY <1>1, <1>2, <1>4, <1>5 DEF TypeOK
<1> QED
  BY <1>1, <1>6 DEF FreeInv, QueueSorted

(* advanceTimeStep from any state, its step negative maybe. *)
LEMMA FreeAdvance ==
    ASSUME TimeLoopAssumption, FreeInv, AdvanceTimeStep PROVE FreeInv'
<1> USE DEF FreeInv, TypeOK
<1>1. /\ AlignTimeStepSize(CutStep)
      /\ time' = time + timeStepSize
      /\ UNCHANGED <<endTime, userSetMaxTimeStepSize, finishedFlag,
                     periodicCheckPoints, deltaPeriodicCheckPoint>>
      /\ lastPeriodicCheckPoint' = lastPeriodicCheckPoint
         \/ lastPeriodicCheckPoint' = NextPeriodic
      /\ isCheckPoint' \in BOOLEAN
  BY DEF AdvanceTimeStep
<1>2. /\ time' \in Int /\ lastPeriodicCheckPoint' \in Int
  BY <1>1 DEF NextPeriodic
<1>3. CutStep \in Int
  <2>1. MaxStep(time + timeStepSize, endTime, userSetMaxTimeStepSize, finishedFlag) \in Nat
    BY <1>1, <1>2, MaxStepType
  <2> QED BY <2>1 DEF CutStep, AtMost
<1>4. checkPoints' \in Seq(Int) /\ QueueSorted'
  <2>1. CASE checkPoints' = checkPoints
    BY <2>1 DEF QueueSorted
  <2>2. CASE checkPoints # << >> /\ checkPoints' = Tail(checkPoints)
    BY <2>2, TailKeepsOrder DEF QueueSorted
  <2> QED
    BY <2>1, <2>2 DEF AdvanceTimeStep, QueueAfter, AtManual
<1>5. timeStepSize' \in Int /\ maxTimeStepSize' \in Nat
  BY <1>1, <1>2, <1>3, <1>4, AlignedSizeType
<1> QED
  BY <1>1, <1>2, <1>4, <1>5

(* The calls that end in the derived setTimeStepSize. *)
LEMMA FreeAlign ==
    ASSUME TimeLoopAssumption, FreeInv, AligningCall PROVE FreeInv'
<1> USE DEF FreeInv, TypeOK
<1>1. ASSUME NEW dt \in Int, AlignTimeStepSize(dt),
             UNCHANGED <<time, endTime, userSetMaxTimeStepSize, finishedFlag>>,
             periodicCheckPoints' \in BOOLEAN, isCheckPoint' \in BOOLEAN,
             deltaPeriodicCheckPoint' \in Nat, lastPeriodicCheckPoint' \in Int,
             checkPoints' \in Seq(Int), QueueSorted'
      PROVE  FreeInv'
  <2>1. timeStepSize' \in Int /\ maxTimeStepSize' \in Nat
    BY <1>1, AlignedSizeType
  <2> QED
    BY <1>1, <2>1
<1>2. CASE \E dt \in StepSizes : SetTimeStepSize(dt)
  <2>1. PICK dt \in Nat : SetTimeStepSize(dt)
    BY <1>2 DEF TimeLoopAssumption
  <2> QED
    BY <1>1, <2>1 DEF SetTimeStepSize, checkVars, QueueSorted
<1>3. CASE \E i \in Intervals, o \in Times : SetPeriodicCheckPoint(i, o)
  <2>1. PICK i \in Nat \ {0}, o \in Int : SetPeriodicCheckPoint(i, o)
    BY <1>3 DEF TimeLoopAssumption
  <2>2. LastPeriod(i, o) \in Int
    BY LastPeriodBounds
  <2> QED
    BY <1>1, <2>1, <2>2 DEF SetPeriodicCheckPoint, QueueSorted
<1>4. ASSUME AlignTimeStepSize(timeStepSize),
             UNCHANGED <<time, endTime, userSetMaxTimeStepSize, finishedFlag,
                         periodicCheckPoints, deltaPeriodicCheckPoint,
                         lastPeriodicCheckPoint, isCheckPoint>>,
             NEW q \in Seq(Int), checkPoints' = q,
             \A i, j \in 1..Len(q) : i <= j => q[i] <= q[j]
      PROVE  FreeInv'
  BY <1>1, <1>4 DEF QueueSorted
<1>5. CASE \E t \in Times : SetCheckPoint(t)
  <2>1. PICK t \in Int : SetCheckPoint(t)
    BY <1>5 DEF TimeLoopAssumption
  <2> DEFINE q == Enqueue(checkPoints, t)
  <2>2. q \in Seq(Int) /\ \A i, j \in 1..Len(q) : i <= j => q[i] <= q[j]
    BY EnqueueKeepsOrder DEF QueueSorted
  <2> QED
    BY <1>4, <2>1, <2>2 DEF SetCheckPoint
<1>6. CASE \E t1, t2 \in Times : SetCheckPoints(t1, t2)
  <2>1. PICK t1 \in Int, t2 \in Int : SetCheckPoints(t1, t2)
    BY <1>6 DEF TimeLoopAssumption
  <2> DEFINE p == Enqueue(checkPoints, t1)
             q == Enqueue(p, t2)
  <2>2. p \in Seq(Int) /\ \A i, j \in 1..Len(p) : i <= j => p[i] <= p[j]
    BY EnqueueKeepsOrder DEF QueueSorted
  <2>3. q \in Seq(Int) /\ \A i, j \in 1..Len(q) : i <= j => q[i] <= q[j]
    <3> HIDE DEF p
    <3> QED BY <2>2, EnqueueKeepsOrder
  <2> QED
    BY <1>4, <2>1, <2>3 DEF SetCheckPoints
<1> QED
  BY <1>2, <1>3, <1>5, <1>6 DEF AligningCall

(* The calls that enqueue nothing and move nothing. *)
LEMMA FreeNeutral ==
    ASSUME TimeLoopAssumption, FreeInv, NeutralCall PROVE FreeInv'
<1> USE DEF FreeInv, TypeOK, QueueSorted
<1>1. CASE \E m \in StepSizes : SetMaxTimeStepSize(m)
  <2>1. PICK m \in Nat : SetMaxTimeStepSize(m)
    BY <1>1 DEF TimeLoopAssumption
  <2>2. timeStepSize' \in Int /\ maxTimeStepSize' \in Nat
    BY <2>1, BaseSizeType DEF SetMaxTimeStepSize
  <2> QED
    BY <2>1, <2>2 DEF SetMaxTimeStepSize, checkVars
<1>2. CASE \E b \in BOOLEAN : SetFinished(b)
  BY <1>2 DEF SetFinished, checkVars
<1>3. CASE DisablePeriodicCheckPoints
  BY <1>3 DEF DisablePeriodicCheckPoints, baseVars
<1>4. CASE RemoveAllCheckPoints
  <2>1. checkPoints' = << >> /\ checkPoints' \in Seq(Int) /\ Len(checkPoints') = 0
    BY <1>4 DEF RemoveAllCheckPoints
  <2>2. QueueSorted'
    BY <2>1
  <2>3. TypeOK'
    BY <1>4, <2>1 DEF RemoveAllCheckPoints, baseVars
  <2> QED
    BY <2>2, <2>3
<1> QED
  BY <1>1, <1>2, <1>3, <1>4 DEF NeutralCall

(* reset() keeps the queue of the run before: it stays sorted. *)
LEMMA FreeReset ==
    ASSUME TimeLoopAssumption, FreeInv,
           NEW start \in Int, NEW end \in Int, NEW dt \in Nat, Reset(start, dt, end)
    PROVE  FreeInv'
<1>1. /\ time' \in Int /\ endTime' \in Int
      /\ userSetMaxTimeStepSize' \in Nat /\ finishedFlag' \in BOOLEAN
      /\ BaseSetTimeStepSize(dt) /\ UNCHANGED checkVars
  BY DEF Reset, TimeLoopAssumption
<1>2. timeStepSize' \in Int /\ maxTimeStepSize' \in Nat
  BY <1>1, BaseSizeType
<1> QED
  BY <1>1, <1>2 DEF FreeInv, TypeOK, QueueSorted, checkVars

(* Any step. *)
LEMMA FreeNext == ASSUME TimeLoopAssumption, FreeInv, [Next]_vars PROVE FreeInv'
<1>1. CASE AdvanceTimeStep
  BY <1>1, FreeAdvance
<1>2. CASE AligningCall
  BY <1>2, FreeAlign
<1>3. CASE NeutralCall
  BY <1>3, FreeNeutral
<1>4. CASE \E t \in Times : SetTime(t)
  BY <1>4, TimeLoopAssumption
  DEF SetTime, checkVars, FreeInv, TypeOK, QueueSorted, TimeLoopAssumption
<1>5. CASE \E t \in Times : SetEndTime(t)
  BY <1>5, TimeLoopAssumption
  DEF SetEndTime, checkVars, FreeInv, TypeOK, QueueSorted, TimeLoopAssumption
<1>6. CASE \E start, end \in Times, dt \in StepSizes : start <= end /\ Reset(start, dt, end)
  <2>1. PICK start \in Int, end \in Int, dt \in Nat : Reset(start, dt, end)
    BY <1>6 DEF TimeLoopAssumption
  <2> QED
    BY <2>1, FreeReset
<1>7. CASE UNCHANGED vars
  BY <1>7 DEF vars, baseVars, checkVars, FreeInv, TypeOK, QueueSorted
<1> QED
  BY <1>1, <1>2, <1>3, <1>4, <1>5, <1>6, <1>7 DEF Next

(* A call of a client that keeps to its notes. *)
LEMMA KeptCallInv ==
    ASSUME TimeLoopAssumption, KeptInv, KeptCall PROVE KeptInv'
<1>1. CASE ClientAdvance
  BY <1>1, ClientAdvanceInv
<1>2. CASE ClientAlign
  BY <1>2, ClientAlignInv
<1>3. CASE ClientNeutral
  BY <1>3, ClientNeutralInv
<1>4. CASE ClientMove
  BY <1>4, ClientMoveInv
<1> QED
  BY <1>1, <1>2, <1>3, <1>4 DEF KeptCall

(* A client that keeps to the notes never finds the step negative, beyond  *)
(* the end of the simulation or beyond a check point that is due, and      *)
(* leaves no check point behind; whatever another client calls, the queue  *)
(* stays in order (CheckPointTimeLoop::advanceTimeStep, setTimeStepSize,         *)
(* setCheckPoint, setPeriodicCheckPoint).                                  *)
THEOREM ClientSafety == ClientSpec => []ClientInv
<1>1. ClientInit => ClientInv
  <2> SUFFICES ASSUME ClientInit PROVE ClientInv
    OBVIOUS
  <2>1. KeptInv
    BY TimeLoopAssumption, ClientInitInv
  <2> QED
    BY <2>1 DEF KeptInv, ClientInv, ClientInit
<1>2. ClientInv /\ [ClientNext]_clientVars => ClientInv'
  <2> SUFFICES ASSUME ClientInv, [ClientNext]_clientVars PROVE ClientInv'
    OBVIOUS
  <2>1. CASE KeptCall
    <3>1. KeptInv /\ keepsNotes' = keepsNotes
      BY <2>1 DEF KeptCall, ClientInv
    <3>2. KeptInv'
      BY <2>1, <3>1, TimeLoopAssumption, KeptCallInv
    <3> QED
      BY <3>1, <3>2 DEF KeptInv, ClientInv
  <2>2. CASE FreeCall
    <3>1. FreeInv /\ Next /\ ~keepsNotes /\ UNCHANGED <<keepsNotes, mustAlign>>
      BY <2>2 DEF FreeCall, FreeInv, ClientInv, ClientTypeOK
    <3>2. FreeInv'
      BY <3>1, TimeLoopAssumption, FreeNext
    <3> QED
      BY <3>1, <3>2 DEF FreeInv, ClientInv, ClientTypeOK
  <2>3. CASE UNCHANGED clientVars
    BY <2>3 DEF clientVars, vars, baseVars, checkVars, KeptInv, ClientInv, ClientTypeOK,
                TypeOK, QueueSorted, ClientStepAligned, StepIsAligned, NoneLeftBehind,
                NextPeriodic
  <2> QED
    BY <2>1, <2>2, <2>3 DEF ClientNext
<1> QED
  BY <1>1, <1>2, PTL DEF ClientSpec
-----------------------------------------------------------------------------
(* Whatever a client calls, in any order, the queue of check points is in  *)
(* ascending order: what setCheckPoint_ refuses is enough                  *)
(* (CheckPointTimeLoop::setCheckPoint_, advanceTimeStep).                  *)
THEOREM QueueSafety == Spec => []QueueSorted
<1>1. Init => FreeInv
  BY TimeLoopAssumption, FreeInit
<1>2. FreeInv /\ [Next]_vars => FreeInv'
  BY TimeLoopAssumption, FreeNext
<1>3. FreeInv => QueueSorted
  BY DEF FreeInv
<1> QED
  BY <1>1, <1>2, <1>3, PTL DEF Spec

(* A call ending in the derived setTimeStepSize aligns the step again,     *)
(* whatever was called before it, unless the end or a check point is       *)
(* already behind (CheckPointTimeLoop::setTimeStepSize, setCheckPoint,     *)
(* setPeriodicCheckPoint).                                                 *)
THEOREM CallsRepair == Spec => CallRepairsStep
<1>1. Init => FreeInv
  BY TimeLoopAssumption, FreeInit
<1>2. FreeInv /\ [Next]_vars => FreeInv'
  BY TimeLoopAssumption, FreeNext
<1>3. ASSUME FreeInv, [Next]_vars, AligningCall, time <= endTime, \A c \in Due' : time <= c
      PROVE  StepIsAligned'
  <2>1. PICK dt \in Int : AlignTimeStepSize(dt) /\ time' = time /\ endTime' = endTime
    BY <1>3, TimeLoopAssumption
    DEF AligningCall, SetTimeStepSize, SetPeriodicCheckPoint, SetCheckPoint, SetCheckPoints,
        FreeInv, TypeOK, TimeLoopAssumption
  <2>2. TypeOK'
    BY <1>2, <1>3 DEF FreeInv
  <2>3. NextPeriodic' \in Int
    BY <2>2 DEF TypeOK, NextPeriodic
  <2>4. periodicCheckPoints' => time' <= NextPeriodic'
    BY <1>3, <2>1 DEF Due
  <2>5. ASSUME checkPoints' # << >>
        PROVE  time' <= Head(checkPoints')
    <3>1. 1 \in 1..Len(checkPoints') /\ Head(checkPoints') = checkPoints'[1]
      BY <2>2, <2>5 DEF TypeOK
    <3> QED
      BY <1>3, <2>1, <3>1 DEF Due
  <2>6. /\ time' \in Int /\ endTime' \in Int /\ userSetMaxTimeStepSize' \in Nat
        /\ finishedFlag' \in BOOLEAN /\ periodicCheckPoints' \in BOOLEAN
        /\ checkPoints' \in Seq(Int)
    BY <2>2 DEF TypeOK
  <2>7. time' <= endTime'
    BY <1>3, <2>1
  <2> QED
    BY <2>1, <2>3, <2>4, <2>5, <2>6, <2>7, TimeLoopAssumption, AlignLemma
<1> QED
  BY <1>1, <1>2, <1>3, PTL DEF Spec, CallRepairsStep
-----------------------------------------------------------------------------
(* From here on under ShortSimulations: the tolerance stays below a tick.  *)

(* The span of the simulation lies between two times the client has passed. *)
SpanInv ==
    keepsNotes =>
        /\ endTime \in Times
        /\ \E s \in Times : s <= time

(* Then the comparison is exact for every check point ahead, however far.  *)
LEMMA ToleranceBelowTick ==
    ASSUME NEW L \in Nat, NEW M \in Nat, NEW E \in Nat, L * (M + 1) < E,
           NEW a \in Int, Abs(a) <= M, NEW b \in Int, a < b,
           NEW d \in Nat, d <= L
    PROVE  ~(Abs(a - b) * E <= d * AtLeast(Abs(a), Abs(b)))
<1>1. PICK k \in Nat \ {0} : k = b - a
  OBVIOUS
<1>2. PICK m \in Nat : m = AtLeast(Abs(a), Abs(b)) /\ m <= M + k
  <2>1. AtLeast(Abs(a), Abs(b)) \in Nat /\ AtLeast(Abs(a), Abs(b)) <= M + k
    BY <1>1 DEF AtLeast, Abs
  <2> QED BY <2>1
<1>3. Abs(a - b) = k
  BY <1>1 DEF AtLeast, Abs
<1>4. m <= k * (M + 1)
  <2>1. PICK i \in Nat : k = i + 1
    BY <1>1
  <2>2. k * (M + 1) = i * M + i + M + 1 /\ i * M >= 0
    BY <2>1
  <2>3. PICK z \in Nat : z = i * M
    OBVIOUS
  <2> QED BY <1>2, <2>1, <2>2, <2>3
<1>5. d * m <= L * m
  <2>1. PICK r \in Nat : L = d + r
    <3>1. L = d + (L - d) /\ L - d \in Nat
      OBVIOUS
    <3> QED BY <3>1
  <2>2. L * m = d * m + r * m /\ r * m >= 0 /\ d * m \in Nat
    BY <2>1
  <2> QED BY <2>2
<1>6. L * m <= L * (k * (M + 1))
  <2> DEFINE n == k * (M + 1)
  <2>1. n \in Nat /\ m <= n
    BY <1>4
  <2> HIDE DEF n
  <2>2. PICK r \in Nat : n = m + r
    <3>1. n = m + (n - m) /\ n - m \in Nat
      BY <2>1
    <3> QED BY <3>1
  <2>3. L * n = L * m + L * r /\ L * r >= 0 /\ L * m \in Nat
    BY <2>2
  <2>4. L * m <= L * n
    BY <2>3
  <2> QED BY <2>4 DEF n
<1>7. L * (k * (M + 1)) = k * (L * (M + 1))
  OBVIOUS
<1>8. k * (L * (M + 1)) < k * E
  <2>1. PICK p \in Nat : p = L * (M + 1) /\ p < E
    OBVIOUS
  <2>2. PICK r \in Nat \ {0} : E = p + r
    <3>1. E = p + (E - p) /\ E - p \in Nat \ {0}
      BY <2>1
    <3> QED BY <3>1
  <2>3. k * E = k * p + k * r /\ k * r > 0 /\ k * p \in Nat
    BY <2>2
  <2>4. k * p < k * E
    BY <2>3
  <2> QED BY <2>1, <2>4
<1>9. d * m \in Nat /\ L * m \in Nat /\ k * (L * (M + 1)) \in Nat /\ k * E \in Nat
  OBVIOUS
<1>10. d * m < k * E
  BY <1>5, <1>6, <1>7, <1>8, <1>9
<1> QED
  BY <1>2, <1>3, <1>9, <1>10

(* The head of a sorted queue is the check point ahead, if any is met.     *)
LEMMA HeadIsNext ==
    ASSUME NEW queue \in Seq(Int), queue # << >>,
           \A i, j \in 1..Len(queue) : i <= j => queue[i] <= queue[j]
    PROVE  /\ Head(queue) \in Int /\ 1 \in 1..Len(queue) /\ Head(queue) = queue[1]
           /\ \A i \in 1..Len(queue) : queue[i] \in Int /\ Head(queue) <= queue[i]
<1>1. 1 \in 1..Len(queue) /\ Head(queue) = queue[1] /\ Head(queue) \in Int
  OBVIOUS
<1>2. ASSUME NEW i \in 1..Len(queue) PROVE queue[i] \in Int /\ queue[1] <= queue[i]
  BY <1>1
<1> QED BY <1>1, <1>2

(* An aligned step meets a check point exactly or leaves it a tick ahead.  *)
LEMMA ArrivalIsExact ==
    ASSUME TimeLoopAssumption, ShortSimulations, KeptInv, SpanInv, keepsNotes,
           ~mustAlign, NEW b \in Int, time + timeStepSize <= b
    PROVE  FuzzyEq(time + timeStepSize, b, CutStep) <=> time + timeStepSize = b
<1> DEFINE a == time + timeStepSize
<1>1. /\ a \in Int /\ endTime \in Int /\ time \in Int /\ timeStepSize \in Nat
      /\ time <= a /\ a <= endTime
      /\ userSetMaxTimeStepSize \in Nat /\ finishedFlag \in BOOLEAN
  BY DEF KeptInv, ClientTypeOK, TypeOK, ClientStepAligned, StepIsAligned
<1>2. PICK s \in Int : s \in Times /\ s <= time
  BY DEF SpanInv, TimeLoopAssumption
<1>3. CutStep \in Nat /\ CutStep <= endTime - a
  <2>1. PICK m \in Nat : /\ m = MaxStep(a, endTime, userSetMaxTimeStepSize, finishedFlag)
                         /\ a + m <= endTime
    BY <1>1, MaxStepBounds
  <2>2. CutStep = AtMost(timeStepSize, m)
    BY <2>1 DEF CutStep
  <2> QED BY <1>1, <2>1, <2>2 DEF AtMost
<1>4. CASE a = b
  BY <1>1, <1>3, <1>4, FuzzyEqReflexive
<1>5. CASE a < b
  <2> DEFINE L == endTime - s
             M == AtLeast(Abs(s), Abs(endTime))
  <2>1. L \in Nat /\ M \in Nat /\ Abs(a) <= M /\ CutStep <= L
    BY <1>1, <1>2, <1>3 DEF AtLeast, Abs
  <2>2. L * (M + 1) < EqScale /\ EqScale \in Nat
    BY <1>1, <1>2 DEF ShortSimulations, SpanInv, TimeLoopAssumption
  <2> HIDE DEF L, M
  <2>3. ~(Abs(a - b) * EqScale <= CutStep * AtLeast(Abs(a), Abs(b)))
    <3> HIDE DEF a
    <3> QED BY <1>1, <1>3, <1>5, <2>1, <2>2, ToleranceBelowTick
  <2>4. ~FuzzyEq(a, b, CutStep)
    BY <2>3 DEF FuzzyEq
  <2> QED BY <1>5, <2>4
<1> QED
  BY <1>1, <1>4, <1>5

LEMMA SpanNext ==
    ASSUME TimeLoopAssumption, ClientInv, SpanInv, [ClientNext]_clientVars
    PROVE  SpanInv'
<1> SUFFICES ASSUME keepsNotes' PROVE endTime' \in Times /\ \E s \in Times : s <= time'
  BY DEF SpanInv
<1>1. CASE UNCHANGED clientVars
  BY <1>1 DEF SpanInv, clientVars, vars, baseVars
<1>2. CASE FreeCall
  BY <1>2 DEF FreeCall
<1>3. CASE KeptCall
  <2>1. /\ keepsNotes /\ KeptInv /\ endTime \in Times
    BY <1>3 DEF KeptCall, ClientInv, SpanInv
  <2>2. PICK s \in Int : s \in Times /\ s <= time
    BY <2>1 DEF SpanInv, TimeLoopAssumption
  <2>3. CASE ClientAdvance
    <3>1. /\ endTime' = endTime /\ time' = time + timeStepSize
          /\ timeStepSize \in Int /\ timeStepSize >= 0 /\ time \in Int
      BY <2>1, <2>3 DEF ClientAdvance, AdvanceTimeStep, KeptInv, ClientTypeOK, TypeOK,
                        ClientStepAligned
    <3>2. s <= time'
      BY <2>2, <3>1
    <3> QED BY <2>1, <2>2, <3>1, <3>2
  <2>4. CASE ClientAlign \/ ClientNeutral
    <3>1. UNCHANGED <<time, endTime>>
      BY <2>4 DEF ClientAlign, AligningCall, SetTimeStepSize, SetPeriodicCheckPoint,
                  SetCheckPoint, SetCheckPoints, ClientNeutral, NeutralCall,
                  SetMaxTimeStepSize, SetFinished, DisablePeriodicCheckPoints,
                  RemoveAllCheckPoints, baseVars
    <3> QED BY <2>1, <2>2, <3>1
  <2>5. CASE \E t \in Times : ClientSetTime(t)
    <3>1. endTime' = endTime /\ time' \in Times /\ time' \in Int
      BY <2>5 DEF ClientSetTime, SetTime, TimeLoopAssumption
    <3> QED BY <2>1, <3>1
  <2>6. CASE \E t \in Times : ClientSetEndTime(t)
    <3>1. endTime' \in Times /\ time' = time
      BY <2>6 DEF ClientSetEndTime, SetEndTime
    <3> QED BY <2>2, <3>1
  <2>7. CASE \E start, end \in Times, dt \in StepSizes : ClientReset(start, dt, end)
    <3>1. endTime' \in Times /\ time' \in Times /\ time' \in Int
      BY <2>7 DEF ClientReset, Reset, TimeLoopAssumption
    <3> QED BY <3>1
  <2> QED BY <1>3, <2>3, <2>4, <2>5, <2>6, <2>7 DEF KeptCall, ClientMove
<1> QED
  BY <1>1, <1>2, <1>3 DEF ClientNext

LEMMA SpanInvariant == ClientSpec => []SpanInv
<1>1. ClientInit => SpanInv
  BY TimeLoopAssumption DEF ClientInit, Init, SpanInv, TimeLoopAssumption
<1>2. ClientInv /\ SpanInv /\ [ClientNext]_clientVars => SpanInv'
  BY TimeLoopAssumption, SpanNext
<1> QED
  BY <1>1, <1>2, ClientSafety, PTL DEF ClientSpec

(* An aligned step passes nothing, flags what it meets and forgets only it. *)
LEMMA AdvanceMeets ==
    ASSUME TimeLoopAssumption, ShortSimulations, KeptInv, SpanInv, keepsNotes,
           ~mustAlign, AdvanceTimeStep
    PROVE  /\ \A c \in Due : c >= time'
           /\ isCheckPoint' <=> time' \in Due
           /\ Due \ {time'} \subseteq Due'
<1>1. /\ time' = time + timeStepSize /\ time' \in Int
      /\ checkPoints \in Seq(Int) /\ NextPeriodic \in Int
      /\ \A i, j \in 1..Len(checkPoints) : i <= j => checkPoints[i] <= checkPoints[j]
      /\ checkPoints # << >> => time' <= Head(checkPoints)
      /\ periodicCheckPoints => time' <= NextPeriodic
  BY DEF AdvanceTimeStep, KeptInv, ClientTypeOK, TypeOK, QueueSorted, ClientStepAligned,
         StepIsAligned, NextPeriodic
<1>2. \A i \in 1..Len(checkPoints) :
         /\ checkPoints # << >> /\ checkPoints[i] \in Int /\ Head(checkPoints) \in Int
         /\ Head(checkPoints) <= checkPoints[i]
  BY <1>1, HeadIsNext
<1>3. AtPeriodic <=> periodicCheckPoints /\ time' = NextPeriodic
  BY <1>1, ArrivalIsExact DEF AtPeriodic
<1>4. AtManual <=> checkPoints # << >> /\ time' = Head(checkPoints)
  <2>1. checkPoints # << >> => Head(checkPoints) \in Int
    BY <1>1, HeadIsNext
  <2> QED BY <1>1, <2>1, ArrivalIsExact DEF AtManual
<1>5. \A c \in Due : c >= time'
  <2>1. \A i \in 1..Len(checkPoints) : checkPoints[i] >= time'
    BY <1>1, <1>2
  <2> QED BY <1>1, <2>1 DEF Due
<1>6. isCheckPoint' <=> time' \in Due
  <2>1. isCheckPoint' = (AtPeriodic \/ AtManual)
    BY DEF AdvanceTimeStep
  <2>2. ASSUME AtManual PROVE time' \in Due
    <3>1. 1 \in 1..Len(checkPoints) /\ time' = checkPoints[1]
      BY <1>1, <1>4, <2>2, HeadIsNext
    <3> QED BY <3>1 DEF Due
  <2>3. ASSUME AtPeriodic PROVE time' \in Due
    BY <1>3, <2>3 DEF Due
  <2>4. ASSUME NEW i \in 1..Len(checkPoints), time' = checkPoints[i] PROVE AtManual
    BY <1>1, <1>2, <1>4, <2>4
  <2>5. ASSUME time' \in Due PROVE AtPeriodic \/ AtManual
    BY <1>3, <2>4, <2>5 DEF Due
  <2> QED BY <2>1, <2>2, <2>3, <2>5
<1>7. ASSUME NEW c \in Due, c # time' PROVE c \in Due'
  <2>1. /\ periodicCheckPoints' = periodicCheckPoints
        /\ deltaPeriodicCheckPoint' = deltaPeriodicCheckPoint
        /\ lastPeriodicCheckPoint' = IF AtPeriodic THEN NextPeriodic ELSE lastPeriodicCheckPoint
        /\ checkPoints' = IF ~AtPeriodic /\ AtManual THEN Tail(checkPoints) ELSE checkPoints
    BY DEF AdvanceTimeStep, QueueAfter
  <2>2. CASE periodicCheckPoints /\ c = NextPeriodic
    <3>1. NextPeriodic' = NextPeriodic
      BY <1>3, <1>7, <2>1, <2>2 DEF NextPeriodic
    <3> QED BY <2>1, <2>2, <3>1 DEF Due
  <2>3. ASSUME NEW i \in 1..Len(checkPoints), c = checkPoints[i]
        PROVE  \E j \in 1..Len(checkPoints') : c = checkPoints'[j]
    <3>1. CASE checkPoints' = checkPoints
      BY <2>3, <3>1
    <3>2. CASE checkPoints' = Tail(checkPoints) /\ AtManual
      <4>1. /\ Len(checkPoints') = Len(checkPoints) - 1 /\ Len(checkPoints) \in Nat
            /\ \A j \in 1..Len(checkPoints') : checkPoints'[j] = checkPoints[j + 1]
            /\ time' = checkPoints[1]
        BY <1>1, <1>2, <1>4, <2>3, <3>2, HeadIsNext, TailKeepsOrder
      <4>2. i # 1
        BY <1>7, <2>3, <4>1
      <4>3. i - 1 \in 1..Len(checkPoints') /\ (i - 1) + 1 = i
        BY <4>1, <4>2
      <4> QED BY <2>3, <4>1, <4>3
    <3> QED BY <2>1, <3>1, <3>2
  <2> QED BY <2>2, <2>3 DEF Due
<1> QED BY <1>5, <1>6, <1>7

(* A queue is its head followed by the rest. *)
LEMMA HeadAndTail ==
    ASSUME NEW queue \in Seq(Int), queue # << >>
    PROVE  queue = <<Head(queue)>> \o Tail(queue)
OBVIOUS

(* Of what is due where the step arrives one point is taken off, a periodic  *)
(* one before the front of the queue.                                        *)
LEMMA AdvanceTakesOff ==
    ASSUME TimeLoopAssumption, ShortSimulations, KeptInv, SpanInv, keepsNotes,
           ~mustAlign, AdvanceTimeStep
    PROVE  OneTakenOff
<1>1. /\ time' = time + timeStepSize /\ time' \in Int
      /\ checkPoints \in Seq(Int) /\ NextPeriodic \in Int
      /\ \A i, j \in 1..Len(checkPoints) : i <= j => checkPoints[i] <= checkPoints[j]
      /\ checkPoints # << >> => time' <= Head(checkPoints)
      /\ periodicCheckPoints => time' <= NextPeriodic
      /\ deltaPeriodicCheckPoint \in Int
      /\ periodicCheckPoints => deltaPeriodicCheckPoint > 0
  BY DEF AdvanceTimeStep, KeptInv, ClientTypeOK, TypeOK, QueueSorted, ClientStepAligned,
         StepIsAligned, NextPeriodic
<1>2. AtPeriodic <=> periodicCheckPoints /\ time' = NextPeriodic
  BY <1>1, ArrivalIsExact DEF AtPeriodic
<1>3. AtManual <=> checkPoints # << >> /\ time' = Head(checkPoints)
  <2>1. checkPoints # << >> => Head(checkPoints) \in Int
    BY <1>1, HeadIsNext
  <2> QED BY <1>1, <2>1, ArrivalIsExact DEF AtManual
<1>4. /\ NextPeriodic' = lastPeriodicCheckPoint' + deltaPeriodicCheckPoint
      /\ AtPeriodic => lastPeriodicCheckPoint' = NextPeriodic
      /\ ~AtPeriodic => lastPeriodicCheckPoint' = lastPeriodicCheckPoint
      /\ checkPoints' = IF ~AtPeriodic /\ AtManual THEN Tail(checkPoints) ELSE checkPoints
  BY DEF AdvanceTimeStep, QueueAfter, NextPeriodic
<1>5. CASE AtPeriodic
  <2>1. NextPeriodic' = NextPeriodic + deltaPeriodicCheckPoint /\ checkPoints' = checkPoints
    BY <1>4, <1>5
  <2>2. NextPeriodic' > time'
    BY <1>1, <1>2, <1>5, <2>1
  <2> QED BY <1>2, <1>5, <2>1, <2>2 DEF OneTakenOff
<1>6. CASE ~AtPeriodic /\ AtManual
  <2>1. NextPeriodic' = NextPeriodic
    BY <1>4, <1>6 DEF NextPeriodic
  <2>2. checkPoints = <<time'>> \o checkPoints'
    BY <1>1, <1>3, <1>4, <1>6, HeadAndTail
  <2>3. time' \in Due
    BY <1>1, <1>3, <1>6, HeadIsNext DEF Due
  <2> QED BY <1>2, <1>6, <2>1, <2>2, <2>3 DEF OneTakenOff
<1>7. CASE ~AtPeriodic /\ ~AtManual
  <2>1. NextPeriodic' = NextPeriodic /\ checkPoints' = checkPoints
    BY <1>4, <1>7 DEF NextPeriodic
  <2>2. ASSUME NEW i \in 1..Len(checkPoints), time' = checkPoints[i] PROVE FALSE
    <3>1. checkPoints # << >>
      BY <1>1, <2>2
    <3>2. Head(checkPoints) \in Int /\ Head(checkPoints) <= checkPoints[i]
      BY <1>1, <3>1, HeadIsNext
    <3> QED BY <1>1, <1>3, <1>7, <2>2, <3>1, <3>2
  <2>3. time' \notin Due
    BY <1>2, <1>7, <2>2 DEF Due
  <2> QED BY <1>2, <1>7, <2>1, <2>3 DEF OneTakenOff
<1> QED BY <1>5, <1>6, <1>7

(* A client that keeps to its notes and simulates no longer than the        *)
(* tolerance allows passes no check point, is told of every one it meets,   *)
(* exactly there, and has one of those it met taken off                     *)
(* (CheckPointTimeLoop::advanceTimeStep, isCheckPoint).                     *)
THEOREM CheckPointsAreMet == ShortSimulations => (ClientSpec => CheckPointsMet)
<1> SUFFICES ASSUME ShortSimulations PROVE ClientSpec => CheckPointsMet
  OBVIOUS
<1>1. ASSUME ClientInv, SpanInv, keepsNotes, ClientAdvance
      PROVE  /\ \A c \in Due : c >= time'
             /\ isCheckPoint' <=> time' \in Due
             /\ OneTakenOff
  <2>1. KeptInv /\ ~mustAlign /\ AdvanceTimeStep
    BY <1>1 DEF ClientInv, ClientAdvance
  <2> QED BY <1>1, <2>1, TimeLoopAssumption, AdvanceMeets, AdvanceTakesOff
<1> QED
  BY <1>1, ClientSafety, SpanInvariant, PTL DEF ClientSpec, CheckPointsMet
=============================================================================
