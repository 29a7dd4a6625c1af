-------------------------- MODULE SequentialProofs --------------------------
(***************************************************************************)
(* Proofs about the simulations with the sequential models.                *)
(*                                                                         *)
(* SequentialSimulation, for every end time, interval, step size and       *)
(* number of crashes: the step chosen stays inside the episode and the     *)
(* simulation, the episodes stay on their grid across restarts, and the    *)
(* solution is as old as the time says.                                    *)
(*                                                                         *)
(* LocalTimeStepping, for every set of cells and faces, every local step   *)
(* and every CFL factor: the local steps implement the integration that    *)
(* SequentialSimulation promises, the two cells of a face agree about it,  *)
(* and every cell is integrated over the step that is added to the time.   *)
(***************************************************************************)
EXTENDS LocalTimeStepping, WellFoundedInduction, FiniteSetTheorems, TLAPS

(* The bound of setTimeStepSize is a step that crosses neither end. *)
LEMMA MaxStepBounds ==
    ASSUME NEW t \in Nat, NEW e \in Nat, t <= e, t <= EndTime
    PROVE  /\ MaxStep(t, e) \in Nat
           /\ t + MaxStep(t, e) <= e
           /\ t + MaxStep(t, e) <= EndTime
           /\ MaxStep(t, e) = 0 => t = e \/ t = EndTime
BY TimeManagerAssumption DEF MaxStep, EpisodeMaxStep, AtMost, AtLeast

LEMMA AtMostType ==
    ASSUME NEW a \in Nat, NEW b \in Nat
    PROVE  /\ AtMost(a, b) \in Nat /\ AtLeast(a, b) \in Nat
           /\ AtMost(a, b) <= a /\ AtMost(a, b) <= b
           /\ AtMost(a, b) = 0 => a = 0 \/ b = 0
           /\ AtLeast(a, b) >= a /\ AtLeast(a, b) >= b
BY DEF AtMost, AtLeast

(* What timeIntegration() asks of setTimeStepSize is zero at the end of an *)
(* episode alone, whatever step preceded.                                  *)
LEMMA ProposedStepPositive ==
    ASSUME SeqTypeOK, EpisodesOnGrid, NEW dt \in TransportSteps
    PROVE  LET asked == NotAboveInitial(WithinEpisode(NearLastStep(dt)))
           IN  asked \in Nat /\ (asked = 0 => EpisodeIsFinished)
<1> DEFINE near == NearLastStep(dt)
           within == WithinEpisode(near)
<1>1. dt \in Nat /\ dt > 0 /\ DtVariation \in Nat /\ OutputTimeInterval \in Nat
      BY SequentialAssumption
<1>2. time \in Nat /\ timeStepSize \in Nat /\ EpisodeEndTime \in Nat
      BY DEF SeqTypeOK, EpisodeEndTime
<1>3. DtVariation * timeStepSize \in Nat
      BY <1>1, <1>2
<1>4. near \in Nat /\ near > 0
      BY <1>1, <1>2, <1>3 DEF NearLastStep, AtMost, AtLeast
<1>5. within \in Nat /\ (within = 0 => EpisodeIsFinished)
      BY <1>2, <1>4 DEF WithinEpisode, EpisodeMaxStep, EpisodeIsFinished, EpisodeIsOver, AtMost, AtLeast
<1> HIDE DEF within
<1>6. NotAboveInitial(within) \in Nat /\ (NotAboveInitial(within) = 0 => within = 0)
      BY <1>2, <1>5 DEF NotAboveInitial, AtMost
<1> QED BY <1>5, <1>6 DEF within

LEMMA SeqInitInv == SeqInit => SeqInv
<1> SUFFICES ASSUME SeqInit PROVE SeqInv
    OBVIOUS
<1>1. OutputTimeInterval \in Nat /\ OutputTimeInterval > 0 /\ DtInitials \subseteq Nat
      BY SequentialAssumption
<1>2. SeqTypeOK
  <2>1. series \in Seq(Nat)
        BY DEF SeqInit
  <2>2. time \in Nat /\ timeStepSize \in Nat /\ previousTimeStepSize \in Nat
        BY <1>1 DEF SeqInit
  <2>3. /\ timeStepIdx \in Nat /\ solutionTime \in Nat /\ crashes \in Nat
        /\ episodeIndex \in Nat /\ episodeStartTime \in Nat /\ episodeLength \in Nat
        BY <1>1 DEF SeqInit
  <2>4. /\ where \in Places /\ outputInterval \in OutputIntervals
        /\ files \subseteq RestartFiles /\ replays \in BOOLEAN
        BY DEF SeqInit, Places
  <2> QED BY <2>1, <2>2, <2>3, <2>4 DEF SeqTypeOK
<1>3. EpisodesOnGrid
      BY <1>1 DEF SeqInit, EpisodesOnGrid, EpisodeEndTime
<1>4. StepStaysInside /\ SolutionFollowsTime /\ FilesRestorable /\ time <= EndTime
      BY <1>1, TimeManagerAssumption
         DEF SeqInit, StepStaysInside, SolutionFollowsTime, FilesRestorable
<1> QED BY <1>2, <1>3, <1>4 DEF SeqInv

LEMMA ChooseStepInv ==
    ASSUME SeqInv, NEW dt \in TransportSteps, ChooseStep(dt)
    PROVE  SeqInv'
<1> DEFINE asked == NotAboveInitial(WithinEpisode(NearLastStep(dt)))
           bound == MaxStep(time, EpisodeEndTime)
<1>1. SeqTypeOK /\ EpisodesOnGrid /\ time <= EndTime
      BY DEF SeqInv
<1>2. time \in Nat /\ EpisodeEndTime \in Nat /\ time <= EpisodeEndTime
      BY <1>1 DEF SeqTypeOK, EpisodesOnGrid, EpisodeEndTime
<1>3. asked \in Nat /\ (asked = 0 => EpisodeIsFinished)
      BY <1>1, ProposedStepPositive
<1>4. /\ bound \in Nat /\ time + bound <= EpisodeEndTime /\ time + bound <= EndTime
      /\ bound = 0 => time = EpisodeEndTime \/ time = EndTime
      BY <1>1, <1>2, MaxStepBounds
<1>5. timeStepSize' = AtMost(asked, bound)
      BY DEF ChooseStep, SetTimeStepSize
<1> HIDE DEF asked, bound
<1>6. time < EndTime
      BY <1>1, <1>2, TimeManagerAssumption DEF ChooseStep, Finished
<1>7. /\ timeStepSize' \in Nat
      /\ time + timeStepSize' <= EpisodeEndTime /\ time + timeStepSize' <= EndTime
      /\ timeStepSize' = 0 => EpisodeIsFinished
      BY <1>2, <1>3, <1>4, <1>5, <1>6, TimeManagerAssumption
         DEF AtMost, EpisodeIsFinished, EpisodeIsOver
<1>8. SeqTypeOK'
      BY <1>1, <1>7 DEF SeqTypeOK, ChooseStep, Places, episodeVars
<1>9. StepStaysInside'
      BY <1>7 DEF StepStaysInside, EpisodeEndTime, EpisodeIsFinished, EpisodeIsOver, ChooseStep,
                  episodeVars
<1>10. SolutionFollowsTime' /\ FilesRestorable'
      BY DEF SeqInv, SolutionFollowsTime, FilesRestorable, ChooseStep
<1>11. EpisodesOnGrid' /\ (time <= EndTime)'
      BY <1>1 DEF EpisodesOnGrid, EpisodeEndTime, ChooseStep, episodeVars
<1> QED BY <1>8, <1>9, <1>10, <1>11 DEF SeqInv

LEMMA IntegrateInv ==
    ASSUME SeqInv, NEW s \in 0..timeStepSize, Integrate(s)
    PROVE  SeqInv'
<1>1. SeqTypeOK /\ StepStaysInside /\ EpisodesOnGrid /\ SolutionFollowsTime
      BY DEF SeqInv
<1>2. s \in Nat /\ s <= timeStepSize /\ (s = 0 => timeStepSize = 0)
      BY <1>1 DEF Integrate, SeqTypeOK
<1>3. SeqTypeOK'
      BY <1>1, <1>2 DEF SeqTypeOK, Integrate, EndIntegration, Places, episodeVars
<1>4. StepStaysInside'
      BY <1>1, <1>2, TimeManagerAssumption
         DEF StepStaysInside, SeqTypeOK, Integrate, EndIntegration, EpisodeEndTime,
             EpisodeIsFinished, EpisodeIsOver, episodeVars
<1>5. SolutionFollowsTime'
      BY <1>1, <1>2 DEF SolutionFollowsTime, Integrate, EndIntegration
<1>6. EpisodesOnGrid' /\ FilesRestorable' /\ (time <= EndTime)'
      BY DEF SeqInv, EpisodesOnGrid, FilesRestorable, Integrate, EndIntegration,
             EpisodeEndTime, episodeVars
<1> QED BY <1>3, <1>4, <1>5, <1>6 DEF SeqInv

LEMMA WriteOutputInv == SeqInv /\ WriteOutput => SeqInv'
<1> SUFFICES ASSUME SeqInv, WriteOutput PROVE SeqInv'
    OBVIOUS
<1> USE DEF SeqInv, WriteOutput, managerVars, stepVars, episodeVars
<1>1. SeqTypeOK'
      BY DEF SeqTypeOK, Places
<1>2. StepStaysInside' /\ EpisodesOnGrid' /\ (time <= EndTime)'
      BY DEF StepStaysInside, EpisodesOnGrid, EpisodeEndTime, EpisodeIsFinished, EpisodeIsOver
<1>3. SolutionFollowsTime' /\ FilesRestorable'
      BY DEF SolutionFollowsTime, FilesRestorable
<1> QED BY <1>1, <1>2, <1>3

LEMMA SerializeInv == SeqInv /\ Serialize => SeqInv'
<1> SUFFICES ASSUME SeqInv, Serialize PROVE SeqInv'
    OBVIOUS
<1>1. SeqTypeOK /\ StepStaysInside /\ EpisodesOnGrid /\ SolutionFollowsTime
      BY DEF SeqInv
<1>2. /\ UNCHANGED managerVars
      /\ UNCHANGED <<outputInterval, series, solutionTime, replays, crashes>>
      /\ where = "serialize" /\ where' = "advance"
      /\ files' \subseteq files \cup {RestartFile}
      BY DEF Serialize, OtherFiles
<1>3. RestartFile \in RestartFiles
      BY <1>1 DEF RestartFile, RestartFiles, SavedTime, SeqTypeOK
<1>4. SeqTypeOK'
      BY <1>1, <1>2, <1>3 DEF SeqTypeOK, Places, managerVars, stepVars, episodeVars
<1>5. StepStaysInside' /\ EpisodesOnGrid' /\ (time <= EndTime)'
      BY <1>1, <1>2 DEF SeqInv, StepStaysInside, EpisodesOnGrid, EpisodeEndTime,
         EpisodeIsFinished, EpisodeIsOver, managerVars, stepVars, episodeVars
<1>6. RestartFile.solutionTime = RestartFile.time
      BY <1>1, <1>2 DEF RestartFile, SavedTime, SolutionFollowsTime
<1>7. SolutionFollowsTime'
      BY <1>1, <1>2, <1>6 DEF SolutionFollowsTime, managerVars, stepVars
<1>8. /\ RestartFile.episodeStartTime = (RestartFile.episodeIndex - 1) * OutputTimeInterval
      /\ RestartFile.episodeLength = OutputTimeInterval
      /\ RestartFile.episodeStartTime <= RestartFile.time
      /\ RestartFile.time <= RestartFile.episodeStartTime + RestartFile.episodeLength
      /\ RestartFile.time <= EndTime
      BY <1>1, <1>2 DEF RestartFile, SavedTime, StepStaysInside, EpisodesOnGrid,
         EpisodeEndTime, SeqTypeOK
<1>9. FilesRestorable'
      BY <1>2, <1>8 DEF SeqInv, FilesRestorable
<1> QED BY <1>4, <1>5, <1>7, <1>9 DEF SeqInv

LEMMA AdvanceInv == SeqInv /\ Advance => SeqInv'
<1> SUFFICES ASSUME SeqInv, Advance PROVE SeqInv'
    OBVIOUS
<1> DEFINE now == time + timeStepSize
           begins == EpisodeIsOver(now) /\ OutputTimeInterval > 0 /\ now < EndTime
           end == IF begins THEN now + OutputTimeInterval ELSE EpisodeEndTime
<1>1. SeqTypeOK /\ StepStaysInside /\ EpisodesOnGrid /\ SolutionFollowsTime
      BY DEF SeqInv
<1>2. OutputTimeInterval \in Nat /\ OutputTimeInterval > 0
      BY SequentialAssumption
<1>3. /\ where = "advance" /\ where' = "loop" /\ time' = now
      /\ timeStepIdx' = timeStepIdx + 1
      /\ episodeIndex' = IF begins THEN episodeIndex + 1 ELSE episodeIndex
      /\ episodeStartTime' = IF begins THEN now ELSE episodeStartTime
      /\ episodeLength' = IF begins THEN OutputTimeInterval ELSE episodeLength
      /\ previousTimeStepSize' = ProposedStep(now)
      /\ timeStepSize' = AtMost(ProposedStep(now), MaxStep(now, end))
      /\ replays' = FALSE
      /\ UNCHANGED <<outputInterval, series, files, solutionTime, crashes>>
      BY DEF Advance, AdvanceTime
<1>4. now \in Nat /\ now <= EndTime /\ now <= EpisodeEndTime /\ EpisodeEndTime \in Nat
      BY <1>1, <1>3 DEF StepStaysInside, SeqTypeOK, EpisodeEndTime
<1>5. end \in Nat /\ now <= end
      BY <1>2, <1>4
<1>6. MaxStep(now, end) \in Nat
      BY <1>4, <1>5, MaxStepBounds
<1>7. ProposedStep(now) \in Nat
      BY <1>1 DEF ProposedStep, AtLeast, SeqTypeOK
<1>8. timeStepSize' \in Nat
      BY <1>3, <1>6, <1>7, AtMostType
<1>9. SeqTypeOK'
  <2>1. /\ episodeIndex' \in Nat /\ episodeStartTime' \in Nat /\ episodeLength' \in Nat
        /\ timeStepIdx' \in Nat /\ time' \in Nat /\ previousTimeStepSize' \in Nat
        BY <1>1, <1>2, <1>3, <1>4, <1>7 DEF SeqTypeOK
  <2>2. /\ outputInterval' \in OutputIntervals /\ series' \in Seq(Nat)
        /\ files' \subseteq RestartFiles /\ solutionTime' \in Nat /\ crashes' \in Nat
        BY <1>1, <1>3 DEF SeqTypeOK
  <2>3. where' \in Places /\ replays' \in BOOLEAN
        BY <1>3 DEF Places
  <2> QED BY <1>8, <2>1, <2>2, <2>3 DEF SeqTypeOK
<1>10. EpisodesOnGrid'
  <2>1. CASE begins
    <3>1. now = episodeStartTime + OutputTimeInterval
          BY <1>1, <1>4, <2>1, TimeManagerAssumption
             DEF EpisodesOnGrid, EpisodeEndTime, EpisodeIsOver, SeqTypeOK
    <3>2. episodeStartTime + OutputTimeInterval = (episodeIndex' - 1) * OutputTimeInterval
          BY <1>1, <1>2, <1>3, <2>1 DEF EpisodesOnGrid, SeqTypeOK
    <3> QED BY <1>2, <1>3, <1>4, <2>1, <3>1, <3>2 DEF EpisodesOnGrid, EpisodeEndTime
  <2>2. CASE ~begins
        BY <1>1, <1>3, <1>4, <2>2 DEF EpisodesOnGrid, EpisodeEndTime, SeqTypeOK
  <2> QED BY <2>1, <2>2
<1>11. StepStaysInside'
      BY <1>3 DEF StepStaysInside
<1>12. SolutionFollowsTime' /\ FilesRestorable' /\ (time <= EndTime)'
      BY <1>1, <1>3, <1>4 DEF SeqInv, SolutionFollowsTime, FilesRestorable
<1> QED BY <1>9, <1>10, <1>11, <1>12 DEF SeqInv

LEMMA StopInv == SeqInv /\ Stop => SeqInv'
<1> SUFFICES ASSUME SeqInv, Stop PROVE SeqInv'
    OBVIOUS
<1> USE DEF SeqInv, Stop, managerVars, stepVars, episodeVars
<1>1. SeqTypeOK'
      BY DEF SeqTypeOK, Places
<1>2. StepStaysInside' /\ EpisodesOnGrid' /\ (time <= EndTime)'
      BY DEF StepStaysInside, EpisodesOnGrid, EpisodeEndTime
<1>3. SolutionFollowsTime' /\ FilesRestorable'
      BY DEF SolutionFollowsTime, FilesRestorable
<1> QED BY <1>1, <1>2, <1>3

LEMMA CrashInv == SeqInv /\ CrashAndRestart => SeqInv'
<1> SUFFICES ASSUME SeqInv, CrashAndRestart PROVE SeqInv'
    OBVIOUS
<1>1. SeqTypeOK /\ FilesRestorable /\ SolutionFollowsTime
      BY DEF SeqInv
<1>2. files' \subseteq files /\ crashes' = crashes + 1
      BY DEF CrashAndRestart, OtherFiles
<1>3. PICK f \in files', dt \in DtInitials : RestartFrom(f, dt)
      BY DEF CrashAndRestart
<1>4. f \in files /\ f \in RestartFiles /\ dt \in Nat
      BY <1>1, <1>2, <1>3, SequentialAssumption DEF SeqTypeOK
<1>5. /\ f.time \in Nat /\ f.timeStepIdx \in Nat /\ f.episodeIndex \in Nat
      /\ f.episodeStartTime \in Nat /\ f.episodeLength \in Nat
      /\ f.series \in Seq(Nat) /\ f.solutionTime \in Nat
      BY <1>4 DEF RestartFiles
<1>6. SeqTypeOK'
      BY <1>1, <1>2, <1>3, <1>4, <1>5 DEF SeqTypeOK, RestartFrom, Places
<1>7. EpisodesOnGrid' /\ (time <= EndTime)'
      BY <1>1, <1>3, <1>4 DEF FilesRestorable, RestartFrom, EpisodesOnGrid, EpisodeEndTime
<1>8. StepStaysInside'
      BY <1>3 DEF StepStaysInside, RestartFrom
<1>9. SolutionFollowsTime' /\ FilesRestorable'
      BY <1>1, <1>2, <1>3, <1>4 DEF SolutionFollowsTime, FilesRestorable, RestartFrom
<1> QED BY <1>6, <1>7, <1>8, <1>9 DEF SeqInv

LEMMA SeqNextInv == SeqInv /\ [SeqNext]_seqVars => SeqInv'
<1> SUFFICES ASSUME SeqInv, [SeqNext]_seqVars PROVE SeqInv'
    OBVIOUS
<1>1. ASSUME NEW dt \in TransportSteps, ChooseStep(dt) PROVE SeqInv'
      BY <1>1, ChooseStepInv
<1>2. ASSUME NEW s \in 0..timeStepSize, Integrate(s) PROVE SeqInv'
      BY <1>2, IntegrateInv
<1>3. CASE WriteOutput
      BY <1>3, WriteOutputInv
<1>4. CASE Serialize
      BY <1>4, SerializeInv
<1>5. CASE Advance
      BY <1>5, AdvanceInv
<1>6. CASE Stop
      BY <1>6, StopInv
<1>7. CASE CrashAndRestart
      BY <1>7, CrashInv
<1>8. CASE UNCHANGED seqVars
      BY <1>8 DEF SeqInv, seqVars, runVars, managerVars, stepVars, episodeVars,
         SeqTypeOK, StepStaysInside, EpisodesOnGrid, SolutionFollowsTime,
         FilesRestorable, EpisodeEndTime, EpisodeIsFinished, EpisodeIsOver
<1> QED BY <1>1, <1>2, <1>3, <1>4, <1>5, <1>6, <1>7, <1>8 DEF SeqNext, SeqStep

(* The invariant of the sequential simulation (the calls of                *)
(* TimeManager::run(), impetproblem.hh, with crashes and restarts).        *)
THEOREM SequentialInvariant == SeqSpec => []SeqInv
<1>1. SeqInit => SeqInv
      BY SeqInitInv
<1>2. SeqInv /\ [SeqNext]_seqVars => SeqInv'
      BY SeqNextInv
<1> QED BY <1>1, <1>2, PTL DEF SeqSpec

(* A step crosses neither the end of the episode nor that of the           *)
(* simulation and is empty at the end of an episode alone                  *)
(* (TimeManager::setTimeStepSize, IMPETProblem::timeIntegration).          *)
THEOREM StepsStayInside == SeqSpec => []StepStaysInside
<1>1. SeqInv => StepStaysInside
      BY DEF SeqInv
<1> QED BY <1>1, SequentialInvariant, PTL

(* The grid of episodes does not drift, across any number of restarts      *)
(* (TimeManager::startNextEpisode, serialize, deserialize).                *)
THEOREM EpisodesStayOnGrid == SeqSpec => []EpisodesOnGrid
<1>1. SeqInv => EpisodesOnGrid
      BY DEF SeqInv
<1> QED BY <1>1, SequentialInvariant, PTL

(* The solution in memory and in every restart file is as old as the time  *)
(* beside it says.                                                         *)
THEOREM SolutionsFollowTime == SeqSpec => []SolutionFollowsTime
<1>1. SeqInv => SolutionFollowsTime
      BY DEF SeqInv
<1> QED BY <1>1, SequentialInvariant, PTL
-----------------------------------------------------------------------------
(* The series s has an output at every end of an episode up to time t. *)
EndsWritten(s, t) ==
    \A e \in 0..t : e % OutputTimeInterval = 0 => \E i \in 1..Len(s) : s[i] = e

(* Output comes before the time advances, so the running process may be a  *)
(* step ahead of its time; a restart file holds the series of its time.    *)
SeriesInv ==
    /\ EndsWritten(series, IF where \in {"serialize", "advance"}
                           THEN time + timeStepSize ELSE time)
    /\ \A f \in files : EndsWritten(f.series, f.time)

(* A multiple of the interval strictly after the begin of an episode and   *)
(* not after its end is its end.                                           *)
LEMMA NoEndInside ==
    ASSUME NEW n \in Nat \ {0}, NEW k \in Nat, NEW t \in Nat,
           t % n = 0, (k - 1) * n < t, t <= (k - 1) * n + n
    PROVE  t = (k - 1) * n + n
<1>1. PICK q \in Nat : t = q * n
  <2>1. t \div n \in Nat
        OBVIOUS
  <2>2. t = (t \div n) * n
        OBVIOUS
  <2> QED BY <2>1, <2>2
<1>2. q > k - 1
  <2>1. SUFFICES ASSUME q <= k - 1 PROVE FALSE
        OBVIOUS
  <2>2. k - 1 \in Nat
        BY <2>1
  <2>3. q * n <= (k - 1) * n
        BY <2>1, <2>2
  <2>4. (k - 1) * n \in Int
        BY <2>2
  <2> QED BY <1>1, <2>3, <2>4
<1>3. q < k + 1
  <2>1. SUFFICES ASSUME q >= k + 1 PROVE FALSE
        OBVIOUS
  <2>2. (k + 1) * n <= q * n
        BY <2>1
  <2>3. (k + 1) * n = (k - 1) * n + n + n /\ (k - 1) * n \in Int
        OBVIOUS
  <2> QED BY <1>1, <2>2, <2>3
<1>4. q = k
      BY <1>2, <1>3
<1>5. (k - 1) * n + n = k * n
      OBVIOUS
<1> QED BY <1>1, <1>4, <1>5

LEMMA EndsWrittenAppend ==
    ASSUME NEW s \in Seq(Nat), NEW t \in Nat, NEW x \in Nat, EndsWritten(s, t)
    PROVE  EndsWritten(Append(s, x), t)
<1> SUFFICES ASSUME NEW e \in 0..t, e % OutputTimeInterval = 0
             PROVE  \E i \in 1..Len(Append(s, x)) : Append(s, x)[i] = e
    BY DEF EndsWritten
<1>1. PICK i \in 1..Len(s) : s[i] = e
      BY DEF EndsWritten
<1>2. Append(s, x)[i] = e /\ i \in 1..Len(Append(s, x))
      BY <1>1
<1> QED BY <1>2

(* Between two outputs only the end of an episode may be due, and there    *)
(* the problem asks for output.                                            *)
LEMMA WriteOutputSeries ==
    ASSUME SeqInv, SeriesInv, WriteOutput
    PROVE  SeriesInv'
<1> DEFINE now == time + timeStepSize
<1>1. /\ where = "output" /\ where' = "serialize"
      /\ time' = time /\ timeStepSize' = timeStepSize /\ files' = files
      /\ series' = IF ShouldWriteOutput THEN Append(series, now) ELSE series
      BY DEF WriteOutput, managerVars, stepVars
<1>2. /\ time \in Nat /\ timeStepSize \in Nat /\ series \in Seq(Nat)
      /\ episodeIndex \in Nat /\ OutputTimeInterval \in Nat \ {0}
      BY SequentialAssumption DEF SeqInv, SeqTypeOK
<1>3. /\ episodeStartTime = (episodeIndex - 1) * OutputTimeInterval
      /\ EpisodeEndTime = (episodeIndex - 1) * OutputTimeInterval + OutputTimeInterval
      /\ episodeStartTime <= time /\ now <= EpisodeEndTime
      BY <1>1 DEF SeqInv, EpisodesOnGrid, StepStaysInside, EpisodeEndTime
<1>4. EndsWritten(series, time)
      BY <1>1 DEF SeriesInv
<1>5. ASSUME NEW e \in 0..now, e % OutputTimeInterval = 0
      PROVE  \E i \in 1..Len(series') : series'[i] = e
  <2>1. CASE e <= time
    <3>2. EndsWritten(series', time)
          BY <1>1, <1>2, <1>4, EndsWrittenAppend
    <3> QED BY <1>2, <1>5, <2>1, <3>2 DEF EndsWritten
  <2>2. CASE e > time
    <3>1. e = EpisodeEndTime
      <4>1. e \in Nat /\ episodeStartTime < e /\ e <= EpisodeEndTime
            BY <1>2, <1>3, <2>2, TimeManagerAssumption DEF SeqInv, SeqTypeOK, EpisodeEndTime
      <4> QED BY <1>2, <1>3, <1>5, <4>1, NoEndInside
    <3>2. e = now
          BY <1>2, <1>3, <3>1 DEF SeqInv, SeqTypeOK, EpisodeEndTime
    <3>3. ShouldWriteOutput
          BY <1>2, <3>1, <3>2 DEF ShouldWriteOutput, EpisodeWillBeFinished, EpisodeIsOver
    <3>4. series' = Append(series, e)
          BY <1>1, <3>2, <3>3
    <3>5. series'[Len(series) + 1] = e /\ Len(series) + 1 \in 1..Len(series')
          BY <1>2, <3>4
    <3> QED BY <3>5
  <2> QED BY <1>2, <2>1, <2>2
<1>6. EndsWritten(series', now)
      BY <1>5 DEF EndsWritten
<1> QED BY <1>1, <1>6 DEF SeriesInv

LEMMA SerializeSeries ==
    ASSUME SeriesInv, Serialize
    PROVE  SeriesInv'
<1>1. /\ where = "serialize" /\ where' = "advance"
      /\ time' = time /\ timeStepSize' = timeStepSize /\ series' = series
      /\ files' \subseteq files \cup {RestartFile}
      BY DEF Serialize, OtherFiles, managerVars, stepVars
<1>2. EndsWritten(series, time + timeStepSize)
      BY <1>1 DEF SeriesInv
<1>3. EndsWritten(RestartFile.series, RestartFile.time)
      BY <1>2 DEF RestartFile, SavedTime
<1> QED BY <1>1, <1>2, <1>3 DEF SeriesInv

LEMMA CrashSeries ==
    ASSUME SeriesInv, CrashAndRestart
    PROVE  SeriesInv'
<1>1. files' \subseteq files
      BY DEF CrashAndRestart, OtherFiles
<1>2. PICK f \in files' : series' = f.series /\ time' = f.time /\ where' = "loop"
      BY DEF CrashAndRestart, RestartFrom
<1> QED BY <1>1, <1>2 DEF SeriesInv

LEMMA SeriesNext ==
    ASSUME SeqInv, SeriesInv, [SeqNext]_seqVars
    PROVE  SeriesInv'
<1>1. ASSUME NEW dt \in TransportSteps, ChooseStep(dt) PROVE SeriesInv'
      BY <1>1 DEF ChooseStep, SeriesInv
<1>2. ASSUME NEW s \in 0..timeStepSize, Integrate(s) PROVE SeriesInv'
      BY <1>2 DEF Integrate, EndIntegration, SeriesInv
<1>3. CASE Advance
      BY <1>3 DEF Advance, AdvanceTime, SeriesInv
<1>4. CASE Stop
      BY <1>4 DEF Stop, SeriesInv, managerVars, stepVars
<1>5. CASE UNCHANGED seqVars
      BY <1>5 DEF seqVars, runVars, managerVars, stepVars, SeriesInv
<1> QED BY <1>1, <1>2, <1>3, <1>4, <1>5, WriteOutputSeries, SerializeSeries, CrashSeries
        DEF SeqNext, SeqStep

(* No end of an episode is missing from the output, after any number of    *)
(* crashes and whichever file was continued from: a restart drops the      *)
(* outputs after its file, and the loop writes them again                  *)
(* (IMPETProblem::shouldWriteOutput, serialize, TimeManager::run).         *)
THEOREM EndsOfEpisodesWritten == SeqSpec => []EpisodeEndsWritten
<1>1. SeqInit => SeqInv /\ SeriesInv
  <2> SUFFICES ASSUME SeqInit PROVE SeqInv /\ SeriesInv
      OBVIOUS
  <2>1. series = <<0>> /\ time = 0 /\ files = {} /\ where = "loop"
        BY DEF SeqInit
  <2> QED BY <2>1, SeqInitInv DEF SeriesInv, EndsWritten
<1>2. SeqInv /\ SeriesInv /\ [SeqNext]_seqVars => SeqInv' /\ SeriesInv'
      BY SeqNextInv, SeriesNext
<1>3. SeqInv /\ SeriesInv => EpisodeEndsWritten
  <2> SUFFICES ASSUME SeqInv, SeriesInv, NEW t \in 0..time, t % OutputTimeInterval = 0
               PROVE  \E i \in 1..Len(series) : series[i] = t
      BY DEF EpisodeEndsWritten
  <2>1. time \in Nat /\ timeStepSize \in Nat
        BY DEF SeqInv, SeqTypeOK
  <2>2. t \in 0..IF where \in {"serialize", "advance"} THEN time + timeStepSize ELSE time
        BY <2>1
  <2> QED BY <2>2 DEF SeriesInv, EndsWritten
<1> QED BY <1>1, <1>2, <1>3, PTL DEF SeqSpec
-----------------------------------------------------------------------------
(* Only the first step after a restart starts at the end of an episode.    *)
StepsAhead ==
    replays \/ where = "done" \/ time < EpisodeEndTime \/ (where = "loop" /\ time >= EndTime)

LEMMA AdvanceAhead ==
    ASSUME SeqInv, Advance
    PROVE  StepsAhead'
<1> DEFINE now == time + timeStepSize
<1>1. /\ time' = now /\ where' = "loop"
      /\ episodeStartTime' = IF EpisodeIsOver(now) /\ now < EndTime THEN now
                             ELSE episodeStartTime
      /\ episodeLength' = IF EpisodeIsOver(now) /\ now < EndTime THEN OutputTimeInterval
                          ELSE episodeLength
      BY SequentialAssumption DEF Advance, AdvanceTime
<1>2. /\ now \in Nat /\ EpisodeEndTime \in Nat /\ EndTime \in Nat
      /\ OutputTimeInterval \in Nat /\ OutputTimeInterval > 0
      BY TimeManagerAssumption, SequentialAssumption DEF SeqInv, SeqTypeOK, EpisodeEndTime
<1>3. CASE EpisodeIsOver(now) /\ now < EndTime
      BY <1>1, <1>2, <1>3 DEF StepsAhead, EpisodeEndTime
<1>4. CASE ~EpisodeIsOver(now) \/ ~(now < EndTime)
      BY <1>1, <1>2, <1>4 DEF StepsAhead, EpisodeEndTime, EpisodeIsOver
<1> QED BY <1>3, <1>4

LEMMA AheadNext ==
    ASSUME SeqInv, StepsAhead, [SeqNext]_seqVars
    PROVE  StepsAhead'
<1>1. ASSUME NEW dt \in TransportSteps, ChooseStep(dt) PROVE StepsAhead'
  <2>1. /\ where = "loop" /\ time < EndTime
        BY <1>1, TimeManagerAssumption DEF ChooseStep, Finished, SeqInv, SeqTypeOK
  <2>2. time \in Nat /\ EndTime \in Nat
        BY TimeManagerAssumption DEF SeqInv, SeqTypeOK
  <2> QED BY <1>1, <2>1, <2>2 DEF ChooseStep, StepsAhead, EpisodeEndTime, episodeVars
<1>2. ASSUME NEW s \in 0..timeStepSize, Integrate(s) PROVE StepsAhead'
      BY <1>2 DEF Integrate, EndIntegration, StepsAhead, EpisodeEndTime, episodeVars
<1>3. CASE WriteOutput \/ Serialize \/ Stop
      BY <1>3 DEF WriteOutput, Serialize, Stop, StepsAhead, EpisodeEndTime, managerVars,
         stepVars, episodeVars
<1>4. CASE CrashAndRestart
      BY <1>4 DEF CrashAndRestart, RestartFrom, StepsAhead
<1>5. CASE UNCHANGED seqVars
      BY <1>5 DEF seqVars, runVars, managerVars, stepVars, episodeVars, StepsAhead,
         EpisodeEndTime
<1> QED BY <1>1, <1>2, <1>3, <1>4, <1>5, AdvanceAhead DEF SeqNext, SeqStep

(* The loop never turns on the spot: a step is empty only if it is the     *)
(* first after a restart from the end of an episode                        *)
(* (TimeManager::run, startNextEpisode and deserialize).                   *)
THEOREM EmptyStepsAreFirst == SeqSpec => EmptyStepOnlyFirst
<1>1. SeqInit => SeqInv /\ StepsAhead
  <2> SUFFICES ASSUME SeqInit PROVE SeqInv /\ StepsAhead
      OBVIOUS
  <2>1. OutputTimeInterval \in Nat /\ OutputTimeInterval > 0
        BY SequentialAssumption
  <2> QED BY <2>1, SeqInitInv DEF SeqInit, StepsAhead, EpisodeEndTime
<1>2. SeqInv /\ StepsAhead /\ [SeqNext]_seqVars => SeqInv' /\ StepsAhead'
      BY SeqNextInv, AheadNext
<1>3. SeqInv /\ StepsAhead => (Advance /\ timeStepSize = 0 => replays /\ EpisodeIsFinished)
  <2> SUFFICES ASSUME SeqInv, StepsAhead, Advance, timeStepSize = 0
               PROVE  replays /\ EpisodeIsFinished
      OBVIOUS
  <2>1. where = "advance"
        BY DEF Advance
  <2>2. EpisodeIsFinished
        BY <2>1 DEF SeqInv, StepStaysInside
  <2>3. time \in Nat /\ EpisodeEndTime \in Nat
        BY DEF SeqInv, SeqTypeOK, EpisodeEndTime
  <2> QED BY <2>1, <2>2, <2>3 DEF StepsAhead, EpisodeIsFinished, EpisodeIsOver
<1> QED BY <1>1, <1>2, <1>3, PTL DEF SeqSpec, EmptyStepOnlyFirst
-----------------------------------------------------------------------------
(* What the integration keeps true between two passes of innerUpdate. *)
PassesFollow ==
    /\ where # "transport" => accumulatedDt = 0
    /\ accumulatedDt = 0 => accumulatedDtOld = 0
    /\ where = "transport" =>
          /\ timeStepSize <= MaxStep(time, EpisodeEndTime)
          /\ integrated[Min(Cells)] = accumulatedDtOld
          /\ ~leftRange => \A c \in Cells : integrated[c] = accumulatedDtOld
    /\ accumulatedDt > 0 => subDt = accumulatedDt - accumulatedDtOld
    /\ accumulatedDtOld > 0 => accumulatedDtOld < timeStepSize

LocalInv ==
    /\ SeqInv
    /\ LtsTypeOK
    /\ SidesAgree
    /\ PassesFollow
    /\ CellsFollowStep
-----------------------------------------------------------------------------
LEMMA MinNat ==
    ASSUME NEW S \in SUBSET Nat, S # {}
    PROVE  Min(S) \in S /\ \A y \in S : Min(S) <= y
<1>1. \E x \in S : \A y \in S : ~(<<y, x>> \in OpToRel(<, Nat))
      BY NatLessThanWellFounded, WFMin, Zenon
<1>2. PICK x \in S : \A y \in S : ~(<<y, x>> \in OpToRel(<, Nat))
      BY <1>1
<1>3. OpToRel(<, Nat) = {ss \in Nat \X Nat : ss[1] < ss[2]}
      BY Zenon DEF OpToRel
<1> DEFINE less == {ss \in Nat \X Nat : ss[1] < ss[2]}
<1>4. \A y \in S : <<y, x>> \notin less
      BY <1>2, <1>3, Zenon
<1>5. \A y \in S : x <= y
  <2> SUFFICES ASSUME NEW y \in S, ~(x <= y) PROVE FALSE
      OBVIOUS
  <2>1. x \in Nat /\ y \in Nat
        OBVIOUS
  <2>2. y < x
        BY <2>1
  <2>3. <<y, x>> \in less
        BY <2>1, <2>2
  <2> QED BY <1>4, <2>3
<1> QED BY <1>5 DEF Min

LEMMA CellsBounds ==
    /\ Min(Cells) \in Cells /\ Max(Cells) \in Cells
    /\ \A c \in Cells : c \in Nat /\ Min(Cells) <= c /\ c <= Max(Cells)
<1>1. PICK m \in Cells : \A c \in Cells : c <= m
      BY LocalTimeSteppingAssumption
<1>2. Cells \in SUBSET Nat /\ Cells # {}
      BY <1>1, LocalTimeSteppingAssumption
<1>3. Min(Cells) \in Cells /\ \A c \in Cells : Min(Cells) <= c
      BY <1>2, MinNat
<1>4. \A c \in Cells : m >= c
      BY <1>1, <1>2
<1>5. Max(Cells) \in Cells /\ \A c \in Cells : Max(Cells) >= c
      BY <1>1, <1>4 DEF Max
<1> QED BY <1>2, <1>3, <1>5

LEMMA ScaledType ==
    ASSUME NEW factor \in Nat, NEW dt \in Nat
    PROVE  Scaled(factor, dt) \in Nat
<1>1. factor * dt \in Nat /\ FactorUnit \in Nat \ {0}
      BY LocalTimeSteppingAssumption
<1>2. PICK n \in Nat : n = factor * dt
      BY <1>1
<1>3. n \div FactorUnit \in Nat
      BY <1>1
<1> QED BY <1>2, <1>3 DEF Scaled

(* A factor of at most one does not lengthen a step. *)
LEMMA ScaledBounds ==
    ASSUME SubCflFactor <= FactorUnit, NEW dt \in Nat
    PROVE  Scaled(SubCflFactor, dt) <= dt
<1>1. FactorUnit \in Nat \ {0} /\ SubCflFactor \in Nat
      BY LocalTimeSteppingAssumption
<1>2. PICK n \in Nat : n = SubCflFactor * dt
      BY <1>1
<1>3. n <= FactorUnit * dt
  <2>1. PICK d \in Nat : FactorUnit = SubCflFactor + d
    <3>1. FactorUnit = SubCflFactor + (FactorUnit - SubCflFactor)
          /\ FactorUnit - SubCflFactor \in Nat
          BY <1>1
    <3> QED BY <3>1
  <2>2. FactorUnit * dt = n + d * dt /\ d * dt \in Nat
        BY <1>1, <1>2, <2>1
  <2> QED BY <2>2
<1>4. PICK q \in Nat : q = n \div FactorUnit
      BY <1>1
<1>5. FactorUnit * q <= n
      BY <1>1, <1>4
<1>6. q <= dt
  <2> SUFFICES ASSUME ~(q <= dt) PROVE FALSE
      OBVIOUS
  <2>1. PICK e \in Nat : q = dt + 1 + e
    <3>1. q = dt + 1 + (q - dt - 1) /\ q - dt - 1 \in Nat
          OBVIOUS
    <3> QED BY <3>1
  <2>2. FactorUnit * q = FactorUnit * dt + FactorUnit + FactorUnit * e
        /\ FactorUnit * e \in Nat /\ FactorUnit * dt \in Nat
        BY <1>1, <2>1
  <2> QED BY <1>1, <1>3, <1>5, <2>2
<1> QED BY <1>2, <1>4, <1>6 DEF Scaled

LEMMA FaceStepType ==
    ASSUME NEW dts \in [Cells -> Nat], NEW f \in Faces
    PROVE  FaceStep(f, dts) \in Nat /\ Scaled(SubCflFactor, FaceStep(f, dts)) \in Nat
<1>1. CellsOf[f] \subseteq Cells /\ CellsOf[f] # {}
  <2>1. Cardinality({}) = 0
        BY FS_EmptySet
  <2>2. CellsOf[f] \subseteq Cells /\ Cardinality(CellsOf[f]) \in {1, 2}
        BY LocalTimeSteppingAssumption
  <2> QED BY <2>1, <2>2
<1>2. {dts[c] : c \in CellsOf[f]} \in SUBSET Nat /\ {dts[c] : c \in CellsOf[f]} # {}
      BY <1>1
<1>3. FaceStep(f, dts) \in Nat
      BY <1>2, MinNat DEF FaceStep
<1> QED BY <1>3, ScaledType, LocalTimeSteppingAssumption

(* The sub-step is a number, whichever faces are due. *)
LEMMA LeastSubStepType ==
    ASSUME NEW acc \in Nat, NEW dts \in [Cells -> Nat]
    PROVE  LeastSubStep(acc, dts) \in Nat
<1>1. \A f \in Faces : SubStepOf(f, dts) \in Nat
      BY FaceStepType DEF SubStepOf
<1> DEFINE S == {MaxScalar} \cup {SubStepOf(f, dts) : f \in {g \in Faces : FaceIsDue(g, acc)}}
<1>2. S \in SUBSET Nat /\ S # {}
      BY <1>1, LocalTimeSteppingAssumption
<1> HIDE DEF S
<1>3. Min(S) \in Nat
      BY <1>2, MinNat
<1> QED BY <1>3 DEF S, LeastSubStep

LEMMA NewTargetsType ==
    ASSUME LtsTypeOK, NEW acc \in Nat, NEW dts \in [Cells -> Nat]
    PROVE  NewTargets(acc, dts) \in [Sides -> Nat]
<1>1. ASSUME NEW s \in Sides
      PROVE  faceTargetDt[s] \in Nat /\ Scaled(SubCflFactor, FaceStep(s[2], dts)) \in Nat
      BY FaceStepType DEF LtsTypeOK, Sides
<1> QED BY <1>1 DEF NewTargets

(* Fluxes are renewed by the target of the own side, targets by the face:  *)
(* where the sides agree, both do the same.                                *)
LEMMA AgreeStep ==
    ASSUME SidesAgree,
           \/ faceFluxes' = faceFluxes
           \/ \E acc, n : faceFluxes' = NewFluxes(acc, n),
           \/ faceTargetDt' = faceTargetDt
           \/ \E acc, dts : faceTargetDt' = NewTargets(acc, dts)
    PROVE  SidesAgree'
<1> SUFFICES ASSUME NEW s \in Sides, NEW r \in Sides, s[2] = r[2]
             PROVE  faceFluxes'[s] = faceFluxes'[r] /\ faceTargetDt'[s] = faceTargetDt'[r]
    BY DEF SidesAgree
<1>1. faceFluxes[s] = faceFluxes[r] /\ faceTargetDt[s] = faceTargetDt[r]
      BY DEF SidesAgree
<1>2. faceFluxes'[s] = faceFluxes'[r]
      BY <1>1 DEF NewFluxes, SideIsDue
<1>3. faceTargetDt'[s] = faceTargetDt'[r]
      BY <1>1 DEF NewTargets
<1> QED BY <1>2, <1>3

LEMMA ResetAgrees == ResetTimeStepData => SidesAgree'
BY DEF ResetTimeStepData, NoTargets, SidesAgree
-----------------------------------------------------------------------------
LEMMA LocalInitInv == LtsInit => LocalInv
<1> SUFFICES ASSUME LtsInit PROVE LocalInv
    OBVIOUS
<1>1. SeqInv
      BY SeqInitInv DEF LtsInit
<1>2. LtsTypeOK /\ SidesAgree
      BY DEF LtsInit, LtsTypeOK, SidesAgree, NoTargets, NoSteps
<1>3. where = "loop"
      BY DEF LtsInit, SeqInit
<1> QED BY <1>1, <1>2, <1>3 DEF LocalInv, PassesFollow, CellsFollowStep, LtsInit

(* The step chosen is a proposal the abstract transport may make. *)
LEMMA ChooseStepMaps ==
    ASSUME LocalInv, NEW dts \in LocalSteps, LtsChooseStep(dts)
    PROVE  SeqNext /\ LocalInv'
<1> DEFINE proposed == Scaled(CflFactor, Min({dts[c] : c \in Cells}))
<1>1. proposed \in TransportSteps
  <2>1. {dts[c] : c \in Cells} \in SUBSET Nat /\ {dts[c] : c \in Cells} # {}
        BY CellsBounds, LocalTimeSteppingAssumption DEF LocalSteps
  <2>2. Min({dts[c] : c \in Cells}) \in {dts[c] : c \in Cells}
        BY <2>1, MinNat
  <2>3. Min({dts[c] : c \in Cells}) \in CellSteps
        BY <2>2 DEF LocalSteps
  <2> QED BY <2>3, LocalTimeSteppingAssumption
<1>2. ChooseStep(proposed)
      BY DEF LtsChooseStep
<1> HIDE DEF proposed
<1>3. SeqNext
      BY <1>1, <1>2 DEF SeqNext, SeqStep
<1>4. SeqInv /\ SeqInv'
      BY <1>3, SeqNextInv DEF LocalInv
<1>5. where = "loop" /\ where' = "transport" /\ time' = time
      /\ EpisodeEndTime' = EpisodeEndTime
      /\ timeStepSize' = AtMost(NotAboveInitial(WithinEpisode(NearLastStep(proposed))),
                                MaxStep(time, EpisodeEndTime))
      BY <1>2 DEF ChooseStep, SetTimeStepSize, EpisodeEndTime, episodeVars
<1>6. timeStepSize' <= MaxStep(time, EpisodeEndTime)
  <2>1. time \in Nat /\ EpisodeEndTime \in Nat /\ time <= EpisodeEndTime /\ time <= EndTime
        BY <1>4 DEF SeqInv, SeqTypeOK, EpisodesOnGrid, EpisodeEndTime
  <2>2. MaxStep(time, EpisodeEndTime) \in Nat
        BY <2>1, MaxStepBounds
  <2>3. NotAboveInitial(WithinEpisode(NearLastStep(proposed))) \in Nat
        BY <1>1, <1>4, ProposedStepPositive DEF SeqInv
  <2> QED BY <1>5, <2>2, <2>3, AtMostType
<1>7. /\ accumulatedDt = 0 /\ accumulatedDtOld = 0
      /\ accumulatedDt' = 0 /\ accumulatedDtOld' = 0
      BY <1>5 DEF LocalInv, PassesFollow, LtsChooseStep
<1>8. LtsTypeOK'
  <2>1. dts \in [Cells -> Nat]
        BY LocalTimeSteppingAssumption DEF LocalSteps
  <2>2. NewFluxes(0, 1) \in [Sides -> Nat]
        BY DEF NewFluxes, LocalInv, LtsTypeOK
  <2>3. LtsTypeOK
        BY DEF LocalInv
  <2>4. faceFluxes' \in [Sides -> Nat] /\ localDt' \in [Cells -> Nat] /\ updates' \in Nat
        BY <2>1, <2>2, <2>3 DEF LtsChooseStep, LtsTypeOK
  <2>5. /\ faceTargetDt' \in [Sides -> Nat] /\ localTimeStepping' \in BOOLEAN
        /\ accumulatedDt' \in Nat /\ accumulatedDtOld' \in Nat /\ subDt' \in Nat
        BY <2>3 DEF LtsChooseStep, LtsTypeOK
  <2>6. integrated' \in [Cells -> Nat] /\ leftRange' \in BOOLEAN
        BY DEF LtsChooseStep, NoSteps
  <2> QED BY <2>4, <2>5, <2>6 DEF LtsTypeOK
<1>9. SidesAgree'
      BY AgreeStep DEF LocalInv, LtsChooseStep
<1>10. PassesFollow'
  <2>1. MaxStep(time', EpisodeEndTime') = MaxStep(time, EpisodeEndTime)
        BY <1>5 DEF MaxStep, EpisodeMaxStep
  <2>2. integrated'[Min(Cells)] = 0 /\ \A c \in Cells : integrated'[c] = 0
        BY CellsBounds DEF LtsChooseStep, NoSteps
  <2>3. (where = "transport")' /\ (timeStepSize <= MaxStep(time, EpisodeEndTime))'
        BY <1>5, <1>6, <2>1
  <2> QED BY <1>7, <2>2, <2>3 DEF PassesFollow
<1>11. CellsFollowStep'
      BY <1>5 DEF CellsFollowStep
<1> QED BY <1>3, <1>4, <1>8, <1>9, <1>10, <1>11 DEF LocalInv

LEMMA InnerBeginMaps ==
    ASSUME LocalInv, InnerBegin
    PROVE  UNCHANGED seqVars /\ LocalInv'
<1>1. /\ UNCHANGED seqVars /\ where = "transport" /\ accumulatedDt = 0 /\ accumulatedDtOld = 0
      /\ UNCHANGED <<localTimeStepping, faceFluxes, localDt, updates, integrated, leftRange>>
      BY DEF InnerBegin, ghostVars, LocalInv, PassesFollow
<1>2. SeqInv'
      BY <1>1, SeqNextInv DEF LocalInv
<1>3. LtsTypeOK /\ SidesAgree /\ PassesFollow
      BY DEF LocalInv
<1>4. /\ faceTargetDt' = NewTargets(0, localDt)
      /\ subDt' = LeastSubStep(0, localDt) /\ accumulatedDtOld' = 0
      /\ accumulatedDt' = 0 + LeastSubStep(0, localDt)
      BY DEF InnerBegin, UpdatedTargetDt
<1>5. LeastSubStep(0, localDt) \in Nat /\ NewTargets(0, localDt) \in [Sides -> Nat]
      BY <1>3, LeastSubStepType, NewTargetsType DEF LtsTypeOK
<1>6. LtsTypeOK'
      BY <1>1, <1>3, <1>4, <1>5 DEF LtsTypeOK
<1>7. SidesAgree'
      BY <1>1, <1>3, <1>4, AgreeStep
<1>8. /\ where' = where /\ timeStepSize' = timeStepSize /\ time' = time
      /\ EpisodeEndTime' = EpisodeEndTime
      /\ MaxStep(time', EpisodeEndTime') = MaxStep(time, EpisodeEndTime)
      BY <1>1 DEF seqVars, managerVars, stepVars, episodeVars, runVars, EpisodeEndTime,
         MaxStep, EpisodeMaxStep
<1>9. PassesFollow'
  <2>1. (where = "transport" =>
            /\ timeStepSize <= MaxStep(time, EpisodeEndTime)
            /\ integrated[Min(Cells)] = accumulatedDtOld
            /\ ~leftRange => \A c \in Cells : integrated[c] = accumulatedDtOld)'
        BY <1>1, <1>3, <1>4, <1>8 DEF PassesFollow
  <2> QED BY <1>1, <1>4, <1>5, <1>8, <2>1 DEF PassesFollow
<1>10. CellsFollowStep'
      BY <1>1, <1>8 DEF CellsFollowStep
<1> QED BY <1>1, <1>2, <1>6, <1>7, <1>9, <1>10 DEF LocalInv

(* A pass that is followed by another: the accumulated time grows by it. *)
LEMMA SubStepMaps ==
    ASSUME SubCflFactor <= FactorUnit, LocalInv, SomeFaceIsDue,
           NEW c \in Cells, NEW dts \in LocalSteps, SubStep(c, dts)
    PROVE  UNCHANGED seqVars /\ LocalInv'
<1>1. /\ UNCHANGED seqVars /\ where = "transport" /\ accumulatedDt > 0
      /\ accumulatedDt < timeStepSize /\ UNCHANGED localTimeStepping
      /\ faceFluxes' = NewFluxes(accumulatedDt, updates + 1)
      /\ localDt' = dts /\ updates' = updates + 1
      BY DEF SubStep, InLoop
<1>2. SeqInv' /\ SeqInv
      BY <1>1, SeqNextInv DEF LocalInv
<1>3. LtsTypeOK /\ SidesAgree /\ PassesFollow
      BY DEF LocalInv
<1>4. /\ faceTargetDt' = NewTargets(accumulatedDt, dts)
      /\ subDt' = LeastSubStep(accumulatedDt, dts) /\ accumulatedDtOld' = accumulatedDt
      /\ accumulatedDt' = accumulatedDt + LeastSubStep(accumulatedDt, dts)
      BY DEF SubStep, UpdatedTargetDt
<1>5. dts \in [Cells -> Nat]
      BY LocalTimeSteppingAssumption DEF LocalSteps
<1>6. /\ LeastSubStep(accumulatedDt, dts) \in Nat
      /\ NewTargets(accumulatedDt, dts) \in [Sides -> Nat]
      BY <1>3, <1>5, LeastSubStepType, NewTargetsType DEF LtsTypeOK
<1>7. timeStepSize \in Nat /\ accumulatedDt \in Nat /\ accumulatedDtOld \in Nat /\ subDt \in Nat
      BY <1>2, <1>3 DEF SeqInv, SeqTypeOK, LtsTypeOK
<1>8. CorrectedSubDt = subDt /\ accumulatedDtOld + subDt = accumulatedDt
  <2>1. subDt # MaxScalar
        BY <1>1, <1>7, LocalTimeSteppingAssumption DEF SomeFaceIsDue
  <2> QED BY <1>1, <1>3, <1>7, <2>1 DEF CorrectedSubDt, AtMost, PassesFollow
<1>9. /\ integrated' = [d \in Cells |-> integrated[d] + IF d <= c THEN subDt ELSE 0]
      /\ leftRange' = (leftRange \/ c # Max(Cells))
      BY <1>8 DEF SubStep, SetTransportedQuantity
<1>10. LtsTypeOK'
  <2>1. NewFluxes(accumulatedDt, updates + 1) \in [Sides -> Nat] /\ updates' \in Nat
        BY <1>1, <1>3 DEF NewFluxes, LtsTypeOK
  <2>2. integrated' \in [Cells -> Nat] /\ leftRange' \in BOOLEAN
        BY <1>3, <1>7, <1>9 DEF LtsTypeOK
  <2>3. accumulatedDt' \in Nat /\ accumulatedDtOld' \in Nat /\ subDt' \in Nat
        BY <1>4, <1>6, <1>7
  <2> QED BY <1>1, <1>3, <1>4, <1>5, <1>6, <2>1, <2>2, <2>3 DEF LtsTypeOK
<1>11. SidesAgree'
      BY <1>1, <1>3, <1>4, AgreeStep
<1>12. /\ where' = where /\ timeStepSize' = timeStepSize
       /\ MaxStep(time', EpisodeEndTime') = MaxStep(time, EpisodeEndTime)
      BY <1>1 DEF seqVars, managerVars, stepVars, episodeVars, runVars, EpisodeEndTime,
         MaxStep, EpisodeMaxStep
<1>13. integrated'[Min(Cells)] = accumulatedDtOld'
  <2>1. integrated[Min(Cells)] = accumulatedDtOld /\ Min(Cells) \in Cells /\ Min(Cells) <= c
        BY <1>1, <1>3, CellsBounds DEF PassesFollow
  <2> QED BY <1>4, <1>8, <1>9, <2>1
<1>14. ASSUME ~leftRange', NEW d \in Cells PROVE integrated'[d] = accumulatedDtOld'
  <2>1. ~leftRange /\ c = Max(Cells)
        BY <1>9, <1>14
  <2>2. integrated[d] = accumulatedDtOld /\ d <= c
        BY <1>1, <1>3, <2>1, CellsBounds DEF PassesFollow
  <2> QED BY <1>4, <1>8, <1>9, <2>2
<1>15. PassesFollow'
  <2>1. (accumulatedDt > 0)'
        BY <1>1, <1>4, <1>6, <1>7
  <2>2. (subDt = accumulatedDt - accumulatedDtOld)' /\ (accumulatedDtOld < timeStepSize)'
        BY <1>1, <1>4, <1>6, <1>7, <1>12
  <2>3. (timeStepSize <= MaxStep(time, EpisodeEndTime))'
        BY <1>1, <1>3, <1>12 DEF PassesFollow
  <2>4. accumulatedDt' # 0
        BY <2>1
  <2> QED BY <1>1, <1>12, <1>13, <1>14, <2>1, <2>2, <2>3, <2>4 DEF PassesFollow
<1>16. CellsFollowStep'
      BY <1>1, <1>12 DEF CellsFollowStep
<1> QED BY <1>1, <1>2, <1>10, <1>11, <1>15, <1>16 DEF LocalInv
-----------------------------------------------------------------------------
(* The end of the integration: what the first cell was integrated over is  *)
(* at most the step, and it is the step from then on.                      *)
LEMMA FinishMaps ==
    ASSUME LocalInv, where = "transport", NEW s \in Nat,
           s <= timeStepSize, s = 0 => timeStepSize = 0,
           Finish(s),
           integrated' \in [Cells -> Nat], leftRange' \in BOOLEAN,
           integrated'[Min(Cells)] = s,
           ~leftRange' => \A c \in Cells : integrated'[c] = s
    PROVE  SeqNext /\ LocalInv'
<1>1. timeStepSize \in Nat
      BY DEF LocalInv, SeqInv, SeqTypeOK
<1>2. EndIntegration(s, s)
      BY DEF Finish
<1>3. Integrate(s) /\ s \in 0..timeStepSize
      BY <1>1, <1>2 DEF Integrate
<1>4. SeqNext
      BY <1>3 DEF SeqNext, SeqStep
<1>5. SeqInv'
      BY <1>4, SeqNextInv DEF LocalInv
<1>6. where' = "output" /\ timeStepSize' = s
      BY <1>2 DEF EndIntegration
<1>7. ResetTimeStepData /\ UNCHANGED localTimeStepping
      BY DEF Finish
<1>8. LtsTypeOK'
      BY <1>7 DEF LtsTypeOK, ResetTimeStepData, NoTargets, NoSteps, LocalInv
<1>9. SidesAgree'
      BY <1>7, ResetAgrees
<1>10. PassesFollow'
      BY <1>6, <1>7 DEF PassesFollow, ResetTimeStepData
<1>11. CellsFollowStep'
      BY <1>6 DEF CellsFollowStep
<1> QED BY <1>4, <1>5, <1>8, <1>9, <1>10, <1>11 DEF LocalInv

LEMMA WholeStepMaps ==
    ASSUME LocalInv, WholeStep
    PROVE  SeqNext /\ LocalInv'
<1>1. timeStepSize \in Nat /\ LtsTypeOK
      BY DEF LocalInv, SeqInv, SeqTypeOK
<1>2. /\ integrated' = [c \in Cells |-> timeStepSize] /\ leftRange' = leftRange
      /\ Finish(timeStepSize) /\ where = "transport"
      BY DEF WholeStep, Finish, EndIntegration
<1>3. integrated' \in [Cells -> Nat] /\ leftRange' \in BOOLEAN
      BY <1>1, <1>2 DEF LtsTypeOK
<1>4. integrated'[Min(Cells)] = timeStepSize /\ \A c \in Cells : integrated'[c] = timeStepSize
      BY <1>2, CellsBounds
<1> QED BY <1>1, <1>2, <1>3, <1>4, FinishMaps

LEMMA LastSubStepMaps ==
    ASSUME SubCflFactor <= FactorUnit, LocalInv, SomeFaceIsDue, LastSubStep
    PROVE  SeqNext /\ LocalInv'
<1>1. LtsTypeOK /\ PassesFollow /\ timeStepSize \in Nat
      BY DEF LocalInv, SeqInv, SeqTypeOK
<1>2. /\ where = "transport" /\ accumulatedDt > 0 /\ accumulatedDt >= timeStepSize
      /\ Finish(timeStepSize) /\ accumulatedDtOld # 0
      BY <1>1 DEF LastSubStep, InLoop, FirstPass, LtsTypeOK
<1>3. accumulatedDt \in Nat /\ accumulatedDtOld \in Nat /\ subDt \in Nat
      BY <1>1 DEF LtsTypeOK
<1>4. accumulatedDtOld + CorrectedSubDt = timeStepSize /\ CorrectedSubDt \in Nat
  <2>1. subDt # MaxScalar
        BY <1>2, <1>3, LocalTimeSteppingAssumption DEF SomeFaceIsDue
  <2> QED BY <1>1, <1>2, <1>3, <2>1 DEF CorrectedSubDt, AtMost, PassesFollow
<1>5. /\ integrated' = [d \in Cells |->
                integrated[d] + IF d <= Max(Cells) THEN CorrectedSubDt ELSE 0]
      /\ leftRange' = leftRange
      BY <1>1 DEF LastSubStep, SetTransportedQuantity, LtsTypeOK
<1>6. integrated' \in [Cells -> Nat] /\ leftRange' \in BOOLEAN
      BY <1>1, <1>4, <1>5 DEF LtsTypeOK
<1>7. integrated'[Min(Cells)] = timeStepSize
      BY <1>1, <1>2, <1>4, <1>5, CellsBounds DEF PassesFollow
<1>8. ~leftRange' => \A c \in Cells : integrated'[c] = timeStepSize
      BY <1>1, <1>2, <1>4, <1>5, CellsBounds DEF PassesFollow
<1> QED BY <1>1, <1>2, <1>6, <1>7, <1>8, FinishMaps

(* The time kept is less than the step and therefore not cut again. *)
LEMMA StopTimeStepMaps ==
    ASSUME LocalInv, StopTimeStep
    PROVE  SeqNext /\ LocalInv'
<1>1. LtsTypeOK /\ PassesFollow /\ timeStepSize \in Nat
      BY DEF LocalInv, SeqInv, SeqTypeOK
<1>2. /\ where = "transport" /\ accumulatedDt > 0 /\ accumulatedDtOld # 0
      /\ Finish(KeptStep) /\ integrated' = integrated /\ leftRange' = leftRange
      BY DEF StopTimeStep, InLoop, FirstPass, ghostVars
<1>3. accumulatedDtOld \in Nat /\ accumulatedDtOld < timeStepSize
      BY <1>1, <1>2 DEF LtsTypeOK, PassesFollow
<1>4. MaxStep(time, EpisodeEndTime) \in Nat
  <2>1. time \in Nat /\ EpisodeEndTime \in Nat /\ time <= EpisodeEndTime /\ time <= EndTime
        BY DEF LocalInv, SeqInv, SeqTypeOK, EpisodesOnGrid, EpisodeEndTime
  <2> QED BY <2>1, MaxStepBounds
<1>5. KeptStep = accumulatedDtOld
      BY <1>1, <1>2, <1>3, <1>4 DEF KeptStep, AtMost, PassesFollow
<1>6. /\ integrated' \in [Cells -> Nat] /\ leftRange' \in BOOLEAN
      /\ integrated'[Min(Cells)] = accumulatedDtOld
      /\ ~leftRange' => \A c \in Cells : integrated'[c] = accumulatedDtOld
      BY <1>1, <1>2 DEF LtsTypeOK, PassesFollow
<1> QED BY <1>1, <1>2, <1>3, <1>5, <1>6, FinishMaps
-----------------------------------------------------------------------------
(* The rest of the loop of run() leaves the transport alone. *)
LEMMA OtherStepMaps ==
    ASSUME LocalInv, WriteOutput \/ Serialize \/ Advance \/ Stop,
           UNCHANGED <<localTimeStepping, localVars, ghostVars>>
    PROVE  SeqNext /\ LocalInv'
<1>1. SeqNext
      BY DEF SeqNext, SeqStep
<1>2. SeqInv'
      BY <1>1, SeqNextInv DEF LocalInv
<1>3. LtsTypeOK' /\ SidesAgree'
      BY DEF LocalInv, LtsTypeOK, SidesAgree, localVars, ghostVars
<1>4. /\ where # "transport" /\ where' # "transport"
      /\ where' \in {"output", "serialize", "advance"} =>
            where \in {"output", "serialize", "advance"} /\ timeStepSize' = timeStepSize
      BY DEF WriteOutput, Serialize, Advance, Stop, managerVars, stepVars
<1>5. PassesFollow'
  <2>1. accumulatedDt = 0 /\ accumulatedDtOld = 0
        BY <1>4 DEF LocalInv, PassesFollow
  <2> QED BY <1>4, <2>1 DEF PassesFollow, localVars
<1>6. CellsFollowStep'
      BY <1>4 DEF LocalInv, CellsFollowStep, ghostVars
<1> QED BY <1>1, <1>2, <1>3, <1>5, <1>6 DEF LocalInv

LEMMA CrashMaps ==
    ASSUME LocalInv, LtsCrash
    PROVE  SeqNext /\ LocalInv'
<1>1. SeqNext
      BY DEF LtsCrash, SeqNext
<1>2. SeqInv'
      BY <1>1, SeqNextInv DEF LocalInv
<1>3. where' = "loop"
      BY DEF LtsCrash, CrashAndRestart, RestartFrom
<1>4. LtsTypeOK'
      BY DEF LocalInv, LtsTypeOK, LtsCrash, ResetTimeStepData, NoTargets, NoSteps
<1>5. SidesAgree'
      BY ResetAgrees DEF LtsCrash
<1>6. PassesFollow' /\ CellsFollowStep'
      BY <1>3 DEF PassesFollow, CellsFollowStep, LtsCrash, ResetTimeStepData
<1> QED BY <1>1, <1>2, <1>4, <1>5, <1>6 DEF LocalInv

LEMMA LocalNext ==
    ASSUME SubCflFactor <= FactorUnit, LocalInv, SomeFaceIsDue, [LtsNext]_ltsVars
    PROVE  [SeqNext]_seqVars /\ LocalInv'
<1>1. ASSUME NEW dts \in LocalSteps, LtsChooseStep(dts) PROVE SeqNext /\ LocalInv'
      BY <1>1, ChooseStepMaps
<1>2. CASE GlobalStep
      BY <1>2, WholeStepMaps DEF GlobalStep
<1>3. CASE InnerBegin
      BY <1>3, InnerBeginMaps
<1>4. CASE InnerWholeStep
      BY <1>4, WholeStepMaps DEF InnerWholeStep
<1>5. ASSUME NEW c \in Cells, NEW dts \in LocalSteps, SubStep(c, dts)
      PROVE  UNCHANGED seqVars /\ LocalInv'
      BY <1>5, SubStepMaps
<1>6. CASE LastSubStep
      BY <1>6, LastSubStepMaps
<1>7. CASE StopTimeStep
      BY <1>7, StopTimeStepMaps
<1>8. CASE /\ WriteOutput \/ Serialize \/ Advance \/ Stop
           /\ UNCHANGED <<localTimeStepping, localVars, ghostVars>>
      BY <1>8, OtherStepMaps
<1>9. CASE LtsCrash
      BY <1>9, CrashMaps
<1>10. CASE UNCHANGED ltsVars
  <2>1. UNCHANGED seqVars
        BY <1>10 DEF ltsVars
  <2>2. SeqInv'
        BY <2>1, SeqNextInv DEF LocalInv
  <2>3. LtsTypeOK' /\ SidesAgree'
        BY <1>10 DEF LocalInv, LtsTypeOK, SidesAgree, ltsVars, localVars, ghostVars
  <2>4. PassesFollow' /\ CellsFollowStep'
        BY <1>10 DEF LocalInv, PassesFollow, CellsFollowStep, ltsVars, localVars, ghostVars,
           seqVars, managerVars, stepVars, episodeVars, runVars, EpisodeEndTime, MaxStep,
           EpisodeMaxStep
  <2> QED BY <2>1, <2>2, <2>3, <2>4 DEF LocalInv
<1> QED BY <1>1, <1>2, <1>3, <1>4, <1>5, <1>6, <1>7, <1>8, <1>9, <1>10 DEF LtsNext, LtsStep
-----------------------------------------------------------------------------
(* The accumulated time has always reached the target of some face: that   *)
(* of least sub-step, whose target moved by no more than the time did.     *)
DueInv ==
    /\ \E f \in Faces : FaceIsDue(f, accumulatedDt)
    /\ \A c \in Cells : localDt[c] < MaxScalar
    /\ SomeFaceIsDue

LEMMA SubStepOfBounds ==
    ASSUME SubCflFactor <= FactorUnit, NEW dts \in [Cells -> Nat], NEW f \in Faces
    PROVE  /\ Scaled(SubCflFactor, FaceStep(f, dts)) <= SubStepOf(f, dts)
           /\ \E c \in Cells : SubStepOf(f, dts) <= dts[c]
<1>1. CellsOf[f] \subseteq Cells
      BY LocalTimeSteppingAssumption
<1>2. \E c \in Cells : FaceStep(f, dts) = dts[c]
  <2>1. Cardinality(CellsOf[f]) # 0
        BY LocalTimeSteppingAssumption
  <2>2. CellsOf[f] # {}
        BY <2>1, FS_EmptySet
  <2>3. {dts[c] : c \in CellsOf[f]} \in SUBSET Nat /\ {dts[c] : c \in CellsOf[f]} # {}
        BY <1>1, <2>2
  <2>4. Min({dts[c] : c \in CellsOf[f]}) \in {dts[c] : c \in CellsOf[f]}
        BY <2>3, MinNat
  <2> QED BY <1>1, <2>4 DEF FaceStep
<1>3. PICK a \in Nat : a = FaceStep(f, dts)
      BY FaceStepType
<1>4. Scaled(SubCflFactor, a) <= a
      BY ScaledBounds
<1>5. Scaled(SubCflFactor, a) \in Nat
      BY ScaledType, LocalTimeSteppingAssumption
<1> QED BY <1>2, <1>3, <1>4, <1>5 DEF SubStepOf

LEMMA LeastSubStepOfDue ==
    ASSUME SubCflFactor <= FactorUnit,
           NEW acc \in Nat, NEW dts \in [Cells -> Nat], \A c \in Cells : dts[c] < MaxScalar,
           \E f \in Faces : FaceIsDue(f, acc)
    PROVE  /\ LeastSubStep(acc, dts) < MaxScalar
           /\ \E f \in Faces : FaceIsDue(f, acc) /\ LeastSubStep(acc, dts) = SubStepOf(f, dts)
<1> DEFINE due == {g \in Faces : FaceIsDue(g, acc)}
           S == {MaxScalar} \cup {SubStepOf(f, dts) : f \in due}
<1>1. \A f \in Faces : SubStepOf(f, dts) \in Nat /\ SubStepOf(f, dts) < MaxScalar
  <2> SUFFICES ASSUME NEW f \in Faces
               PROVE  SubStepOf(f, dts) \in Nat /\ SubStepOf(f, dts) < MaxScalar
      OBVIOUS
  <2>1. SubStepOf(f, dts) \in Nat
        BY FaceStepType DEF SubStepOf
  <2>2. PICK c \in Cells : SubStepOf(f, dts) <= dts[c]
        BY SubStepOfBounds
  <2> QED BY <2>1, <2>2, LocalTimeSteppingAssumption
<1>2. S \in SUBSET Nat /\ S # {}
      BY <1>1, LocalTimeSteppingAssumption
<1>3. PICK f \in due : TRUE
      OBVIOUS
<1>4. SubStepOf(f, dts) \in S
      BY <1>3
<1> HIDE DEF S
<1>5. Min(S) \in S /\ Min(S) <= SubStepOf(f, dts)
      BY <1>2, <1>4, MinNat
<1>6. Min(S) < MaxScalar
  <2>1. SubStepOf(f, dts) \in Nat /\ SubStepOf(f, dts) < MaxScalar
        BY <1>1, <1>3
  <2>2. Min(S) \in Nat /\ MaxScalar \in Nat
        BY <1>2, <1>5, LocalTimeSteppingAssumption
  <2> QED BY <1>5, <2>1, <2>2
<1>7. MaxScalar \in Nat /\ Min(S) # MaxScalar
      BY <1>2, <1>5, <1>6, LocalTimeSteppingAssumption
<1>8. \E g \in due : Min(S) = SubStepOf(g, dts)
      BY <1>5, <1>7 DEF S
<1> QED BY <1>6, <1>8 DEF S, LeastSubStep

(* The face of least sub-step is due again when that sub-step is over. *)
LEMMA UpdatedTargetDue ==
    ASSUME SubCflFactor <= FactorUnit, LtsTypeOK, NEW acc \in Nat, NEW dts \in [Cells -> Nat],
           \A c \in Cells : dts[c] < MaxScalar,
           \E f \in Faces : FaceIsDue(f, acc),
           UpdatedTargetDt(acc, dts)
    PROVE  (\E f \in Faces : FaceIsDue(f, accumulatedDt))' /\ SomeFaceIsDue'
<1>1. PICK f \in Faces : /\ FaceIsDue(f, acc) /\ LeastSubStep(acc, dts) = SubStepOf(f, dts)
                         /\ LeastSubStep(acc, dts) < MaxScalar
      BY LeastSubStepOfDue
<1>2. PICK c \in CellsOf[f] : SideIsDue(<<c, f>>, acc)
      BY <1>1 DEF FaceIsDue
<1>3. <<c, f>> \in Sides
      BY <1>2, LocalTimeSteppingAssumption DEF Sides
<1>4. faceTargetDt[<<c, f>>] \in Nat /\ faceTargetDt[<<c, f>>] <= acc
      BY <1>2, <1>3 DEF LtsTypeOK, SideIsDue
<1>5. faceTargetDt'[<<c, f>>] = faceTargetDt[<<c, f>>] + Scaled(SubCflFactor, FaceStep(f, dts))
      BY <1>1, <1>3 DEF UpdatedTargetDt, NewTargets
<1>6. /\ Scaled(SubCflFactor, FaceStep(f, dts)) \in Nat
      /\ Scaled(SubCflFactor, FaceStep(f, dts)) <= SubStepOf(f, dts)
      /\ SubStepOf(f, dts) \in Nat
      BY FaceStepType, SubStepOfBounds DEF SubStepOf
<1>7. accumulatedDt' = acc + SubStepOf(f, dts) /\ subDt' < MaxScalar
      BY <1>1 DEF UpdatedTargetDt
<1>8. faceTargetDt'[<<c, f>>] <= accumulatedDt'
      BY <1>4, <1>5, <1>6, <1>7
<1> QED BY <1>2, <1>7, <1>8 DEF FaceIsDue, SideIsDue, SomeFaceIsDue

LEMMA SomeSide == \E f \in Faces : \E c \in CellsOf[f] : <<c, f>> \in Sides
<1>1. PICK f \in Faces : CellsOf[f] \subseteq Cells /\ Cardinality(CellsOf[f]) # 0
      BY LocalTimeSteppingAssumption
<1>2. CellsOf[f] # {}
      BY <1>1, FS_EmptySet
<1> QED BY <1>1, <1>2 DEF Sides

LEMMA ResetDue ==
    ASSUME ResetTimeStepData
    PROVE  DueInv'
<1>1. PICK f \in Faces : \E c \in CellsOf[f] : <<c, f>> \in Sides
      BY SomeSide
<1>2. PICK c \in CellsOf[f] : <<c, f>> \in Sides
      BY <1>1
<1>3. /\ faceTargetDt'[<<c, f>>] = 0 /\ accumulatedDt' = 0
      /\ \A d \in Cells : localDt'[d] = 0
      BY <1>2 DEF ResetTimeStepData, NoTargets, NoSteps
<1> QED BY <1>1, <1>3, LocalTimeSteppingAssumption DEF DueInv, FaceIsDue, SideIsDue, SomeFaceIsDue

LEMMA DueNext ==
    ASSUME SubCflFactor <= FactorUnit, LocalInv, DueInv, [LtsNext]_ltsVars
    PROVE  DueInv'
<1>1. LtsTypeOK /\ localDt \in [Cells -> Nat] /\ accumulatedDt \in Nat
      BY DEF LocalInv, LtsTypeOK
<1>2. ASSUME NEW dts \in LocalSteps
      PROVE  dts \in [Cells -> Nat] /\ \A c \in Cells : dts[c] < MaxScalar
      BY LocalTimeSteppingAssumption DEF LocalSteps
<1>3. ASSUME NEW dts \in LocalSteps, LtsChooseStep(dts) PROVE DueInv'
      BY <1>2, <1>3 DEF LtsChooseStep, DueInv, FaceIsDue, SideIsDue, SomeFaceIsDue
<1>4. CASE InnerBegin
  <2>1. UpdatedTargetDt(accumulatedDt, localDt) /\ localDt' = localDt
        BY <1>4 DEF InnerBegin
  <2> QED BY <1>1, <2>1, UpdatedTargetDue DEF DueInv
<1>5. ASSUME NEW c \in Cells, NEW dts \in LocalSteps, SubStep(c, dts) PROVE DueInv'
  <2>1. UpdatedTargetDt(accumulatedDt, dts) /\ localDt' = dts
        BY <1>5 DEF SubStep
  <2> QED BY <1>1, <1>2, <2>1, UpdatedTargetDue DEF DueInv
<1>6. CASE GlobalStep \/ InnerWholeStep \/ LastSubStep \/ StopTimeStep \/ LtsCrash
  <2>1. ResetTimeStepData
        BY <1>6 DEF GlobalStep, InnerWholeStep, WholeStep, LastSubStep, StopTimeStep, Finish,
           LtsCrash
  <2> QED BY <2>1, ResetDue
<1>7. CASE UNCHANGED <<localTimeStepping, localVars, ghostVars>>
      BY <1>7 DEF localVars, DueInv, FaceIsDue, SideIsDue, SomeFaceIsDue
<1>8. CASE UNCHANGED ltsVars
      BY <1>7, <1>8 DEF ltsVars
<1> QED BY <1>3, <1>4, <1>5, <1>6, <1>7, <1>8 DEF LtsNext, LtsStep

LEMMA DueInit == LtsInit => DueInv
<1> SUFFICES ASSUME LtsInit PROVE DueInv
    OBVIOUS
<1>1. PICK f \in Faces : \E c \in CellsOf[f] : <<c, f>> \in Sides
      BY SomeSide
<1>2. PICK c \in CellsOf[f] : <<c, f>> \in Sides
      BY <1>1
<1> QED BY <1>1, <1>2, LocalTimeSteppingAssumption DEF LtsInit, NoTargets, NoSteps, DueInv,
           FaceIsDue, SideIsDue, SomeFaceIsDue

LEMMA LocalInvariant ==
    ASSUME SubCflFactor <= FactorUnit
    PROVE  LtsSpec => [](LocalInv /\ DueInv) /\ SeqSpec
<1>1. LtsInit => LocalInv /\ DueInv /\ SeqInit
      BY LocalInitInv, DueInit DEF LtsInit
<1>2. LocalInv /\ DueInv /\ [LtsNext]_ltsVars => [SeqNext]_seqVars /\ LocalInv' /\ DueInv'
      BY LocalNext, DueNext DEF DueInv
<1> QED BY <1>1, <1>2, PTL DEF LtsSpec, SeqSpec

(* Up to a sub-CFL factor of one some face is due whenever targets are     *)
(* renewed, so the sub-step is one that a cell asked for and never the     *)
(* numeric maximum that the search starts from (transport.hh:499-532).     *)
THEOREM FacesAreDue == LtsSpec => []SomeFaceIsDue
<1>1. CASE SubCflFactor <= FactorUnit
  <2>1. LtsSpec => []DueInv
        BY <1>1, LocalInvariant, PTL
  <2>2. DueInv => SomeFaceIsDue
        BY DEF DueInv
  <2> QED BY <2>1, <2>2, PTL
<1>2. CASE ~(SubCflFactor <= FactorUnit)
  <2>1. SomeFaceIsDue
        BY <1>2 DEF SomeFaceIsDue
  <2> QED BY <2>1, PTL
<1> QED BY <1>1, <1>2

(* innerUpdate() keeps what the problem expects of the transport: however  *)
(* the time is divided and wherever a sub-step is dropped, the simulation  *)
(* with local time steps and a sub-CFL factor of at most one is one of     *)
(* SequentialSimulation (transport.hh, impetproblem.hh).                   *)
THEOREM LocalImplements ==
    SubCflFactor <= FactorUnit => (LtsSpec => ImplementsSimulation)
BY LocalInvariant DEF ImplementsSimulation

(* The two cells of a face always hold fluxes of the same update and the   *)
(* same target, whatever the factors (transport.hh:308-386, 476-516).      *)
THEOREM FluxesAgree == LtsSpec => []SidesAgree
<1>1. LtsInit => SidesAgree
      BY DEF LtsInit, SidesAgree, NoTargets
<1>2. SidesAgree /\ [LtsNext]_ltsVars => SidesAgree'
  <2> SUFFICES ASSUME SidesAgree, [LtsNext]_ltsVars PROVE SidesAgree'
      OBVIOUS
  <2>1. ASSUME NEW dts \in LocalSteps, LtsChooseStep(dts) PROVE SidesAgree'
        BY <2>1, AgreeStep DEF LtsChooseStep
  <2>2. CASE InnerBegin
        BY <2>2, AgreeStep DEF InnerBegin, UpdatedTargetDt
  <2>3. ASSUME NEW c \in Cells, NEW dts \in LocalSteps, SubStep(c, dts) PROVE SidesAgree'
        BY <2>3, AgreeStep DEF SubStep, UpdatedTargetDt
  <2>4. CASE GlobalStep \/ InnerWholeStep \/ LastSubStep \/ StopTimeStep \/ LtsCrash
    <3>1. ResetTimeStepData
          BY <2>4 DEF GlobalStep, InnerWholeStep, WholeStep, LastSubStep, StopTimeStep, Finish,
             LtsCrash
    <3> QED BY <3>1, ResetAgrees
  <2>5. CASE UNCHANGED <<localTimeStepping, localVars, ghostVars>> \/ UNCHANGED ltsVars
        BY <2>5 DEF ltsVars, localVars, SidesAgree
  <2> QED BY <2>1, <2>2, <2>3, <2>4, <2>5 DEF LtsNext, LtsStep
<1> QED BY <1>1, <1>2, PTL DEF LtsSpec

(* Every cell is integrated over the step that is added to the time, with  *)
(* a sub-CFL factor of at most one, unless a cell left the physical range  *)
(* in the first sub-step (transport.hh:595-624).                           *)
THEOREM CellsIntegrated ==
    SubCflFactor <= FactorUnit => (LtsSpec => []CellsFollowStep)
<1> SUFFICES ASSUME SubCflFactor <= FactorUnit PROVE LtsSpec => []CellsFollowStep
    OBVIOUS
<1>1. LocalInv => CellsFollowStep
      BY DEF LocalInv
<1> QED BY <1>1, LocalInvariant, PTL

(* With local time steps, dropped sub-steps and crashes the loop of run()  *)
(* keeps what it promises: the transport may not break it                  *)
(* (impetproblem.hh, transport.hh).                                        *)
THEOREM LocalKeepsPromises ==
    SubCflFactor <= FactorUnit =>
        (LtsSpec => [](StepStaysInside /\ EpisodesOnGrid /\ SolutionFollowsTime)
                    /\ []EpisodeEndsWritten /\ EmptyStepOnlyFirst)
<1> SUFFICES ASSUME SubCflFactor <= FactorUnit
             PROVE  LtsSpec => [](StepStaysInside /\ EpisodesOnGrid /\ SolutionFollowsTime)
                               /\ []EpisodeEndsWritten /\ EmptyStepOnlyFirst
    OBVIOUS
<1>1. LtsSpec => SeqSpec
      BY LocalInvariant, PTL
<1>2. SeqInv => StepStaysInside /\ EpisodesOnGrid /\ SolutionFollowsTime
      BY DEF SeqInv
<1> QED BY <1>1, <1>2, SequentialInvariant, EndsOfEpisodesWritten, EmptyStepsAreFirst, PTL
=============================================================================
