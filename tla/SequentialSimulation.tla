------------------------ MODULE SequentialSimulation ------------------------
(***************************************************************************)
(* A simulation with a sequential (IMPET) model: the problem's hooks of    *)
(* porousmediumflow/sequential/impetproblem.hh, called by the time manager *)
(* in TimeManager::run(), with output, restart files (io/restart.hh),      *)
(* crashes between any two steps of the loop and restarts                  *)
(* (common/start.hh).                                                      *)
(*                                                                         *)
(* The transport's integration is abstract here: it integrates over the    *)
(* whole step, or over a part of it which it then makes the step.          *)
(* LocalTimeStepping gives the detail.                                     *)
(***************************************************************************)
EXTENDS TimeManager, Sequences, FiniteSets

CONSTANTS
    OutputTimeInterval, \* argument of setOutputTimeInterval, positive
    OutputIntervals,    \* arguments of setOutputInterval: 0 leaves it to the episodes
    RestartFactor,      \* shouldWriteRestartFile's 100
    DtInitials,         \* TimeManager.DtInitial of the first and of restarted runs
    DtVariation,        \* Impet.DtVariationRestrictionFactor
    TransportSteps,     \* what the transport proposes, times the CFL factor
    MaxCrashes          \* bound: crashes of the program

ASSUME SequentialAssumption ==
    /\ OutputTimeInterval \in Nat \ {0} /\ OutputIntervals \subseteq Nat
    /\ RestartFactor \in Nat \ {0} /\ DtVariation \in Nat
    /\ DtInitials \subseteq Nat /\ TransportSteps \subseteq Nat \ {0}
    /\ MaxCrashes \in Nat

VARIABLES
    where,          \* the place in run()
    outputInterval, \* member outputInterval_ of the problem
    series,         \* times in the writer's multi file
    files,          \* the restart files on disk
    solutionTime,   \* the time the transported quantity has been integrated to
    replays,        \* no step has been made since the last restart
    crashes

runVars == <<where, outputInterval, series, files, solutionTime, replays, crashes>>
seqVars == <<managerVars, runVars>>

Places == {"loop", "transport", "output", "serialize", "advance", "done"}

RestartFiles ==
    [time : Nat, timeStepIdx : Nat, episodeIndex : Nat, episodeStartTime : Nat,
     episodeLength : Nat, series : Seq(Nat), solutionTime : Nat]

SeqTypeOK ==
    /\ time \in Nat /\ timeStepSize \in Nat /\ previousTimeStepSize \in Nat
    /\ timeStepIdx \in Nat
    /\ episodeIndex \in Nat /\ episodeStartTime \in Nat /\ episodeLength \in Nat
    /\ where \in Places /\ outputInterval \in OutputIntervals
    /\ series \in Seq(Nat) /\ files \subseteq RestartFiles
    /\ solutionTime \in Nat /\ replays \in BOOLEAN /\ crashes \in Nat
-----------------------------------------------------------------------------
(* The constructor starts the first episode; init() writes the initial     *)
(* solution, for which it sets the time back by a step.                    *)
SeqInit ==
    /\ time = 0 /\ timeStepIdx = 0
    /\ \E dt \in DtInitials : timeStepSize = dt /\ previousTimeStepSize = dt
    /\ episodeIndex = 1 /\ episodeStartTime = 0
    /\ episodeLength = OutputTimeInterval
    /\ outputInterval \in OutputIntervals
    /\ series = <<0>>
    /\ files = {} /\ solutionTime = 0 /\ replays = FALSE /\ crashes = 0
    /\ where = "loop"

(* timeIntegration(): the step proposed by the transport, held near the    *)
(* last one, cut to the episode and, for the first step, to DtInitial.     *)
NearLastStep(dt) ==
    IF time > 0 /\ timeStepSize > 0
    THEN AtLeast(AtMost(dt, timeStepSize + DtVariation * timeStepSize),
                 AtLeast(timeStepSize - DtVariation * timeStepSize, 0))
    ELSE dt

WithinEpisode(dt) == AtMost(dt, EpisodeMaxStep(time, EpisodeEndTime))

NotAboveInitial(dt) ==
    IF time = 0 /\ timeStepSize # 0 THEN AtMost(dt, timeStepSize) ELSE dt

ChooseStep(dt) ==
    /\ where = "loop" /\ ~Finished
    /\ SetTimeStepSize(NotAboveInitial(WithinEpisode(NearLastStep(dt))))
    /\ where' = "transport"
    /\ UNCHANGED <<time, previousTimeStepSize, timeStepIdx, episodeVars,
                   outputInterval, series, files, solutionTime, replays, crashes>>

(* updateTransportedQuantity(): integrates over s, after which the step is dt. *)
EndIntegration(s, dt) ==
    /\ where = "transport"
    /\ timeStepSize' = dt
    /\ solutionTime' = solutionTime + s
    /\ where' = "output"
    /\ UNCHANGED <<time, previousTimeStepSize, timeStepIdx, episodeVars,
                   outputInterval, series, files, replays, crashes>>

(* What the transport promises: it integrates over the step or over a part *)
(* of it, not an empty one, that it makes the step.                        *)
Integrate(s) ==
    /\ s <= timeStepSize /\ (s = 0 => timeStepSize = 0)
    /\ EndIntegration(s, s)

(* Mutant: by the step index alone. *)
ShouldWriteOutputByIndex ==
    \/ outputInterval > 0 /\ timeStepIdx % outputInterval = 0
    \/ timeStepIdx = 0

ShouldWriteOutput ==
    \/ outputInterval > 0 /\ timeStepIdx % outputInterval = 0
    \/ outputInterval = 0 /\ timeStepIdx = 0
    \/ WillBeFinished
    \/ EpisodeWillBeFinished

WriteOutput ==
    /\ where = "output"
    /\ series' = IF ShouldWriteOutput THEN Append(series, time + timeStepSize)
                                      ELSE series
    /\ where' = "serialize"
    /\ UNCHANGED <<managerVars, outputInterval, files, solutionTime, replays, crashes>>

ShouldWriteRestartFile ==
    IF outputInterval > 0
    THEN timeStepIdx > 0 /\ timeStepIdx % (RestartFactor * outputInterval) = 0
    ELSE ShouldWriteOutput

(* Mutant: the time of before the step. *)
SavedTimeEarly == time

(* serialize(): the state of after the step, before the time advances.  The *)
(* file is named after that time and replaces one of the same name.         *)
SavedTime == time + timeStepSize

RestartFile ==
    [time |-> SavedTime, timeStepIdx |-> timeStepIdx + 1,
     episodeIndex |-> episodeIndex, episodeStartTime |-> episodeStartTime,
     episodeLength |-> episodeLength, series |-> series,
     solutionTime |-> solutionTime]

OtherFiles == {f \in files : f.time # SavedTime}

Serialize ==
    /\ where = "serialize"
    /\ files' = IF ShouldWriteRestartFile THEN OtherFiles \cup {RestartFile} ELSE files
    /\ where' = "advance"
    /\ UNCHANGED <<managerVars, outputInterval, series, solutionTime, replays, crashes>>

Advance ==
    /\ where = "advance"
    /\ AdvanceTime(OutputTimeInterval)
    /\ replays' = FALSE
    /\ where' = "loop"
    /\ UNCHANGED <<outputInterval, series, files, solutionTime, crashes>>

Stop ==
    /\ where = "loop" /\ Finished
    /\ where' = "done"
    /\ UNCHANGED <<managerVars, outputInterval, series, files, solutionTime,
                   replays, crashes>>
-----------------------------------------------------------------------------
(* A new process continues from a restart file, with some DtInitial. *)
RestartFrom(f, dt) ==
    /\ time' = f.time /\ timeStepIdx' = f.timeStepIdx
    /\ timeStepSize' = dt /\ previousTimeStepSize' = dt
    /\ episodeIndex' = f.episodeIndex
    /\ episodeStartTime' = f.episodeStartTime
    /\ episodeLength' = f.episodeLength
    /\ series' = f.series /\ solutionTime' = f.solutionTime
    /\ replays' = TRUE
    /\ where' = "loop"
    /\ UNCHANGED outputInterval

(* The process dies; where it was writing a restart file, that file is     *)
(* left without its end and cannot be read.  The user restarts from one    *)
(* that can.                                                               *)
CrashAndRestart ==
    /\ where # "done" /\ crashes < MaxCrashes
    /\ \/ files' = files
       \/ where = "serialize" /\ ShouldWriteRestartFile /\ files' = OtherFiles
    /\ \E f \in files', dt \in DtInitials : RestartFrom(f, dt)
    /\ crashes' = crashes + 1

SeqStep ==
    \/ \E dt \in TransportSteps : ChooseStep(dt)
    \/ \E s \in 0..timeStepSize : Integrate(s)
    \/ WriteOutput
    \/ Serialize
    \/ Advance
    \/ Stop

SeqNext == SeqStep \/ CrashAndRestart

(* The program runs on; nothing obliges it to crash. *)
SeqSpec == SeqInit /\ [][SeqNext]_seqVars
SeqFairSpec == SeqSpec /\ WF_seqVars(SeqStep)
-----------------------------------------------------------------------------
(* Once the step is chosen it crosses neither the end of the simulation    *)
(* nor that of the episode, and it moves the time unless the episode is    *)
(* over (impetproblem.hh:383-402, TimeManager::setTimeStepSize).           *)
StepStaysInside ==
    where \notin {"loop", "done"} =>
        /\ time + timeStepSize <= EndTime
        /\ time + timeStepSize <= EpisodeEndTime
        /\ timeStepSize = 0 => EpisodeIsFinished

(* Every episode starts on a multiple of the output interval and is        *)
(* counted once, whatever was lost and replayed: the grid of output times  *)
(* does not drift across restarts.                                         *)
EpisodesOnGrid ==
    /\ episodeStartTime = (episodeIndex - 1) * OutputTimeInterval
    /\ episodeLength = OutputTimeInterval
    /\ episodeStartTime <= time /\ time <= EpisodeEndTime

(* The transported quantity has been integrated over exactly the time that *)
(* has passed, in the running process and in every restart file.           *)
SolutionFollowsTime ==
    /\ solutionTime = IF where \in {"loop", "transport", "done"} THEN time
                      ELSE time + timeStepSize
    /\ \A f \in files : f.solutionTime = f.time

(* A restart file holds a state the loop can continue from. *)
FilesRestorable ==
    \A f \in files :
        /\ f.episodeStartTime = (f.episodeIndex - 1) * OutputTimeInterval
        /\ f.episodeLength = OutputTimeInterval
        /\ f.episodeStartTime <= f.time
        /\ f.time <= f.episodeStartTime + f.episodeLength
        /\ f.time <= EndTime

(* The three together, strengthened so that every step of run(), a crash   *)
(* and a restart preserve them: the proof is in SequentialProofs.          *)
SeqInv ==
    /\ SeqTypeOK
    /\ StepStaysInside
    /\ EpisodesOnGrid
    /\ SolutionFollowsTime
    /\ FilesRestorable
    /\ time <= EndTime

(* No end of an episode is missing from the series of output files, also   *)
(* after a restart.                                                        *)
EpisodeEndsWritten ==
    \A t \in 0..time :
        t % OutputTimeInterval = 0 => \E i \in 1..Len(series) : series[i] = t

(* An empty step, which writes its output and restart file again and       *)
(* counts as a step, is made only first after a restart from a file        *)
(* written at the end of an episode: the loop never turns on the spot.     *)
EmptyStepOnlyFirst ==
    [][Advance /\ timeStepSize = 0 => replays /\ EpisodeIsFinished]_seqVars

(* As many crashes there are, the simulation reaches its end.  Fairness:   *)
(* the loop of run() waits for nothing.                                    *)
RunEnds == <>(where = "done" /\ time = EndTime)
=============================================================================
