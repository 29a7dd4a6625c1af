-------------------------- MODULE SimulationProofs --------------------------
(***************************************************************************)
(* Proofs about InstationarySimulation, for every time loop, all bounds of *)
(* the Newton method and any set of solutions: what an assembly finds in   *)
(* the grid variables, that solution, grid variables and time loop belong  *)
(* together between two solves, that the program is a client of the time   *)
(* loop as the loop wants it, and that it writes all the output it should. *)
(***************************************************************************)
EXTENDS InstationarySimulation, TLAPS

(* The cached variables of the current level follow the iterate, except    *)
(* for the volume variables before the first assembly of an attempt.       *)
CachesFollow == curVolVars = u /\ fluxVarsCache = u

CachesOfAttempt ==
    /\ curVolVars = u \/ (curVolVars = Stale /\ numSteps = 0)
    /\ fluxVarsCache = u

(* An iterate belongs to the time the loop would step to. *)
IterateIsNew == uLevel = time + timeStepSize

GridState ==
    CASE pc \in {"main", "begin"}           -> CachesFollow
      [] pc \in {"proceed", "assemble"}     -> CachesOfAttempt
      [] pc \in {"linearSolve", "update"}   -> assembledStep = timeStepSize
      [] pc \in {"endStep", "converged"}    -> CachesFollow /\ IterateIsNew
      [] pc \in {"diverged", "threw"}       -> TRUE

MainState ==
    /\ phase \in {"setup", "loop", "stored", "advanced", "done", "aborted"}
    /\ pc # "main" => phase = "loop" \/ (phase = "aborted" /\ pc = "threw")
    /\ pc = "main" => u = prevSol
    /\ prevVolVars = prevSol
    /\ phase # "stored" => prevLevel = time /\ (pc = "main" => uLevel = time)
    /\ phase = "stored" => IterateIsNew /\ prevLevel = uLevel

SimInv ==
    /\ pc \in {"main", "begin", "proceed", "assemble", "linearSolve", "update",
               "endStep", "diverged", "converged", "threw"}
    /\ numSteps \in Nat
    /\ pc = "proceed" /\ numSteps > 0 => IterateIsNew
    /\ GridState
    /\ MainState
-----------------------------------------------------------------------------
LEMMA SimInitInv == SimInit => SimInv
    BY DEF SimInit, NewtonInit, GridInit, SimInv, GridState, MainState,
           CachesFollow, CachesOfAttempt, IterateIsNew

LEMMA SetUpInv == SimInv /\ SetUp => SimInv'
<1> SUFFICES ASSUME SimInv, SetUp PROVE SimInv'
    OBVIOUS
<1>1. /\ phase = "setup" /\ UNCHANGED <<time, gridVars, newtonVars, mainVars>>
      BY DEF SetUp, SetMaxTimeStepSize, SetPeriodicCheckPoint, SetCheckPoint
<1>2. pc = "main"
      BY <1>1 DEF SimInv, MainState
<1> QED BY <1>1, <1>2 DEF gridVars, newtonVars, mainVars, SimInv, GridState, MainState,
                          CachesFollow, CachesOfAttempt, IterateIsNew

LEMMA NewtonBeginInv == SimInv /\ Solve /\ NewtonBegin => SimInv'
<1> SUFFICES ASSUME SimInv, Solve, NewtonBegin PROVE SimInv'
    OBVIOUS
<1>1. /\ phase = "loop" /\ phase' = "loop" /\ pc = "begin" /\ pc' = "proceed"
      /\ numSteps' = 0
      /\ uLevel' = uLevel /\ prevLevel' = prevLevel /\ prevSol' = prevSol
      /\ time' = time /\ prevVolVars' = prevVolVars
      BY DEF Solve, NewtonBegin, UpdateBoundary, vars, baseVars, gridVars
<1>2. CachesFollow
      BY <1>1 DEF SimInv, GridState
<1>3. CachesOfAttempt'
      BY <1>1, <1>2 DEF NewtonBegin, UpdateBoundary, gridVars, CachesFollow, CachesOfAttempt
<1> QED BY <1>1, <1>3 DEF SimInv, GridState, MainState

LEMMA NewtonProceedInv == SimInv /\ Solve /\ NewtonProceed => SimInv'
<1> SUFFICES ASSUME SimInv, Solve, NewtonProceed PROVE SimInv'
    OBVIOUS
<1>1. /\ phase = "loop" /\ phase' = "loop" /\ pc = "proceed"
      /\ UNCHANGED <<time, timeStepSize, curVolVars, prevVolVars, fluxVarsCache, u, prevSol,
                     numSteps, uLevel, prevLevel>>
      BY DEF Solve, NewtonProceed, vars, baseVars, gridVars
<1>2. /\ pc' \in {"assemble", "converged", "diverged"}
      /\ pc' = "converged" => numSteps >= 2
      BY <1>1 DEF NewtonProceed, Proceeds, SimInv
<1>3. CachesOfAttempt /\ (numSteps > 0 => IterateIsNew)
      BY <1>1 DEF SimInv, GridState
<1>4. CachesOfAttempt' /\ (IterateIsNew <=> IterateIsNew')
      BY <1>1, <1>3 DEF CachesOfAttempt, IterateIsNew
<1>5. pc' = "converged" => CachesFollow' /\ IterateIsNew'
      BY <1>1, <1>2, <1>3, <1>4 DEF CachesOfAttempt, CachesFollow, SimInv
<1> QED BY <1>1, <1>2, <1>4, <1>5 DEF SimInv, GridState, MainState

LEMMA AssembleInv == SimInv /\ Solve /\ AssembleLinearSystem => SimInv'
<1> SUFFICES ASSUME SimInv, Solve, AssembleLinearSystem PROVE SimInv'
    OBVIOUS
<1>1. /\ phase = "loop" /\ phase' = "loop" /\ pc = "assemble" /\ pc' \in {"linearSolve", "diverged"}
      /\ assembledStep' = timeStepSize
      /\ UNCHANGED <<time, timeStepSize, prevVolVars, u, prevSol, numSteps, uLevel, prevLevel>>
      BY DEF Solve, AssembleLinearSystem, Throw, GridDisturbed, vars, baseVars, gridVars
<1> QED BY <1>1 DEF SimInv, GridState, MainState

LEMMA SolveLinearInv == SimInv /\ Solve /\ SolveLinearSystem => SimInv'
<1> SUFFICES ASSUME SimInv, Solve, SolveLinearSystem PROVE SimInv'
    OBVIOUS
<1>1. /\ phase = "loop" /\ phase' = "loop" /\ pc = "linearSolve" /\ pc' \in {"update", "diverged"}
      /\ UNCHANGED <<time, timeStepSize, prevVolVars, u, prevSol, numSteps, uLevel, prevLevel,
                     assembledStep>>
      BY DEF Solve, SolveLinearSystem, Throw, vars, baseVars, gridVars
<1> QED BY <1>1 DEF SimInv, GridState, MainState

LEMMA NewtonUpdateInv == SimInv /\ Solve /\ NewtonUpdate => SimInv'
<1> SUFFICES ASSUME SimInv, Solve, NewtonUpdate PROVE SimInv'
    OBVIOUS
<1>1. /\ phase = "loop" /\ phase' = "loop" /\ pc = "update" /\ pc' \in {"endStep", "diverged"}
      /\ uLevel' = time + assembledStep
      /\ UNCHANGED <<time, timeStepSize, prevVolVars, prevSol, numSteps, prevLevel>>
      /\ pc' = "endStep" => CachesFollow'
      BY DEF Solve, NewtonUpdate, Throw, GridUpdate, CachesFollow, vars, baseVars
<1>2. assembledStep = timeStepSize
      BY <1>1 DEF SimInv, GridState
<1> QED BY <1>1, <1>2 DEF SimInv, GridState, MainState, IterateIsNew

LEMMA NewtonEndStepInv == SimInv /\ Solve /\ NewtonEndStep => SimInv'
<1> SUFFICES ASSUME SimInv, Solve, NewtonEndStep PROVE SimInv'
    OBVIOUS
<1>1. /\ phase = "loop" /\ phase' = "loop" /\ pc = "endStep" /\ pc' \in {"proceed", "diverged"}
      /\ UNCHANGED <<time, timeStepSize, prevVolVars, prevSol, uLevel, prevLevel>>
      /\ numSteps' \in {numSteps, numSteps + 1}
      BY DEF Solve, NewtonEndStep, SwitchPriVars, SwitchThrows, Throw, GridUpdate,
             GridDisturbed, vars, baseVars, gridVars
<1>2. CachesFollow /\ IterateIsNew
      BY <1>1 DEF SimInv, GridState
<1>3. pc' = "proceed" => CachesFollow'
      BY <1>2 DEF NewtonEndStep, SwitchPriVars, Throw, GridUpdate, CachesFollow, gridVars
<1>4. IterateIsNew' /\ numSteps' \in Nat
      BY <1>1, <1>2 DEF IterateIsNew, SimInv
<1> QED BY <1>1, <1>3, <1>4 DEF SimInv, GridState, MainState, CachesFollow, CachesOfAttempt

LEMMA RetryInv == SimInv /\ Solve /\ RetryWithHalfStep => SimInv'
<1> SUFFICES ASSUME SimInv, Solve, RetryWithHalfStep PROVE SimInv'
    OBVIOUS
<1>1. /\ phase = "loop" /\ phase' = "loop" /\ pc = "diverged" /\ pc' = "begin"
      /\ u' = prevSol /\ prevSol' = prevSol /\ numSteps' = numSteps
      /\ time' = time /\ prevLevel' = prevLevel
      /\ curVolVars' = prevVolVars /\ prevVolVars' = prevVolVars
      /\ fluxVarsCache' = IF prevVolVars = prevSol THEN prevSol ELSE Mixed
      BY DEF Solve, RetryWithHalfStep, SetTimeStepSize, GridResetTimeStep
<1>2. CachesFollow'
      BY <1>1 DEF SimInv, MainState, CachesFollow
<1> QED BY <1>1, <1>2 DEF SimInv, GridState, MainState

LEMMA GiveUpInv == SimInv /\ Solve /\ GiveUp => SimInv'
<1> SUFFICES ASSUME SimInv, Solve, GiveUp PROVE SimInv'
    OBVIOUS
<1>1. /\ phase = "loop" /\ phase' = "loop" /\ pc = "diverged" /\ pc' = "threw"
      /\ UNCHANGED <<time, timeStepSize, prevVolVars, u, prevSol, numSteps, uLevel, prevLevel>>
      BY DEF Solve, GiveUp, vars, baseVars, gridVars
<1> QED BY <1>1 DEF SimInv, GridState, MainState
-----------------------------------------------------------------------------
LEMMA StoreSolutionInv == SimInv /\ StoreSolution => SimInv'
<1> SUFFICES ASSUME SimInv, StoreSolution PROVE SimInv'
    OBVIOUS
<1>1. /\ phase = "loop" /\ phase' = "stored" /\ pc = "converged" /\ pc' = "main"
      /\ prevSol' = u /\ prevLevel' = uLevel /\ prevVolVars' = curVolVars
      /\ UNCHANGED <<time, timeStepSize, u, uLevel, numSteps, curVolVars, fluxVarsCache>>
      BY DEF StoreSolution, GridAdvanceTimeStep, vars, baseVars
<1>2. CachesFollow /\ IterateIsNew
      BY <1>1 DEF SimInv, GridState
<1> QED BY <1>1, <1>2 DEF SimInv, GridState, MainState, CachesFollow, IterateIsNew

LEMMA AdvanceLoopInv == SimInv /\ AdvanceLoop => SimInv'
<1> SUFFICES ASSUME SimInv, AdvanceLoop PROVE SimInv'
    OBVIOUS
<1>1. /\ phase = "stored" /\ phase' = "advanced" /\ time' = time + timeStepSize
      /\ UNCHANGED <<pc, u, prevSol, uLevel, prevLevel, numSteps, curVolVars, prevVolVars,
                     fluxVarsCache>>
      BY DEF AdvanceLoop, AdvanceTimeStep, gridVars, newtonVars
<1>2. pc = "main"
      BY <1>1 DEF SimInv, MainState
<1> QED BY <1>1, <1>2 DEF SimInv, GridState, MainState, CachesFollow, IterateIsNew

(* The statements that move neither the solutions nor the time. *)
LEMMA OtherInv ==
    SimInv /\ (StartLoop \/ CallSolve \/ SuggestStep \/ LeaveLoop \/ UNCHANGED simVars) => SimInv'
<1> SUFFICES ASSUME SimInv, StartLoop \/ CallSolve \/ SuggestStep \/ LeaveLoop \/ UNCHANGED simVars
             PROVE  SimInv'
    OBVIOUS
<1>1. /\ UNCHANGED <<time, u, prevSol, uLevel, prevLevel, numSteps, curVolVars, prevVolVars,
                     fluxVarsCache>>
      BY DEF StartLoop, CallSolve, SuggestStep, LeaveLoop, SetTimeStepSize, simVars,
             vars, baseVars, gridVars, newtonVars, mainVars
<1>2. CASE StartLoop
  <2>1. phase = "setup" /\ phase' = "loop" /\ pc' = pc
        BY <1>2 DEF StartLoop, newtonVars
  <2> QED BY <1>1, <2>1 DEF SimInv, GridState, MainState, CachesFollow
<1>3. CASE CallSolve
  <2>1. phase = "loop" /\ phase' = "loop" /\ pc = "main" /\ pc' = "begin"
        BY <1>3 DEF CallSolve, mainVars
  <2> QED BY <1>1, <2>1 DEF SimInv, GridState, MainState, CachesFollow
<1>4. CASE SuggestStep
  <2>1. phase = "advanced" /\ phase' = "loop" /\ pc' = pc
        BY <1>4 DEF SuggestStep, newtonVars
  <2> QED BY <1>1, <2>1 DEF SimInv, GridState, MainState, CachesFollow
<1>5. CASE LeaveLoop
  <2>1. /\ phase = "loop" /\ pc' = pc
        /\ \/ pc = "main" /\ phase' = "done"
           \/ pc = "threw" /\ phase' = "aborted"
        BY <1>5 DEF LeaveLoop, newtonVars
  <2> QED BY <1>1, <2>1 DEF SimInv, GridState, MainState, CachesFollow
<1>6. CASE UNCHANGED simVars
  <2>1. UNCHANGED <<phase, pc, timeStepSize, assembledStep>>
        BY <1>6 DEF simVars, vars, baseVars, newtonVars, mainVars
  <2> QED BY <1>1, <2>1 DEF SimInv, GridState, MainState, CachesFollow, CachesOfAttempt,
                            IterateIsNew
<1> QED BY <1>2, <1>3, <1>4, <1>5, <1>6

LEMMA SimNextInv == SimInv /\ [SimNext]_simVars => SimInv'
<1> SUFFICES ASSUME SimInv, [SimNext]_simVars PROVE SimInv'
    OBVIOUS
<1>1. CASE SetUp
      BY <1>1, SetUpInv
<1>2. CASE Solve
  <2>1. NewtonStep
        BY <1>2 DEF Solve
  <2> QED BY <1>2, <2>1, NewtonBeginInv, NewtonProceedInv, AssembleInv, SolveLinearInv,
             NewtonUpdateInv, NewtonEndStepInv, RetryInv, GiveUpInv DEF NewtonStep
<1>3. CASE StoreSolution
      BY <1>3, StoreSolutionInv
<1>4. CASE AdvanceLoop
      BY <1>4, AdvanceLoopInv
<1>5. CASE StartLoop \/ CallSolve \/ SuggestStep \/ LeaveLoop \/ Terminated \/ UNCHANGED simVars
      BY <1>5, OtherInv DEF Terminated
<1> QED BY <1>1, <1>2, <1>3, <1>4, <1>5 DEF SimNext

LEMMA SimInvariant == SimSpec => []SimInv
<1>1. SimInit => SimInv
      BY SimInitInv
<1>2. SimInv /\ [SimNext]_simVars => SimInv'
      BY SimNextInv
<1> QED BY <1>1, <1>2, PTL DEF SimSpec
-----------------------------------------------------------------------------
(* Whatever has thrown before, an assembly finds the cached variables of   *)
(* its iterate and the old solution of the current time                    *)
(* (NewtonSolver::solve, newtonsolver.hh, and FVGridVariables).            *)
THEOREM AssembliesConsistent == SimSpec => []AssemblyIsConsistent
<1>1. SimInv => AssemblyIsConsistent
      BY DEF SimInv, GridState, MainState, CachesOfAttempt, AssemblyIsConsistent
<1> QED BY <1>1, SimInvariant, PTL

(* Between two solves the solutions, the grid variables and the time loop  *)
(* belong together (the main programs' oldSol = sol, advanceTimeStep).     *)
THEOREM SolutionsMatch == SimSpec => []SolutionMatchesTime
<1>1. SimInv => SolutionMatchesTime
      BY DEF SimInv, GridState, MainState, CachesFollow, IterateIsNew, SolutionMatchesTime
<1> QED BY <1>1, SimInvariant, PTL
-----------------------------------------------------------------------------
(* The main program as the client of its time loop: any step size may come  *)
(* from the solver, the notes are kept and nothing is left to align.        *)
Client == INSTANCE TimeLoopProofs
          WITH mustAlign <- FALSE, keepsNotes <- TRUE, StepSizes <- Nat

LEMMA ClientAssumption == Client!TimeLoopAssumption
  BY TimeLoopAssumption DEF TimeLoopAssumption, Client!TimeLoopAssumption

(* The time loop of the client is the time loop of the main program. *)
LEMMA SameBounds ==
    /\ \A a, b : AtMost(a, b) = Client!AtMost(a, b) /\ AtLeast(a, b) = Client!AtLeast(a, b)
    /\ \A t, end, m, flag : MaxStep(t, end, m, flag) = Client!MaxStep(t, end, m, flag)
    /\ \A t, p, next, q : StepToCheckPoint(t, p, next, q) = Client!StepToCheckPoint(t, p, next, q)
    /\ NextPeriodic = Client!NextPeriodic
    /\ NextPeriodic' = Client!NextPeriodic'
    /\ \A a, b, d : FuzzyEq(a, b, d) <=> Client!FuzzyEq(a, b, d)
<1>1. \A a, b : AtMost(a, b) = Client!AtMost(a, b) /\ AtLeast(a, b) = Client!AtLeast(a, b)
      BY DEF AtMost, AtLeast, Client!AtMost, Client!AtLeast
<1>2. \A a : Abs(a) = Client!Abs(a)
      BY <1>1, Zenon DEF Abs, Client!Abs
<1>3. \A t, end, flag : IsFinished(t, end, flag) <=> Client!IsFinished(t, end, flag)
      BY DEF IsFinished, Client!IsFinished
<1>4. ASSUME NEW t, NEW end, NEW m, NEW flag
      PROVE  MaxStep(t, end, m, flag) = Client!MaxStep(t, end, m, flag)
      BY <1>1, <1>3, Zenon DEF MaxStep, Client!MaxStep
<1>5. ASSUME NEW t, NEW p, NEW next, NEW q
      PROVE  StepToCheckPoint(t, p, next, q) = Client!StepToCheckPoint(t, p, next, q)
      BY <1>1, Zenon DEF StepToCheckPoint, Client!StepToCheckPoint
<1>6. NextPeriodic = Client!NextPeriodic /\ NextPeriodic' = Client!NextPeriodic'
      BY DEF NextPeriodic, Client!NextPeriodic
<1>7. ASSUME NEW a, NEW b, NEW d
      PROVE  FuzzyEq(a, b, d) <=> Client!FuzzyEq(a, b, d)
      BY <1>1, <1>2, Zenon DEF FuzzyEq, Client!FuzzyEq
<1> QED BY <1>1, <1>4, <1>5, <1>6, <1>7

LEMMA SameAlign ==
    /\ \A dt : BaseSetTimeStepSize(dt) <=> Client!BaseSetTimeStepSize(dt)
    /\ \A dt : AlignTimeStepSize(dt) <=> Client!AlignTimeStepSize(dt)
<1>1. ASSUME NEW dt PROVE BaseSetTimeStepSize(dt) <=> Client!BaseSetTimeStepSize(dt)
      BY SameBounds, Zenon DEF BaseSetTimeStepSize, Client!BaseSetTimeStepSize
<1>2. ASSUME NEW dt PROVE AlignTimeStepSize(dt) <=> Client!AlignTimeStepSize(dt)
      BY SameBounds, <1>1, Zenon DEF AlignTimeStepSize, Client!AlignTimeStepSize
<1> QED BY <1>1, <1>2

LEMMA SameAdvance == AdvanceTimeStep => Client!AdvanceTimeStep
<1>1. CutStep = Client!CutStep
      BY SameBounds, Zenon DEF CutStep, Client!CutStep
<1>2. AtPeriodic <=> Client!AtPeriodic
      BY <1>1, SameBounds, Zenon DEF AtPeriodic, Client!AtPeriodic
<1>3. AtManual <=> Client!AtManual
      BY <1>1, SameBounds, Zenon DEF AtManual, Client!AtManual
<1>4. QueueAfter = Client!QueueAfter
      BY <1>2, <1>3, Zenon DEF QueueAfter, Client!QueueAfter
<1> QED BY <1>1, <1>2, <1>3, <1>4, SameBounds, SameAlign DEF AdvanceTimeStep, Client!AdvanceTimeStep

LEMMA SameCalls ==
    /\ \A dt : SetTimeStepSize(dt) => Client!SetTimeStepSize(dt)
    /\ \A m : SetMaxTimeStepSize(m) => Client!SetMaxTimeStepSize(m)
    /\ \A i, o : SetPeriodicCheckPoint(i, o) => Client!SetPeriodicCheckPoint(i, o)
    /\ \A t : SetCheckPoint(t) => Client!SetCheckPoint(t)
<1>1. ASSUME NEW dt PROVE SetTimeStepSize(dt) => Client!SetTimeStepSize(dt)
      BY SameAlign DEF SetTimeStepSize, Client!SetTimeStepSize, checkVars, Client!checkVars
<1>2. ASSUME NEW m PROVE SetMaxTimeStepSize(m) => Client!SetMaxTimeStepSize(m)
      BY SameAlign DEF SetMaxTimeStepSize, Client!SetMaxTimeStepSize, checkVars, Client!checkVars
<1>3. ASSUME NEW i, NEW o PROVE SetPeriodicCheckPoint(i, o) => Client!SetPeriodicCheckPoint(i, o)
      BY SameAlign, SameBounds DEF SetPeriodicCheckPoint, Client!SetPeriodicCheckPoint,
                                   LastPeriod, Client!LastPeriod
<1>4. ASSUME NEW t PROVE SetCheckPoint(t) => Client!SetCheckPoint(t)
      BY SameAlign DEF SetCheckPoint, Client!SetCheckPoint, Enqueue, Client!Enqueue
<1> QED BY <1>1, <1>2, <1>3, <1>4
-----------------------------------------------------------------------------
(* What the client's invariant says of the main program's loop. *)
LEMMA ClientFacts ==
    ASSUME Client!KeptInv
    PROVE  /\ TypeOK
           /\ time <= endTime /\ timeStepSize \in Nat
           /\ periodicCheckPoints => deltaPeriodicCheckPoint > 0
           /\ checkPoints # << >> => time + timeStepSize <= Head(checkPoints)
           /\ periodicCheckPoints => time + timeStepSize <= NextPeriodic
<1>1. TypeOK
      BY DEF Client!KeptInv, Client!ClientTypeOK, Client!TypeOK, TypeOK
<1>2. /\ time <= endTime /\ timeStepSize >= 0
      /\ periodicCheckPoints => deltaPeriodicCheckPoint > 0
      /\ checkPoints # << >> => time + timeStepSize <= Head(checkPoints)
      /\ periodicCheckPoints => time + timeStepSize <= NextPeriodic
      BY DEF Client!KeptInv, Client!ClientStepAligned, Client!StepIsAligned,
             Client!NextPeriodic, NextPeriodic
<1> QED BY <1>1, <1>2 DEF TypeOK

(* Whichever way a scaled step is rounded, it is a step size. *)
LEMMA ToTicksAreSteps ==
    ASSUME NEW a \in Nat, NEW b \in Nat \ {0} PROVE ToTicks(a, b) \subseteq Nat
<1>1. PICK c \in Nat : c = a + b - 1
      OBVIOUS
<1>2. a \div b \in Nat /\ c \div b \in Nat
      OBVIOUS
<1> QED BY <1>1, <1>2 DEF ToTicks

LEMMA SuggestIsStep ==
    ASSUME numSteps \in Nat, NEW dt \in Nat PROVE SuggestTimeStepSize(dt) \subseteq Nat
<1>1. TargetSteps \in Nat \ {0}
      BY NewtonAssumption DEF NewtonAssumption
<1>2. CASE numSteps > TargetSteps
  <2>1. dt * TargetSteps \in Nat /\ numSteps \in Nat \ {0}
        BY <1>1, <1>2
  <2> QED BY <1>2, <2>1, ToTicksAreSteps DEF SuggestTimeStepSize
<1>3. CASE ~(numSteps > TargetSteps)
  <2>1. PICK k \in Nat : k = 11 * TargetSteps - 5 * numSteps
        BY <1>1, <1>3
  <2>2. dt * k \in Nat /\ 6 * TargetSteps \in Nat \ {0}
        BY <1>1
  <2> QED BY <1>3, <2>1, <2>2, ToTicksAreSteps DEF SuggestTimeStepSize
<1> QED BY <1>2, <1>3

(* The program keeps to the notes of the time loop, from a start at zero. *)
LoopInv == Client!KeptInv /\ SimInv /\ 0 \in Times

LEMMA LoopInit == SimInit => Client!ClientInit /\ LoopInv
<1> SUFFICES ASSUME SimInit PROVE Client!ClientInit /\ LoopInv
    OBVIOUS
<1>1. Init /\ time = 0
      BY DEF SimInit
<1>2. Client!Init
  <2>1. StepSizes \subseteq Nat
        BY TimeLoopAssumption DEF TimeLoopAssumption
  <2> QED BY <1>1, <2>1, SameBounds DEF Init, Client!Init
<1>3. Client!ClientInit
      BY <1>2 DEF Client!ClientInit
<1>4. Client!KeptInv
      BY <1>3, ClientAssumption, Client!ClientInitInv
<1> QED BY <1>1, <1>3, <1>4, SimInitInv DEF LoopInv, Init

LEMMA SimStepIsClientStep ==
    ASSUME LoopInv, [SimNext]_simVars PROVE Client!KeptCall \/ UNCHANGED vars
<1> USE DEF LoopInv
<1>1. ASSUME Client!AligningCall PROVE Client!KeptCall
      BY <1>1 DEF Client!KeptCall, Client!ClientAlign
<1>2. ASSUME NEW dt \in Nat, SetTimeStepSize(dt) PROVE Client!KeptCall
      BY <1>1, <1>2, SameCalls DEF Client!AligningCall
<1>3. timeStepSize \in Nat /\ numSteps \in Nat
      BY ClientFacts DEF SimInv
<1>4. CASE SetUp
  <2>1. ASSUME NEW m \in StepSizes, SetMaxTimeStepSize(m) PROVE Client!KeptCall
    <3>1. m \in Nat
          BY TimeLoopAssumption DEF TimeLoopAssumption
    <3> QED BY <2>1, <3>1, SameCalls DEF Client!KeptCall, Client!ClientNeutral, Client!NeutralCall
  <2>2. ASSUME NEW i \in Intervals, SetPeriodicCheckPoint(i, 0) PROVE Client!KeptCall
        BY <1>1, <2>2, SameCalls DEF Client!AligningCall
  <2>3. ASSUME NEW t \in Times, SetCheckPoint(t) PROVE Client!KeptCall
        BY <1>1, <2>3, SameCalls DEF Client!AligningCall
  <2> QED BY <1>4, <2>1, <2>2, <2>3 DEF SetUp
<1>5. CASE Solve
  <2>1. CASE RetryWithHalfStep
    <3>1. ToTicks(timeStepSize, 2) \subseteq Nat
          BY <1>3, ToTicksAreSteps
    <3> QED BY <1>2, <2>1, <3>1 DEF RetryWithHalfStep
  <2>2. CASE NewtonStep /\ ~RetryWithHalfStep
        BY <2>2 DEF NewtonStep, NewtonBegin, NewtonProceed, AssembleLinearSystem,
                    SolveLinearSystem, NewtonUpdate, NewtonEndStep, GiveUp
  <2> QED BY <1>5, <2>1, <2>2 DEF Solve
<1>6. CASE AdvanceLoop
  <2>1. Client!AdvanceTimeStep
        BY <1>6, SameAdvance DEF AdvanceLoop
  <2> QED BY <2>1 DEF Client!KeptCall, Client!ClientAdvance
<1>7. CASE SuggestStep
      BY <1>2, <1>3, <1>7, SuggestIsStep DEF SuggestStep
<1>8. CASE StartLoop \/ CallSolve \/ StoreSolution \/ LeaveLoop \/ Terminated \/ UNCHANGED simVars
      BY <1>8 DEF StartLoop, CallSolve, StoreSolution, LeaveLoop, Terminated, simVars
<1> QED BY <1>4, <1>5, <1>6, <1>7, <1>8 DEF SimNext

LEMMA LoopNext == ASSUME LoopInv, [SimNext]_simVars PROVE LoopInv'
<1>1. SimInv'
      BY SimNextInv DEF LoopInv
<1>2. CASE Client!KeptCall
      BY <1>1, <1>2, ClientAssumption, Client!KeptCallInv DEF LoopInv
<1>3. CASE UNCHANGED vars
  <2>1. Client!KeptInv'
        BY <1>3 DEF LoopInv, vars, baseVars, checkVars, Client!KeptInv, Client!ClientTypeOK,
                    Client!TypeOK, Client!QueueSorted, Client!ClientStepAligned,
                    Client!StepIsAligned, Client!NoneLeftBehind, Client!NextPeriodic
  <2> QED BY <1>1, <2>1 DEF LoopInv
<1> QED BY <1>2, <1>3, SimStepIsClientStep

LEMMA LoopInvariant == SimSpec => []LoopInv
<1>1. SimInit => LoopInv
      BY LoopInit
<1>2. LoopInv /\ [SimNext]_simVars => LoopInv'
      BY LoopNext
<1> QED BY <1>1, <1>2, PTL DEF SimSpec

(* The main program is a client of the check point loop that keeps to its  *)
(* notes, with whatever steps the Newton solver halves and suggests: all   *)
(* that is proved of such a client holds of it (the main programs' calls   *)
(* of setTimeStepSize after advanceTimeStep, and of the solver's).         *)
THEOREM MainProgramKeepsNotes == SimSpec => Client!ClientSpec
<1>1. SimInit => Client!ClientInit
      BY LoopInit
<1>2. ASSUME LoopInv, [SimNext]_simVars PROVE [Client!ClientNext]_(Client!clientVars)
  <2>1. UNCHANGED vars => UNCHANGED Client!clientVars
        BY DEF vars, baseVars, checkVars, Client!clientVars, Client!vars, Client!baseVars,
               Client!checkVars
  <2> QED BY <1>2, <2>1, SimStepIsClientStep DEF Client!ClientNext
<1> QED BY <1>1, <1>2, LoopInvariant, PTL DEF SimSpec, Client!ClientSpec
-----------------------------------------------------------------------------
(* No check point that was asked for is lost: its output is written or it  *)
(* lies ahead and the loop still knows of it.                              *)
StillAhead(t) == t > time /\ (t \in Manual \/ IsPeriodic(t))

OutputInv ==
    /\ finishedFlag = FALSE
    /\ wanted \subseteq Int
    /\ \A t \in wanted : t <= endTime
    /\ phase = "setup" => wanted = {}
    /\ \A t \in wanted : t \in outputs \/ StillAhead(t)
    /\ phase = "done" => time = endTime

(* A periodic check point lies at the next one or a whole number of        *)
(* intervals beyond it.                                                    *)
LEMMA PeriodicIsNextOrLater ==
    ASSUME NEW d \in Nat \ {0}, NEW last \in Int, NEW t \in Int, t > last, (t - last) % d = 0
    PROVE  /\ t >= last + d
           /\ (t - (last + d)) % d = 0
<1>1. PICK q \in Int : t - last = (d * q) + ((t - last) % d) /\ q = (t - last) \div d
      OBVIOUS
<1>2. t - last = d * q /\ t - last > 0 /\ t - last \in Int
      BY <1>1
<1>3. q >= 1
  <2>1. CASE q <= 0
    <3>1. PICK r \in Nat : q = 0 - r
          BY <2>1
    <3>2. d * q = 0 - d * r /\ d * r >= 0
          BY <3>1
    <3> QED BY <1>2, <3>2
  <2> QED BY <2>1
<1>4. PICK r \in Nat : q = r + 1
      BY <1>3
<1>5. t - last = d * r + d /\ d * r >= 0 /\ d * r \in Nat
      BY <1>2, <1>4
<1>6. t - (last + d) = d * r
      BY <1>5
<1>7. (d * r) % d = 0
      OBVIOUS
<1> QED BY <1>5, <1>6, <1>7

LEMMA NextIsPeriodic ==
    ASSUME NEW d \in Nat \ {0}, NEW last \in Int
    PROVE  last + d > last /\ ((last + d) - last) % d = 0
<1>1. (last + d) - last = d * 1 /\ last + d > last
      OBVIOUS
<1>2. \A r \in Nat : (d * r) % d = 0
      OBVIOUS
<1> QED BY <1>1, <1>2

(* What the next step meets or leaves ahead. *)
LEMMA AheadOfAdvance ==
    ASSUME ShortSimulations, LoopInv, Client!SpanInv, AdvanceTimeStep,
           NEW t \in Int, StillAhead(t)
    PROVE  (t = time' /\ isCheckPoint') \/ StillAhead(t)'
<1>1. /\ \A c \in Due : c >= time'
      /\ isCheckPoint' <=> time' \in Due
      /\ Due \ {time'} \subseteq Due'
  <2>1. Client!ShortSimulations
        BY SameBounds DEF ShortSimulations, Client!ShortSimulations, Abs, Client!Abs
  <2>2. Client!AdvanceTimeStep
        BY SameAdvance
  <2>3. Client!KeptInv
        BY DEF LoopInv
  <2>4. /\ \A c \in Client!Due : c >= time'
        /\ isCheckPoint' <=> time' \in Client!Due
        /\ Client!Due \ {time'} \subseteq Client!Due'
        BY <2>1, <2>2, <2>3, ClientAssumption, Client!AdvanceMeets
  <2>5. Due = Client!Due /\ Due' = Client!Due'
        BY SameBounds DEF Due, Client!Due
  <2> QED BY <2>4, <2>5
<1>2. /\ TypeOK /\ (periodicCheckPoints => deltaPeriodicCheckPoint > 0)
      /\ TypeOK'
  <2>1. LoopInv /\ TypeOK /\ (periodicCheckPoints => deltaPeriodicCheckPoint > 0)
        BY ClientFacts DEF LoopInv
  <2>2. Client!KeptInv'
        BY <2>1, SameAdvance, ClientAssumption, Client!KeptCallInv
        DEF LoopInv, Client!KeptCall, Client!ClientAdvance
  <2>3. TypeOK'
        BY <2>2 DEF Client!KeptInv, Client!ClientTypeOK, Client!TypeOK, TypeOK
  <2> QED BY <2>1, <2>3
<1>3. /\ periodicCheckPoints' = periodicCheckPoints
      /\ deltaPeriodicCheckPoint' = deltaPeriodicCheckPoint
      /\ lastPeriodicCheckPoint' = lastPeriodicCheckPoint
         \/ lastPeriodicCheckPoint' = lastPeriodicCheckPoint + deltaPeriodicCheckPoint
      BY DEF AdvanceTimeStep, NextPeriodic
<1>4. time' \in Int /\ lastPeriodicCheckPoint \in Int /\ deltaPeriodicCheckPoint \in Nat
      BY <1>2 DEF TypeOK
<1>5. ASSUME t \in Due PROVE (t = time' /\ isCheckPoint') \/ StillAhead(t)'
  <2>1. t >= time'
        BY <1>1, <1>5
  <2>2. CASE t = time'
        BY <1>1, <1>5, <2>2
  <2>3. CASE t # time'
    <3>1. t \in Due' /\ t > time'
          BY <1>1, <1>4, <1>5, <2>1, <2>3
    <3>2. CASE t \in Manual'
          BY <3>1, <3>2 DEF StillAhead
    <3>3. CASE periodicCheckPoints' /\ t = NextPeriodic'
      <4>1. deltaPeriodicCheckPoint' \in Nat \ {0} /\ lastPeriodicCheckPoint' \in Int
            BY <1>2, <1>3, <1>4, <3>3 DEF TypeOK
      <4>2. t = lastPeriodicCheckPoint' + deltaPeriodicCheckPoint'
            BY <3>3 DEF NextPeriodic
      <4>3. t > lastPeriodicCheckPoint'
            /\ (t - lastPeriodicCheckPoint') % deltaPeriodicCheckPoint' = 0
            BY <4>1, <4>2, NextIsPeriodic
      <4> QED BY <3>1, <3>3, <4>3 DEF StillAhead, IsPeriodic
    <3> QED BY <3>1, <3>2, <3>3 DEF Due, Manual
  <2> QED BY <2>2, <2>3
<1>6. CASE t \in Manual
      BY <1>5, <1>6 DEF Due, Manual
<1>7. CASE IsPeriodic(t)
  <2>1. /\ periodicCheckPoints /\ t > lastPeriodicCheckPoint
        /\ deltaPeriodicCheckPoint \in Nat \ {0}
        /\ (t - lastPeriodicCheckPoint) % deltaPeriodicCheckPoint = 0
        BY <1>2, <1>4, <1>7 DEF IsPeriodic
  <2>2. /\ t >= lastPeriodicCheckPoint + deltaPeriodicCheckPoint
        /\ (t - (lastPeriodicCheckPoint + deltaPeriodicCheckPoint)) % deltaPeriodicCheckPoint = 0
        BY <1>4, <2>1, PeriodicIsNextOrLater
  <2>3. CASE t = NextPeriodic
        BY <1>5, <2>1, <2>3 DEF Due
  <2>4. CASE t # NextPeriodic
    <3>1. t > NextPeriodic /\ NextPeriodic \in Int
          BY <1>4, <2>2, <2>4 DEF NextPeriodic
    <3>2. NextPeriodic >= time'
          BY <1>1, <2>1 DEF Due
    <3>3. t > time'
          BY <1>4, <3>1, <3>2
    <3>4. t > lastPeriodicCheckPoint'
          /\ (t - lastPeriodicCheckPoint') % deltaPeriodicCheckPoint' = 0
          BY <1>3, <2>1, <2>2, <3>1 DEF NextPeriodic
    <3> QED BY <1>3, <2>1, <3>3, <3>4 DEF StillAhead, IsPeriodic
  <2> QED BY <2>3, <2>4
<1> QED BY <1>6, <1>7 DEF StillAhead

(* The statements that move neither the clock nor the check points. *)
LEMMA OutputKept ==
    ASSUME OutputInv,
           UNCHANGED <<time, endTime, finishedFlag, checkVars, wanted, outputs>>,
           phase' = "setup" => phase = "setup",
           phase' = "done" => phase = "done"
    PROVE  OutputInv'
<1>1. ASSUME NEW t, StillAhead(t) PROVE StillAhead(t)'
      BY <1>1 DEF StillAhead, Manual, IsPeriodic, checkVars
<1> QED BY <1>1 DEF OutputInv

LEMMA OutputNext ==
    ASSUME ShortSimulations, LoopInv, Client!SpanInv, OutputInv, [SimNext]_simVars
    PROVE  OutputInv'
<1>1. TypeOK /\ time <= endTime
      BY ClientFacts DEF LoopInv
<1>2. CASE SetUp
  <2>1. phase = "setup" /\ phase' = "setup" /\ UNCHANGED <<finishedFlag, wanted>>
        BY <1>2 DEF SetUp, SetMaxTimeStepSize, SetPeriodicCheckPoint, SetCheckPoint, mainVars
  <2> QED BY <2>1 DEF OutputInv
<1>3. CASE StartLoop
  <2>1. /\ phase' = "loop"
        /\ UNCHANGED <<time, endTime, finishedFlag, checkVars>>
        /\ wanted' = {t \in (time + 1)..endTime : t \in Manual \/ IsPeriodic(t)}
        BY <1>3 DEF StartLoop, vars, baseVars
  <2>2. time \in Int /\ endTime \in Int
        BY <1>1 DEF TypeOK
  <2>3. ASSUME NEW t \in wanted' PROVE t \in Int /\ t <= endTime' /\ StillAhead(t)'
    <3>1. t \in (time + 1)..endTime /\ (t \in Manual \/ IsPeriodic(t))
          BY <2>1, <2>3
    <3>2. t \in Int /\ t <= endTime /\ t > time
          BY <2>2, <3>1
    <3> QED BY <2>1, <3>1, <3>2 DEF StillAhead, Manual, IsPeriodic, checkVars
  <2> QED BY <2>1, <2>3 DEF OutputInv
<1>4. CASE Solve
  <2>1. UNCHANGED <<time, endTime, finishedFlag, checkVars>>
        BY <1>4 DEF Solve, NewtonStep, NewtonBegin, NewtonProceed, AssembleLinearSystem,
                    SolveLinearSystem, NewtonUpdate, NewtonEndStep, GiveUp,
                    RetryWithHalfStep, SetTimeStepSize, vars, baseVars
  <2> QED BY <1>4, <2>1, OutputKept DEF Solve
<1>5. CASE CallSolve \/ StoreSolution \/ SuggestStep
  <2>1. /\ UNCHANGED <<time, endTime, finishedFlag, checkVars, wanted, outputs>>
        /\ phase' \notin {"setup", "done"}
        BY <1>5 DEF CallSolve, StoreSolution, SuggestStep, SetTimeStepSize, vars, baseVars,
                    mainVars
  <2> QED BY <2>1, OutputKept
<1>6. CASE AdvanceLoop
  <2>1. /\ phase' = "advanced"
        /\ UNCHANGED <<endTime, finishedFlag, wanted>>
        /\ AdvanceTimeStep
        /\ outputs' = IF isCheckPoint' \/ finished' THEN outputs \cup {time'} ELSE outputs
        BY <1>6 DEF AdvanceLoop, AdvanceTimeStep
  <2>2. ASSUME NEW t \in wanted PROVE t \in outputs' \/ StillAhead(t)'
    <3>1. CASE t \in outputs
          BY <2>1, <3>1
    <3>2. CASE StillAhead(t)
      <4>1. (t = time' /\ isCheckPoint') \/ StillAhead(t)'
            BY <2>1, <3>2, AheadOfAdvance DEF OutputInv
      <4> QED BY <2>1, <4>1
    <3> QED BY <3>1, <3>2 DEF OutputInv
  <2> QED BY <2>1, <2>2 DEF OutputInv
<1>7. CASE LeaveLoop
  <2>1. /\ UNCHANGED <<time, endTime, finishedFlag, checkVars, wanted, outputs>>
        /\ phase' \in {"done", "aborted"}
        /\ phase' = "done" => finished
        BY <1>7 DEF LeaveLoop, vars, baseVars
  <2>2. ASSUME NEW t, StillAhead(t) PROVE StillAhead(t)'
        BY <2>1, <2>2 DEF StillAhead, Manual, IsPeriodic, checkVars
  <2>3. finished => time = endTime
        BY <1>1 DEF OutputInv, finished, IsFinished, TypeOK
  <2> QED BY <2>1, <2>2, <2>3 DEF OutputInv
<1>8. CASE Terminated \/ UNCHANGED simVars
  <2>1. UNCHANGED <<time, endTime, finishedFlag, checkVars, wanted, outputs, phase>>
        BY <1>8 DEF Terminated, simVars, vars, baseVars, mainVars
  <2> QED BY <2>1, OutputKept
<1> QED BY <1>2, <1>3, <1>4, <1>5, <1>6, <1>7, <1>8 DEF SimNext

(* A simulation that ends normally has reached the end it was given and    *)
(* written output at every check point set before the loop, whatever the   *)
(* solver did to the steps, provided the tolerance of the comparison stays *)
(* below a tick (the loop of the main programs,                            *)
(* CheckPointTimeLoop::advanceTimeStep and isCheckPoint).                  *)
THEOREM OutputIsComplete == ShortSimulations => (SimSpec => []OutputComplete)
<1> SUFFICES ASSUME ShortSimulations PROVE SimSpec => []OutputComplete
    OBVIOUS
<1>1. SimInit => OutputInv
      BY DEF SimInit, Init, OutputInv
<1>2. LoopInv /\ Client!SpanInv /\ OutputInv /\ [SimNext]_simVars => OutputInv'
      BY OutputNext
<1>3. SimSpec => []Client!SpanInv
      BY MainProgramKeepsNotes, ClientAssumption, Client!SpanInvariant, PTL
<1>4. LoopInv /\ OutputInv => OutputComplete
  <2> SUFFICES ASSUME LoopInv, OutputInv, phase = "done"
               PROVE  time = endTime /\ wanted \subseteq outputs
      BY DEF OutputComplete
  <2>1. time = endTime /\ time \in Int
        BY ClientFacts DEF LoopInv, OutputInv, TypeOK
  <2>2. ASSUME NEW t \in wanted PROVE t \in outputs
    <3>1. t \in Int /\ ~(t > time)
          BY <2>1, <2>2 DEF OutputInv
    <3> QED BY <2>2, <3>1 DEF OutputInv, StillAhead
  <2> QED BY <2>1, <2>2
<1> QED BY <1>1, <1>2, <1>3, <1>4, LoopInvariant, PTL DEF SimSpec
-----------------------------------------------------------------------------
(* Types, beyond those of the time loop. *)
MainTypeOK ==
    /\ GridTypeOK /\ NewtonTypeOK
    /\ outputs \subseteq Int /\ wanted \subseteq Int
    /\ uLevel \in Int /\ prevLevel \in Int

LEMMA SolveKeepsType ==
    ASSUME LoopInv, MainTypeOK, Solve PROVE MainTypeOK'
<1> USE DEF MainTypeOK, GridTypeOK, NewtonTypeOK
<1>1. time \in Int /\ timeStepSize \in Int /\ numSteps \in Nat
      BY ClientFacts DEF LoopInv, TypeOK
<1>2. /\ UNCHANGED <<outputs, wanted, prevLevel>>
      /\ uLevel' \in {time + assembledStep, prevLevel, uLevel}
      BY DEF Solve
<1>3. GridTypeOK' /\ NewtonTypeOK'
  <2>1. CASE NewtonBegin
        BY <2>1, Zenon DEF NewtonBegin, UpdateBoundary, gridVars
  <2>2. CASE NewtonProceed
        BY <2>2 DEF NewtonProceed, gridVars
  <2>3. CASE AssembleLinearSystem
        BY <1>1, <2>3 DEF AssembleLinearSystem, Throw, GridDisturbed, gridVars
  <2>4. CASE SolveLinearSystem
        BY <2>4 DEF SolveLinearSystem, Throw, gridVars
  <2>5. CASE NewtonUpdate
        BY <2>5 DEF NewtonUpdate, Throw, GridUpdate
  <2>6. CASE NewtonEndStep
    <3>1. /\ u' \in Solutions /\ prevSol' \in Solutions /\ attempt' \in 0..MaxTimeStepDivisions
          /\ assembledStep' \in Int
          /\ pc' \in {"proceed", "diverged"} /\ numSteps' \in {numSteps, numSteps + 1}
          BY <2>6 DEF NewtonEndStep, SwitchPriVars, SwitchThrows, Throw
    <3>2. GridTypeOK'
          BY <2>6 DEF NewtonEndStep, SwitchPriVars, SwitchThrows, GridUpdate, GridDisturbed,
                      gridVars
    <3>3. priVarsSwitched' \in BOOLEAN
          BY <2>6, Zenon DEF NewtonEndStep, SwitchPriVars, SwitchThrows
    <3>4. converged' \in BOOLEAN
          BY <2>6, Zenon DEF NewtonEndStep
    <3>5. shrinking' \in BOOLEAN
          BY <2>6, Zenon DEF NewtonEndStep
    <3> QED BY <1>1, <3>1, <3>2, <3>3, <3>4, <3>5
  <2>7. CASE RetryWithHalfStep
    <3>1. attempt + 1 \in 0..MaxTimeStepDivisions
          BY <2>7, NewtonAssumption DEF RetryWithHalfStep, Retries, NewtonAssumption
    <3> QED BY <2>7, <3>1 DEF RetryWithHalfStep, GridResetTimeStep
  <2>8. CASE GiveUp
        BY <2>8 DEF GiveUp, gridVars
  <2> QED BY <2>1, <2>2, <2>3, <2>4, <2>5, <2>6, <2>7, <2>8 DEF Solve, NewtonStep
<1> QED BY <1>1, <1>2, <1>3

LEMMA MainKeepsType ==
    ASSUME LoopInv, MainTypeOK, [SimNext]_simVars PROVE MainTypeOK'
<1> USE DEF MainTypeOK, GridTypeOK, NewtonTypeOK
<1>1. CASE Solve
      BY <1>1, SolveKeepsType
<1>2. CASE SetUp \/ SuggestStep \/ LeaveLoop \/ Terminated \/ UNCHANGED simVars
      BY <1>2 DEF SetUp, SuggestStep, LeaveLoop, Terminated, simVars, gridVars, newtonVars,
                  mainVars
<1>3. CASE StartLoop
  <2>1. time \in Int /\ endTime \in Int
        BY ClientFacts DEF LoopInv, TypeOK
  <2>2. (time + 1)..endTime \subseteq Int
        BY <2>1
  <2> QED BY <1>3, <2>2 DEF StartLoop, gridVars, newtonVars
<1>4. CASE CallSolve
  <2>1. 0 \in 0..MaxTimeStepDivisions
        BY NewtonAssumption DEF NewtonAssumption
  <2> QED BY <1>4, <2>1 DEF CallSolve, gridVars, mainVars
<1>5. CASE StoreSolution
  <2>1. curVolVars = u
        BY <1>5 DEF LoopInv, SimInv, GridState, CachesFollow, StoreSolution
  <2> QED BY <1>5, <2>1 DEF StoreSolution, GridAdvanceTimeStep
<1>6. CASE AdvanceLoop
  <2>1. time' \in Int
        BY <1>6, ClientFacts DEF LoopInv, TypeOK, AdvanceLoop, AdvanceTimeStep
  <2> QED BY <1>6, <2>1 DEF AdvanceLoop, gridVars, newtonVars
<1> QED BY <1>1, <1>2, <1>3, <1>4, <1>5, <1>6 DEF SimNext

(* The note of steps that vanish is kept by every statement.               *)
LEMMA BelowTickKept ==
    ASSUME belowTick \in BOOLEAN, [SimNext]_simVars PROVE belowTick' \in BOOLEAN
<1>1. CASE Solve
      BY <1>1, Zenon DEF Solve
<1>2. CASE SuggestStep
      BY <1>2, Zenon DEF SuggestStep
<1>3. CASE ~Solve /\ ~SuggestStep
  <2>1. belowTick' = belowTick
        BY <1>3 DEF SimNext, SetUp, StartLoop, CallSolve, StoreSolution, AdvanceLoop,
                    LeaveLoop, Terminated, simVars, mainVars
  <2> QED BY <2>1
<1> QED BY <1>1, <1>2, <1>3

(* The main program, its solver and its time loop stay in their types: in  *)
(* particular no volume variables that an exception has left half updated  *)
(* become those of the old time level (FVGridVariables::advanceTimeStep).  *)
THEOREM SimTypeCorrect == SimSpec => []SimTypeOK
<1>1. SimInit => MainTypeOK
  <2> SUFFICES ASSUME SimInit PROVE MainTypeOK
      OBVIOUS
  <2>1. 0 \in 0..MaxTimeStepDivisions
        BY NewtonAssumption DEF NewtonAssumption
  <2>2. time \in Int /\ uLevel = time /\ prevLevel = time /\ outputs = {} /\ wanted = {}
        BY DEF SimInit
  <2>3. PICK sol \in Solutions : NewtonInit(sol) /\ GridInit(sol)
        BY DEF SimInit
  <2>4. GridTypeOK
        BY <2>3 DEF GridInit, GridTypeOK
  <2>5. NewtonTypeOK
    <3>1. converged \in BOOLEAN /\ shrinking \in BOOLEAN /\ priVarsSwitched \in BOOLEAN
          BY <2>3, Zenon DEF NewtonInit
    <3>2. /\ pc = "main" /\ u \in Solutions /\ prevSol \in Solutions
          /\ attempt = 0 /\ numSteps = 0 /\ assembledStep = 0
          BY <2>3 DEF NewtonInit
    <3> QED BY <2>1, <3>1, <3>2 DEF NewtonTypeOK
  <2> QED BY <2>2, <2>4, <2>5 DEF MainTypeOK
<1>2. LoopInv /\ MainTypeOK /\ [SimNext]_simVars => MainTypeOK'
      BY MainKeepsType
<1>3. /\ SimInit => belowTick \in BOOLEAN
      /\ belowTick \in BOOLEAN /\ [SimNext]_simVars => (belowTick \in BOOLEAN)'
      BY BelowTickKept DEF SimInit
<1>4. LoopInv /\ MainTypeOK /\ belowTick \in BOOLEAN => SimTypeOK
      BY ClientFacts DEF LoopInv, SimInv, MainState, MainTypeOK, SimTypeOK
<1> QED BY <1>1, <1>2, <1>3, <1>4, LoopInvariant, PTL DEF SimSpec
=============================================================================
