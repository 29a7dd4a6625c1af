----------------------- MODULE InstationarySimulation -----------------------
(***************************************************************************)
(* The main program of an instationary simulation: a check point time      *)
(* loop, a Newton solver with time step control and cached grid variables, *)
(* composed as in test/multidomain/embedded/1d3d/1p_richards/main.cc:      *)
(* 186-242 and the other main programs.                                    *)
(*                                                                         *)
(* uLevel, prevLevel, wanted and belowTick observe the run: the time       *)
(* levels that the two solution vectors belong to, the check points that   *)
(* the program has asked for, and whether a step was scaled down so far    *)
(* that the clock of the model does not show it any more.                  *)
(***************************************************************************)
EXTENDS NewtonSolver

CONSTANT
    DistinctCheckPoints  \* the program sets no two check points at one time

VARIABLES
    phase,      \* the statement of the main program
    outputs,    \* times at which output was written
    uLevel,     \* time level of u
    prevLevel,  \* time level of prevSol
    wanted,     \* check points set before the loop, up to the end
    belowTick   \* a step was scaled to less than a tick

mainVars == <<phase, outputs, uLevel, prevLevel, wanted, belowTick>>
simVars == <<vars, gridVars, newtonVars, mainVars>>

SimTypeOK ==
    /\ TypeOK /\ GridTypeOK /\ NewtonTypeOK
    /\ phase \in {"setup", "loop", "stored", "advanced", "done", "aborted"}
    /\ outputs \subseteq Int /\ wanted \subseteq Int
    /\ uLevel \in Int /\ prevLevel \in Int
    /\ belowTick \in BOOLEAN

SimInit ==
    /\ Init /\ time = 0 /\ timeStepSize > 0
    /\ \E sol \in Solutions : NewtonInit(sol) /\ GridInit(sol)
    /\ phase = "setup"
    /\ outputs = {} /\ wanted = {}
    /\ uLevel = time /\ prevLevel = time
    /\ belowTick = FALSE
-----------------------------------------------------------------------------
IsPeriodic(t) ==
    /\ periodicCheckPoints /\ t > lastPeriodicCheckPoint
    /\ (t - lastPeriodicCheckPoint) % deltaPeriodicCheckPoint = 0

Manual == {checkPoints[i] : i \in 1..Len(checkPoints)}

(* The calls before the loop. *)
SetUp ==
    /\ phase = "setup"
    /\ \/ \E maxDt \in StepSizes \ {0} : SetMaxTimeStepSize(maxDt)
       \/ \E i \in Intervals :
             /\ ~periodicCheckPoints /\ checkPoints = << >>
             /\ SetPeriodicCheckPoint(i, 0)
       \/ \E t \in Times :
             /\ t # time
             /\ DistinctCheckPoints => t \notin Manual /\ ~IsPeriodic(t)
             /\ SetCheckPoint(t)
    /\ UNCHANGED <<gridVars, newtonVars, mainVars>>

StartLoop ==
    /\ phase = "setup" /\ phase' = "loop"
    /\ wanted' = {t \in (time + 1)..endTime : t \in Manual \/ IsPeriodic(t)}
    /\ UNCHANGED <<vars, gridVars, newtonVars, outputs, uLevel, prevLevel, belowTick>>

(* setPreviousSolution(oldSol); solve(sol, timeLoop) *)
CallSolve ==
    /\ phase = "loop" /\ pc = "main" /\ ~finished
    /\ pc' = "begin" /\ attempt' = 0
    /\ UNCHANGED <<vars, gridVars, mainVars, u, prevSol, numSteps, converged,
                   shrinking, priVarsSwitched, assembledStep>>

(* A positive step becomes an empty one. *)
ScaledAway == timeStepSize > 0 /\ timeStepSize' = 0

Solve ==
    /\ phase = "loop"
    /\ NewtonStep
    /\ belowTick' = (belowTick \/ ScaledAway)
    /\ uLevel' = CASE pc = "update" -> time + assembledStep
                   [] pc = "diverged" /\ pc' = "begin" -> prevLevel
                   [] OTHER -> uLevel
    /\ UNCHANGED <<phase, outputs, prevLevel, wanted>>

(* Mutant: the grid variables are not advanced. *)
StoreSolutionAlone ==
    /\ phase = "loop" /\ pc = "converged"
    /\ phase' = "stored" /\ pc' = "main"
    /\ prevSol' = u /\ prevLevel' = uLevel
    /\ UNCHANGED <<vars, gridVars, outputs, uLevel, wanted, belowTick, u, attempt, numSteps, converged,
                   shrinking, priVarsSwitched, assembledStep>>

(* oldSol = sol; gridVariables->advanceTimeStep() *)
StoreSolution ==
    /\ phase = "loop" /\ pc = "converged"
    /\ phase' = "stored" /\ pc' = "main"
    /\ prevSol' = u /\ prevLevel' = uLevel
    /\ GridAdvanceTimeStep
    /\ UNCHANGED <<vars, outputs, uLevel, wanted, belowTick, u, attempt, numSteps, converged,
                   shrinking, priVarsSwitched, assembledStep>>

(* Mutant: the flag is read before the time loop is advanced. *)
AdvanceLoopOldFlag ==
    /\ phase = "stored" /\ phase' = "advanced"
    /\ AdvanceTimeStep
    /\ outputs' = IF isCheckPoint \/ finished' THEN outputs \cup {time'} ELSE outputs
    /\ UNCHANGED <<gridVars, newtonVars, uLevel, prevLevel, wanted, belowTick>>

(* timeLoop->advanceTimeStep() and the output at check points. *)
AdvanceLoop ==
    /\ phase = "stored" /\ phase' = "advanced"
    /\ AdvanceTimeStep
    /\ outputs' = IF isCheckPoint' \/ finished' THEN outputs \cup {time'} ELSE outputs
    /\ UNCHANGED <<gridVars, newtonVars, uLevel, prevLevel, wanted, belowTick>>

(* setTimeStepSize(suggestTimeStepSize(timeStepSize())) *)
SuggestStep ==
    /\ phase = "advanced" /\ phase' = "loop"
    /\ \E dt \in SuggestTimeStepSize(timeStepSize) : SetTimeStepSize(dt)
    /\ belowTick' = (belowTick \/ ScaledAway)
    /\ UNCHANGED <<gridVars, newtonVars, outputs, uLevel, prevLevel, wanted>>

LeaveLoop ==
    /\ \/ phase = "loop" /\ pc = "main" /\ finished /\ phase' = "done"
       \/ phase = "loop" /\ pc = "threw" /\ phase' = "aborted"
    /\ UNCHANGED <<vars, gridVars, newtonVars, outputs, uLevel, prevLevel, wanted, belowTick>>

Terminated == phase \in {"done", "aborted"} /\ UNCHANGED simVars

SimNext ==
    \/ SetUp \/ StartLoop \/ CallSolve \/ Solve \/ StoreSolution
    \/ AdvanceLoop \/ SuggestStep \/ LeaveLoop \/ Terminated

(* One thread runs the statements one after the other: it never stops     *)
(* before the end of the program, and it does start its loop.              *)
Fairness ==
    /\ WF_simVars(StartLoop)
    /\ WF_simVars(CallSolve \/ Solve \/ StoreSolution \/ AdvanceLoop \/ SuggestStep \/ LeaveLoop)

SimSpec == SimInit /\ [][SimNext]_simVars
FairSimSpec == SimSpec /\ Fairness
-----------------------------------------------------------------------------
(* Whatever failed before, an assembly finds the cached variables of the    *)
(* iterate it linearizes at, and evaluates the storage of the old solution  *)
(* at the current time; only after the boundary was rewritten does the      *)
(* first assembly of the attempt find stale volume variables.               *)
AssemblyIsConsistent ==
    pc = "assemble" =>
        /\ curVolVars = u \/ (curVolVars = Stale /\ numSteps = 0)
        /\ fluxVarsCache = u
        /\ prevVolVars = prevSol
        /\ prevLevel = time

(* Outside of solve, the solution and the grid variables belong together   *)
(* and to the time of the loop; the accepted solution was computed with    *)
(* the step the loop then takes.                                           *)
SolutionMatchesTime ==
    /\ pc = "main" /\ phase \in {"loop", "advanced", "done"} =>
          /\ uLevel = time /\ prevSol = u
          /\ curVolVars = u /\ prevVolVars = u
    /\ phase = "stored" => uLevel = time + timeStepSize

(* A program that ends normally has written output at every check point. *)
OutputComplete == phase = "done" => time = endTime /\ wanted \subseteq outputs

(* The time loop ends, the end is reached or the Newton solver gives up,    *)
(* unless failed attempts and slow solves shrink the steps for ever: the    *)
(* solver has no lower bound for them.                                      *)
LoopEnds == <>(phase \in {"done", "aborted"} \/ belowTick)
=============================================================================
