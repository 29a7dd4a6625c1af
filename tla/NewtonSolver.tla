---------------------------- MODULE NewtonSolver ----------------------------
(***************************************************************************)
(* The Newton method with time step control                                *)
(* (dumux/nonlinear/newtonsolver.hh) together with the assembler           *)
(* (dumux/assembly/fvassembler.hh) it drives: solve(u, timeLoop) and the   *)
(* loop of solve_, one action per call that can throw.                     *)
(*                                                                         *)
(* The numbers are abstracted: a Newton update yields some other solution, *)
(* any call of the assembler, of the linear solver or of the grid          *)
(* variables may throw a NumericalProblem, and whether the tolerance is    *)
(* met or the shift has shrunk by a factor of four is a choice.            *)
(***************************************************************************)
EXTENDS TimeLoop, GridVariables

CONSTANTS
    MaxTimeStepDivisions,  \* Newton.MaxTimeStepDivisions
    TargetSteps,           \* Newton.TargetSteps
    MaxSteps,              \* Newton.MaxSteps
    IterBound,             \* bound: iterations beyond MaxSteps while the shift shrinks
    HasPriVarsSwitch       \* the model switches primary variables

ASSUME NewtonAssumption ==
    /\ MaxTimeStepDivisions \in Nat
    /\ TargetSteps \in Nat \ {0} /\ MaxSteps \in Nat /\ IterBound \in Nat
    /\ HasPriVarsSwitch \in BOOLEAN

VARIABLES
    pc,         \* the call solve(u, timeLoop) is at; "main" outside of it
    u,          \* uCurrentIter, the caller's current solution
    prevSol,    \* *prevSol_ of the assembler, the caller's old solution
    attempt,    \* i, time step divisions so far
    numSteps,   \* numSteps_
    converged,  \* result of the last newtonConverged()
    shrinking,  \* shift_*4.0 < lastShift_
    priVarsSwitched,  \* priVarsSwitchedInLastIteration_
    assembledStep     \* the time step size the system was last assembled with

newtonVars == <<pc, u, prevSol, attempt, numSteps, converged, shrinking,
                priVarsSwitched, assembledStep>>

NewtonTypeOK ==
    /\ pc \in {"main", "begin", "proceed", "assemble", "linearSolve", "update",
               "endStep", "diverged", "converged", "threw"}
    /\ u \in Solutions /\ prevSol \in Solutions
    /\ attempt \in 0..MaxTimeStepDivisions /\ numSteps \in Nat
    /\ converged \in BOOLEAN /\ shrinking \in BOOLEAN /\ priVarsSwitched \in BOOLEAN
    /\ assembledStep \in Int

NewtonInit(sol) ==
    /\ pc = "main" /\ u = sol /\ prevSol = sol
    /\ attempt = 0 /\ numSteps = 0
    /\ converged = FALSE /\ shrinking = FALSE /\ priVarsSwitched = FALSE
    /\ assembledStep = 0

(* A NumericalProblem ends the attempt; solve_ catches it and returns false. *)
Throw == pc' = "diverged"
-----------------------------------------------------------------------------
(* newtonBegin: initPriVarSwitch_ clears the flag of the last iteration.    *)
(* With the box method it may rewrite the solution at the boundary; the     *)
(* cached volume variables follow it in part of the elements only (module   *)
(* PrimaryVariableSwitch), its flux cache does not depend on the solution.  *)
UpdateBoundary ==
    \/ UNCHANGED <<u, gridVars>>
    \/ /\ HasPriVarsSwitch
       /\ u' \in Solutions \ {u}
       /\ curVolVars' = Stale
       /\ fluxVarsCache' = u'
       /\ UNCHANGED prevVolVars

NewtonBegin ==
    /\ pc = "begin" /\ pc' = "proceed"
    /\ numSteps' = 0
    /\ converged' = FALSE
    /\ priVarsSwitched' = IF HasPriVarsSwitch THEN FALSE ELSE priVarsSwitched
    /\ UpdateBoundary
    /\ UNCHANGED <<vars, prevSol, attempt, shrinking, assembledStep>>

(* newtonProceed: two iterations at least, then until the tolerance is met, *)
(* then beyond the maximum only while the shift shrinks.                    *)
Proceeds ==
    \/ numSteps < 2
    \/ ~converged /\ numSteps < MaxSteps
    \/ ~converged /\ shrinking

NewtonProceed ==
    /\ pc = "proceed"
    /\ pc' = CASE Proceeds -> "assemble"
               [] ~Proceeds /\ converged -> "converged"
               [] OTHER -> "diverged"
    /\ UNCHANGED <<vars, gridVars, u, prevSol, attempt, numSteps, converged,
                   shrinking, priVarsSwitched, assembledStep>>

(* assembleJacobianAndResidual evaluates the storage of the step with the  *)
(* time step size of the time loop.  The numerical differentiation         *)
(* deflects the cached variables and restores them, unless it throws.      *)
AssembleLinearSystem ==
    /\ pc = "assemble"
    /\ assembledStep' = timeStepSize
    /\ \/ pc' = "linearSolve" /\ UNCHANGED gridVars
       \/ Throw /\ GridDisturbed
    /\ UNCHANGED <<vars, u, prevSol, attempt, numSteps, converged, shrinking, priVarsSwitched>>

SolveLinearSystem ==
    /\ pc = "linearSolve"
    /\ pc' = "update" \/ Throw
    /\ UNCHANGED <<vars, gridVars, u, prevSol, attempt, numSteps, converged,
                   shrinking, priVarsSwitched, assembledStep>>

(* newtonUpdate: the new iterate, then the grid variables brought to it. *)
NewtonUpdate ==
    /\ pc = "update"
    /\ u' \in Solutions
    /\ \/ pc' = "endStep" /\ GridUpdate(u')
       \/ Throw /\ curVolVars' = Mixed /\ fluxVarsCache' = Mixed /\ UNCHANGED prevVolVars
    /\ UNCHANGED <<vars, prevSol, attempt, numSteps, converged, shrinking,
                   priVarsSwitched, assembledStep>>

(* invokePriVarSwitch_ rewrites the solution and the cached variables of    *)
(* the degrees of freedom it switches; it may throw half way through.       *)
SwitchPriVars ==
    /\ HasPriVarsSwitch
    /\ priVarsSwitched' = TRUE
    /\ u' \in Solutions
    /\ GridUpdate(u')

SwitchThrows ==
    /\ HasPriVarsSwitch
    /\ u' \in Solutions
    /\ GridDisturbed
    /\ UNCHANGED priVarsSwitched

(* newtonEndStep and newtonConverged, which is false after a switch. *)
NewtonEndStep ==
    /\ pc = "endStep"
    /\ \/ /\ \/ SwitchPriVars
             \/ priVarsSwitched' = FALSE /\ UNCHANGED <<u, gridVars>>
          /\ numSteps' = numSteps + 1
          /\ converged' \in (IF priVarsSwitched' THEN {FALSE} ELSE BOOLEAN)
          /\ shrinking' \in (IF numSteps' < IterBound THEN BOOLEAN ELSE {FALSE})
          /\ pc' = "proceed"
       \/ /\ SwitchThrows
          /\ Throw
          /\ UNCHANGED <<numSteps, converged, shrinking>>
    /\ UNCHANGED <<vars, prevSol, attempt, assembledStep>>

(* A quotient as the clock shows it: the tick below or the tick above.      *)
(* Nothing keeps a scaled step from falling below a tick.                   *)
ToTicks(a, b) == {a \div b, (a + b - 1) \div b}

(* Mutant: one attempt too many. *)
RetriesOnceMore == attempt <= MaxTimeStepDivisions

Retries == attempt < MaxTimeStepDivisions

(* A failed attempt: back to the previous solution and half the step. *)
RetryWithHalfStep ==
    /\ pc = "diverged" /\ Retries
    /\ u' = prevSol
    /\ GridResetTimeStep(u')
    /\ attempt' = attempt + 1
    /\ pc' = "begin"
    /\ \E dt \in ToTicks(timeStepSize, 2) : SetTimeStepSize(dt)
    /\ UNCHANGED <<prevSol, numSteps, converged, shrinking, priVarsSwitched, assembledStep>>

(* The last failed attempt: solve throws, nothing is reset. *)
GiveUp ==
    /\ pc = "diverged" /\ ~Retries
    /\ pc' = "threw"
    /\ UNCHANGED <<vars, gridVars, u, prevSol, attempt, numSteps, converged,
                   shrinking, priVarsSwitched, assembledStep>>

NewtonStep ==
    \/ NewtonBegin \/ NewtonProceed \/ AssembleLinearSystem \/ SolveLinearSystem
    \/ NewtonUpdate \/ NewtonEndStep \/ RetryWithHalfStep \/ GiveUp

(* suggestTimeStepSize: the old step scaled by the ratio of the target to  *)
(* the iterations needed, damped when it grows.                            *)
SuggestTimeStepSize(dt) ==
    IF numSteps > TargetSteps THEN ToTicks(dt * TargetSteps, numSteps)
    ELSE ToTicks(dt * (11 * TargetSteps - 5 * numSteps), 6 * TargetSteps)
=============================================================================
