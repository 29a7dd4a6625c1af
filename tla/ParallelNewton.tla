--------------------------- MODULE ParallelNewton ---------------------------
(***************************************************************************)
(* NewtonSolver::solve(u, timeLoop) on the processes of a parallel run     *)
(* (dumux/nonlinear/newtonsolver.hh, FVAssembler::assemble_ and            *)
(* residualNorm in dumux/assembly/fvassembler.hh, and                      *)
(* PrimaryVariableSwitch::update).                                         *)
(*                                                                         *)
(* Every process runs its own copy of the solver.  They meet in collective *)
(* communications, which MPI matches by the order of the calls alone: a    *)
(* process blocks in its call until all others have made theirs.  Each     *)
(* collective call of the source has a name in Calls; a process whose      *)
(* control is there has made the call and waits.                           *)
(***************************************************************************)
EXTENDS Integers

CONSTANTS
    Ranks,                 \* the processes
    MaxTimeStepDivisions, MaxSteps,
    IterBound,             \* bound: iterations beyond MaxSteps while the shift shrinks
    ThrowSites             \* where one process among several may throw an exception

ASSUME ParallelAssumption ==
    /\ Ranks # {}
    /\ MaxTimeStepDivisions \in Nat /\ MaxSteps \in Nat /\ IterBound \in Nat
    /\ ThrowSites \subseteq {"solver", "gridUpdate", "switch"}

VARIABLES
    ranks,              \* the processes of the run: several or one
    residualCriterion,  \* newtonUpdate evaluates the residual: enableResidualCriterion_
    hasPriVarsSwitch,   \* the model switches primary variables
    pc,        \* [ranks -> control of the process]
    value,     \* [ranks -> the process's contribution to the call it waits in]
    numSteps, attempt,
    shiftIsLarge, switched, \* results of the last max(shift) and max(switched)
    shrinking               \* shift_*4.0 < lastShift_, from the global shifts

config == <<ranks, residualCriterion, hasPriVarsSwitch>>
vars == <<config, pc, value, numSteps, attempt, shiftIsLarge, switched, shrinking>>

Calls == {"minAssembled", "sumNorm", "solverSum", "minConverged", "minCaught",
          "maxShift", "minResidual", "sumResidual", "maxSwitched"}
Local == {"assemble", "setupSolver", "finishSolver", "updateShift", "gridUpdate",
          "switch", "endStep", "failed"}
Returned == {"converged", "threw"}

TypeOK ==
    /\ ranks \subseteq Ranks
    /\ residualCriterion \in BOOLEAN /\ hasPriVarsSwitch \in BOOLEAN
    /\ pc \in [ranks -> Calls \cup Local \cup Returned]
    /\ value \in [ranks -> BOOLEAN]
    /\ numSteps \in [ranks -> Nat]
    /\ attempt \in [ranks -> 0..MaxTimeStepDivisions]
    /\ shiftIsLarge \in [ranks -> BOOLEAN] /\ switched \in [ranks -> BOOLEAN]
    /\ shrinking \in [ranks -> BOOLEAN]

Init ==
    /\ ranks = Ranks \/ \E r \in Ranks : ranks = {r}
    /\ residualCriterion \in BOOLEAN /\ hasPriVarsSwitch \in BOOLEAN
    /\ pc = [r \in ranks |-> "assemble"]
    /\ value = [r \in ranks |-> FALSE]
    /\ numSteps = [r \in ranks |-> 0]
    /\ attempt = [r \in ranks |-> 0]
    /\ shiftIsLarge = [r \in ranks |-> TRUE]
    /\ switched = [r \in ranks |-> FALSE]
    /\ shrinking = [r \in ranks |-> FALSE]
-----------------------------------------------------------------------------
Goto(r, next) == pc' = [pc EXCEPT ![r] = next]

(* The process calls and contributes; the others are left alone. *)
Call(r, call, contribution) ==
    /\ Goto(r, call)
    /\ value' = [value EXCEPT ![r] = contribution]
    /\ UNCHANGED <<numSteps, attempt, shiftIsLarge, switched, shrinking>>

MayThrow(site) == site \in ThrowSites \/ \A r, s \in ranks : r = s

(* A NumericalProblem reaches the catch of solve_. *)
ThrowAlone(r, site) ==
    /\ MayThrow(site)
    /\ Goto(r, "failed")
    /\ UNCHANGED <<value, numSteps, attempt, shiftIsLarge, switched, shrinking>>

(* assemble_ catches a NumericalProblem of the process and reports it. *)
Assemble(r) ==
    /\ pc[r] = "assemble"
    /\ \E succeeded \in BOOLEAN : Call(r, "minAssembled", succeeded)

(* solveLinearSystem, up to the communication inside the linear solver: an *)
(* exception of the process enters the catch block and its min.            *)
SetupSolver(r) ==
    /\ pc[r] = "setupSolver"
    /\ \/ Call(r, "solverSum", TRUE)
       \/ MayThrow("solver") /\ Call(r, "minCaught", FALSE)

FinishSolver(r) ==
    /\ pc[r] = "finishSolver"
    /\ \/ \E conv \in BOOLEAN : Call(r, "minConverged", conv)
       \/ MayThrow("solver") /\ Call(r, "minCaught", FALSE)

(* newtonUpdate: the largest shift first, then the grid variables. *)
UpdateShift(r) ==
    /\ pc[r] = "updateShift"
    /\ \E large \in BOOLEAN : Call(r, "maxShift", large)

GridUpdate(r) ==
    /\ pc[r] = "gridUpdate"
    /\ \/ residualCriterion /\ \E succeeded \in BOOLEAN : Call(r, "minResidual", succeeded)
       \/ /\ ~residualCriterion
          /\ Goto(r, "switch")
          /\ UNCHANGED <<value, numSteps, attempt, shiftIsLarge, switched, shrinking>>
       \/ ThrowAlone(r, "gridUpdate")

(* newtonEndStep: the switch of the primary variables. *)
Switch(r) ==
    /\ pc[r] = "switch"
    /\ \/ hasPriVarsSwitch /\ \E sw \in BOOLEAN : Call(r, "maxSwitched", sw)
       \/ /\ ~hasPriVarsSwitch
          /\ Goto(r, "endStep")
          /\ UNCHANGED <<value, numSteps, attempt, shiftIsLarge, switched, shrinking>>
       \/ hasPriVarsSwitch /\ ThrowAlone(r, "switch")

(* ++numSteps_, newtonConverged and newtonProceed. *)
EndStep(r) ==
    LET n == numSteps[r] + 1
        conv == ~shiftIsLarge[r] /\ ~switched[r]
    IN  /\ pc[r] = "endStep"
        /\ numSteps' = [numSteps EXCEPT ![r] = n]
        /\ Goto(r, CASE n < 2 -> "assemble"
                     [] n >= 2 /\ conv -> "converged"
                     [] n >= 2 /\ ~conv /\ (n < MaxSteps \/ (shrinking[r] /\ n < IterBound)) -> "assemble"
                     [] OTHER -> "failed")
        /\ UNCHANGED <<value, attempt, shiftIsLarge, switched, shrinking>>

(* Mutant: one attempt too many. *)
RetriesOnceMore(r) == attempt[r] <= MaxTimeStepDivisions

Retries(r) == attempt[r] < MaxTimeStepDivisions

(* solve: half the step and another attempt, or the exception. *)
Fail(r) ==
    /\ pc[r] = "failed"
    /\ \/ /\ Retries(r)
          /\ attempt' = [attempt EXCEPT ![r] = @ + 1]
          /\ numSteps' = [numSteps EXCEPT ![r] = 0]
          /\ switched' = [switched EXCEPT ![r] = FALSE]
          /\ Goto(r, "assemble")
       \/ /\ ~Retries(r)
          /\ Goto(r, "threw")
          /\ UNCHANGED <<attempt, numSteps, switched>>
    /\ UNCHANGED <<value, shiftIsLarge, shrinking>>
-----------------------------------------------------------------------------
AllIn(call) == \A r \in ranks : pc[r] = call
AllTrue == \A r \in ranks : value[r]
AnyTrue == \E r \in ranks : value[r]

(* All processes go on from the collective call with the same result. *)
Resume(next) ==
    /\ pc' = [r \in ranks |-> next[r]]
    /\ UNCHANGED <<value, numSteps, attempt>>

Everyone(next) == [r \in ranks |-> next]

(* Mutant: a process goes by its own success. *)
AfterOwnAssembly ==
    [r \in ranks |-> IF ~value[r] THEN "failed"
                     ELSE IF numSteps[r] = 0 THEN "sumNorm" ELSE "setupSolver"]

AfterAssembly ==
    [r \in ranks |-> IF ~AllTrue THEN "failed"
                     ELSE IF numSteps[r] = 0 THEN "sumNorm" ELSE "setupSolver"]

(* Mutant: a process goes by its own success. *)
AfterOwnResidual == [r \in ranks |-> IF value[r] THEN "sumResidual" ELSE "failed"]

AfterResidual == Everyone(IF AllTrue THEN "sumResidual" ELSE "failed")

(* Mutant: a process goes by its own shift. *)
OwnShift == value

LargestShift == Everyone(AnyTrue)

Meet ==
    \/ /\ AllIn("minAssembled")
       /\ Resume(AfterAssembly)
       /\ UNCHANGED <<shiftIsLarge, switched, shrinking>>
    \/ /\ AllIn("sumNorm") /\ Resume(Everyone("setupSolver"))
       /\ UNCHANGED <<shiftIsLarge, switched, shrinking>>
    \/ /\ AllIn("solverSum") /\ Resume(Everyone("finishSolver"))
       /\ UNCHANGED <<shiftIsLarge, switched, shrinking>>
    \/ /\ AllIn("minConverged")
       /\ Resume(Everyone(IF AllTrue THEN "updateShift" ELSE "minCaught"))
       /\ UNCHANGED <<shiftIsLarge, switched, shrinking>>
    \/ /\ AllIn("minCaught") /\ Resume(Everyone("failed"))
       /\ UNCHANGED <<shiftIsLarge, switched, shrinking>>
    \/ /\ AllIn("maxShift") /\ Resume(Everyone("gridUpdate"))
       /\ shiftIsLarge' = LargestShift
       /\ \E b \in BOOLEAN : shrinking' = [r \in ranks |-> b]
       /\ UNCHANGED switched
    \/ /\ AllIn("minResidual")
       /\ Resume(AfterResidual)
       /\ UNCHANGED <<shiftIsLarge, switched, shrinking>>
    \/ /\ AllIn("sumResidual") /\ Resume(Everyone("switch"))
       /\ UNCHANGED <<shiftIsLarge, switched, shrinking>>
    \/ /\ AllIn("maxSwitched") /\ Resume(Everyone("endStep"))
       /\ switched' = Everyone(AnyTrue)
       /\ UNCHANGED <<shiftIsLarge, shrinking>>

LocalStep(r) ==
    \/ Assemble(r) \/ SetupSolver(r) \/ FinishSolver(r) \/ UpdateShift(r)
    \/ GridUpdate(r) \/ Switch(r) \/ EndStep(r) \/ Fail(r)

AllReturned == \A r \in ranks : pc[r] \in Returned

Terminated == AllReturned /\ UNCHANGED vars

Step == Meet \/ \E r \in ranks : LocalStep(r)

Next == (Step /\ UNCHANGED config) \/ Terminated

(* No process stops by itself, and MPI completes a call all have made. *)
Fairness ==
    /\ WF_vars(Meet /\ UNCHANGED config)
    /\ \A r \in Ranks : WF_vars(r \in ranks /\ LocalStep(r) /\ UNCHANGED config)

Spec == Init /\ [][Next]_vars
FairSpec == Spec /\ Fairness
-----------------------------------------------------------------------------
(* Two processes that wait in collective calls wait in the same one, of    *)
(* the same iteration and attempt: MPI would match them anyway.            *)
SameCall ==
    \A r, s \in ranks :
        pc[r] \in Calls /\ pc[s] \in Calls =>
            /\ pc[r] = pc[s]
            /\ numSteps[r] = numSteps[s] /\ attempt[r] = attempt[s]

(* The processes decide alike: none continues with another time step size, *)
(* another iteration or another outcome than the rest.                     *)
Agreement == INSTANCE SolveAgreement
    WITH Ranks <- Ranks,
         Outcomes <- Returned \X (0..MaxTimeStepDivisions),
         Pending <- <<"pending", 0>>,
         returned <- [r \in Ranks |-> IF r \in ranks /\ pc[r] \in Returned THEN <<pc[r], attempt[r]>>
                                      ELSE <<"pending", 0>>]

SolvesAlike == Agreement!AgreementSpec

(* No process waits for ever in a collective call. *)
AllReturn == <>AllReturned
=============================================================================
