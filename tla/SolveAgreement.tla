-------------------------- MODULE SolveAgreement ---------------------------
(***************************************************************************)
(* What the processes of a parallel run expect of NewtonSolver::solve: all *)
(* of them return with the same outcome after the same number of time step *)
(* divisions, so that all time loops take the same step.                   *)
(***************************************************************************)
CONSTANTS Ranks, Outcomes, Pending

VARIABLE returned   \* [Ranks -> Outcomes \cup {Pending}]

AgreementInit == returned = [r \in Ranks |-> Pending]

Return(r, outcome) ==
    /\ returned[r] = Pending
    /\ \A s \in Ranks : returned[s] \in {Pending, outcome}
    /\ returned' = [returned EXCEPT ![r] = outcome]

AgreementNext == \E r \in Ranks, outcome \in Outcomes : Return(r, outcome)

AgreementSpec == AgreementInit /\ [][AgreementNext]_returned
=============================================================================
