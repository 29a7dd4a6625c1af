--------------------------- MODULE GridVariables ---------------------------
(***************************************************************************)
(* The variables of the grid with global caching                           *)
(* (dumux/discretization/fvgridvariables.hh): the volume variables of the  *)
(* current and of the previous time level and the cache of the flux        *)
(* variables.  A set of cached values is represented by the solution it    *)
(* was computed from, or by Mixed when it belongs to no solution: an       *)
(* exception has left it half updated or with one entry deflected.         *)
(***************************************************************************)
CONSTANTS
    Solutions,  \* identities of solution vectors
    Mixed,      \* cached values that belong to no solution vector
    Stale       \* those of a solution that was then rewritten at the boundary

ASSUME GridVariablesAssumption == {Mixed, Stale} \cap Solutions = {} /\ Mixed # Stale

VARIABLES curVolVars, prevVolVars, fluxVarsCache

gridVars == <<curVolVars, prevVolVars, fluxVarsCache>>

GridTypeOK ==
    /\ curVolVars \in Solutions \cup {Mixed, Stale}
    /\ prevVolVars \in Solutions
    /\ fluxVarsCache \in Solutions \cup {Mixed}

(* init(curSol) *)
GridInit(sol) ==
    /\ curVolVars = sol
    /\ prevVolVars = sol
    /\ fluxVarsCache = sol

(* update(curSol): the flux cache depends on the solution and is renewed. *)
GridUpdate(sol) ==
    /\ curVolVars' = sol
    /\ fluxVarsCache' = sol
    /\ UNCHANGED prevVolVars

(* A calculation with a numerical differentiation or an update that throws *)
(* leaves the current values and the flux cache in between.                *)
GridDisturbed ==
    /\ curVolVars' \in {curVolVars, Mixed}
    /\ fluxVarsCache' \in {fluxVarsCache, Mixed}
    /\ UNCHANGED prevVolVars

(* advanceTimeStep() *)
GridAdvanceTimeStep ==
    /\ prevVolVars' = curVolVars
    /\ UNCHANGED <<curVolVars, fluxVarsCache>>

(* Mutant: the flux cache is not updated. *)
GridResetVolVars(sol) ==
    /\ curVolVars' = prevVolVars
    /\ UNCHANGED <<prevVolVars, fluxVarsCache>>

(* resetTimeStep(solution): the flux cache is computed from the reset      *)
(* volume variables and the solution passed.                               *)
GridResetTimeStep(sol) ==
    /\ curVolVars' = prevVolVars
    /\ fluxVarsCache' = IF prevVolVars = sol THEN sol ELSE Mixed
    /\ UNCHANGED prevVolVars
=============================================================================
