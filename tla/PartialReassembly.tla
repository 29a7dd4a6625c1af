------------------------- MODULE PartialReassembly -------------------------
(***************************************************************************)
(* What the Newton solver keeps for the partial reassembly of the Jacobian *)
(* (dumux/nonlinear/newtonsolver.hh): for each degree of freedom the       *)
(* distance, its relative shift summed up since the last linearization.    *)
(* The engines in BoxReassembly and CellReassembly color by it             *)
(* (dumux/assembly/partialreassembler.hh).                                 *)
(*                                                                         *)
(* travel observes the run: after each assembly of the attempt, how far    *)
(* each degree of freedom has moved in all.                                *)
(***************************************************************************)
EXTENDS Integers, Sequences

CONSTANTS
    Dofs,
    Shifts,        \* relative shifts of a degree of freedom in one iteration
    Thresholds,    \* values of reassemblyThreshold, which follows the shift
    MaxIterations  \* bound: iterations in one attempt

ASSUME ReassemblyAssumption ==
    Shifts \subseteq Nat /\ Thresholds \subseteq Nat /\ MaxIterations \in Nat \ {0}

VARIABLES
    discMethod, \* which engine the program was compiled with
    phase,      \* the next call of solve_
    dist,       \* distanceFromLastLinearization_
    threshold,  \* reassemblyThreshold of the last newtonUpdate
    travel

distVars == <<discMethod, dist, threshold, travel>>

AtRest == [d \in Dofs |-> 0]

DistTypeOK ==
    /\ discMethod \in {"box", "cctpfa"}
    /\ phase \in {"assemble", "update", "failed"}
    /\ dist \in [Dofs -> Nat] /\ threshold \in Thresholds
    /\ travel \in Seq([Dofs -> Nat]) /\ Len(travel) \in 1..MaxIterations

DistInit ==
    /\ phase = "assemble"
    /\ dist = AtRest /\ threshold \in Thresholds
    /\ travel = <<AtRest>>

(* The start of solve_, for a new time step or after a failed attempt. *)
ResetDistance ==
    /\ phase' = "assemble"
    /\ dist' = AtRest
    /\ travel' = <<AtRest>>
    /\ UNCHANGED <<discMethod, threshold>>

(* newtonUpdate: the distances grow by the shift, the engine colors by     *)
(* them, and those of the degrees of freedom it colors red start over.     *)
UpdateDistance(shift, isRed) ==
    /\ phase = "update" /\ phase' = "assemble"
    /\ Len(travel) < MaxIterations
    /\ travel' = Append(travel, [d \in Dofs |-> travel[Len(travel)][d] + shift[d]])
    /\ dist' = [d \in Dofs |-> IF isRed[d] THEN 0 ELSE dist[d] + shift[d]]
    /\ UNCHANGED discMethod

(* Between an assembly and the update it leads to the system is solved. *)
Assembled(method) == discMethod = method /\ phase = "update"

(* How far d has moved since the assembly of iteration i. *)
Moved(d, i) == travel[Len(travel)][d] - travel[i][d]
=============================================================================
