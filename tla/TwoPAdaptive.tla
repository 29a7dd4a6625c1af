---------------------------- MODULE TwoPAdaptive ----------------------------
(***************************************************************************)
(* Grid adaption of the implicit two-phase model with a cell-centered      *)
(* scheme, as test/porousmediumflow/2p/implicit/adaptive/main.cc drives    *)
(* it: the indicators (2p/gridadaptindicator.hh,                           *)
(* adaptive/initializationindicator.hh), the marking, the adaption and the *)
(* transfer of the solution (2p/griddatatransfer.hh).                      *)
(*                                                                         *)
(* Density and porosity are one; the pressure, transferred as a mean, is   *)
(* left out.  The box scheme divides masses among vertices and is not      *)
(* modelled.                                                               *)
(***************************************************************************)
EXTENDS AdaptiveGrid

CONSTANTS
    Points,   \* smallest elements at which the indicators want refinement
    Field(_)  \* the saturation of a leaf after a time step

VARIABLES
    phase,       \* the place in a round of adaption
    wasAdapted,  \* local variable of main()
    saturation,  \* the solution x
    adaptionMap, \* entries of elements, empty between two adaptions
    previous,    \* the solution before the adaption
    sources,     \* the points the first rounds refine at
    round,       \* adaptions before the time loop that are over
    preparedFor  \* the leaves that xOld, the grid variables, the Jacobian's
                 \* pattern and the point sources were last set up for

twoPVars == <<gridVars, phase, wasAdapted, saturation, adaptionMap, previous, sources,
              round, preparedFor>>

NoEntries == [e \in {} |-> 0]
InTimeLoop == round > LevelMax

TwoPInit ==
    /\ leaves = ElementsOf(InitialLevel)
    /\ marks = [e \in leaves |-> 0] /\ isNew = {}
    /\ phase = "idle" /\ wasAdapted = FALSE
    /\ saturation = [e \in leaves |-> Field(e)]
    /\ adaptionMap = NoEntries /\ previous = saturation
    /\ sources \in SUBSET Points
    /\ round = 0 /\ preparedFor = leaves
-----------------------------------------------------------------------------
At(points) == {e \in leaves : \E p \in points : Covers(e, p)}

(* markElements(): nothing is adapted if nothing is marked. *)
MarkElements(mark) ==
    /\ marks' = mark
    /\ wasAdapted' = FALSE
    /\ phase' = IF \A e \in leaves : mark[e] = 0 THEN "done" ELSE "marked"
    /\ UNCHANGED <<leaves, isNew, saturation, adaptionMap, previous, sources, round,
                   preparedFor>>

(* The rounds with the initialization indicator, which coarsens nothing. *)
InitMark(e) ==
    IF Level(e) < LevelMin \/ (Level(e) # LevelMax /\ e \in At(sources)) THEN 1 ELSE 0

InitialRefinement ==
    /\ phase = "idle" /\ round < LevelMax
    /\ MarkElements([e \in leaves |-> InitMark(e)])

(* The indicator: a wish for every cell, by its difference in saturation. *)
Wishes ==
    {[e \in leaves |-> IF e \in At(points) THEN "refine"
                       ELSE IF e \in At(kept) THEN "keep" ELSE "coarsen"] :
        points \in SUBSET Points, kept \in {{}, Points}}

(* operator() *)
MarkOf(e, wish) ==
    IF HasFather(e) /\ wish[e] = "coarsen" THEN -1
    ELSE IF Level(e) < LevelMax /\ wish[e] = "refine" THEN 1 ELSE 0

(* calculate(): the neighbors that must be refined, too, wish it from then  *)
(* on, also in the loop that finds them.                                    *)
FollowedBy(e, wish) ==
    IF MarkOf(e, wish) > 0
    THEN [n \in leaves |-> IF n \in CheckNeighborsRefine[<<e, 1>>] THEN "refine" ELSE wish[n]]
    ELSE wish
Calculated(wish) ==
    IF LevelMin >= LevelMax THEN [e \in leaves |-> "keep"]
    ELSE FoldSet(FollowedBy, wish, leaves)

(* Before the time loop once, then at every step after the first. *)
Indicate ==
    /\ phase = "idle"
    /\ round = LevelMax \/ round > LevelMax + 1
    /\ \E wish \in Wishes :
          LET final == Calculated(wish)
          IN  MarkElements([e \in leaves |-> MarkOf(e, final)])
-----------------------------------------------------------------------------
Entry(e) == IF e \in DOMAIN adaptionMap THEN adaptionMap[e]
            ELSE [u |-> 0, count |-> 0, mass |-> 0, wasLeaf |-> FALSE]

(* store(): leaves enter their solution and mass, and every element adds   *)
(* its mass and the mean of its solution to its father.                    *)
Stored ==
    LET elements == Hierarchy(leaves)
        stored[e \in elements] ==
            LET sons == Sons(e, elements)
            IN  IF e \in leaves
                THEN [u |-> saturation[e], count |-> 1, wasLeaf |-> TRUE,
                      mass |-> Entry(e).mass + Volume(e) * saturation[e]]
                ELSE [u |-> Entry(e).u + SumFunctionOnSet(
                               [s \in sons |-> stored[s].u \div stored[s].count], sons),
                      count |-> Entry(e).count + Cardinality(sons), wasLeaf |-> FALSE,
                      mass |-> Entry(e).mass + SumFunctionOnSet(
                                  [s \in sons |-> stored[s].mass], sons)]
    IN  stored

Store ==
    /\ phase = "marked"
    /\ adaptionMap' = Stored /\ previous' = saturation
    /\ phase' = "stored"
    /\ UNCHANGED <<gridVars, wasAdapted, saturation, sources, round, preparedFor>>

(* Mutant: whether it has been refined. *)
ChangedByRefining == \E e \in leaves : marks[e] = 1

(* adapt() returns whether the grid might have been coarsened or refined. *)
Changed == \E e \in leaves : marks[e] # 0

Adapt ==
    /\ phase = "stored"
    /\ GridAdapts
    /\ wasAdapted' = Changed
    /\ phase' = "adapted"
    /\ UNCHANGED <<saturation, adaptionMap, previous, sources, round, preparedFor>>

(* reconstruct(): by its own entry, where coarsened by the mass of the      *)
(* children, where refined by that of the ancestor of the old grid.         *)
OldAncestor(e) ==
    CHOOSE a \in Hierarchy({e}) :
        /\ a \notin isNew
        /\ \A b \in Hierarchy({e}) : Level(b) > Level(a) => b \in isNew

(* Mutant: the mass is divided by the volume of the new element. *)
ReconstructedOverSon ==
    [e \in leaves |->
        LET entry == Entry(OldAncestor(e))
        IN  IF e \notin isNew /\ entry.wasLeaf THEN entry.u \div entry.count
            ELSE entry.mass \div Volume(e)]

Reconstructed ==
    [e \in leaves |->
        LET entry == Entry(OldAncestor(e))
        IN  IF e \notin isNew /\ entry.wasLeaf THEN entry.u \div entry.count
            ELSE entry.mass \div Volume(OldAncestor(e))]

Reconstruct ==
    /\ phase = "adapted"
    /\ saturation' = Reconstructed
    /\ adaptionMap' = NoEntries /\ isNew' = {}
    /\ phase' = "reconstructed"
    /\ UNCHANGED <<leaves, marks, wasAdapted, previous, sources, round, preparedFor>>

UpdateGridData ==
    /\ phase = "reconstructed"
    /\ preparedFor' = IF wasAdapted THEN leaves ELSE preparedFor
    /\ phase' = "done"
    /\ UNCHANGED <<gridVars, wasAdapted, saturation, adaptionMap, previous, sources, round>>
-----------------------------------------------------------------------------
EndRound ==
    /\ phase = "done" /\ ~InTimeLoop
    /\ round' = round + 1
    /\ phase' = "idle"
    /\ UNCHANGED <<gridVars, wasAdapted, saturation, adaptionMap, previous, sources,
                   preparedFor>>

(* A time step; the first one goes without an adaption. *)
Solve ==
    /\ InTimeLoop
    /\ phase = IF round = LevelMax + 1 THEN "idle" ELSE "done"
    /\ saturation' = [e \in leaves |-> Field(e)] /\ previous' = saturation'
    /\ round' = LevelMax + 2
    /\ phase' = "idle"
    /\ UNCHANGED <<gridVars, wasAdapted, adaptionMap, sources, preparedFor>>

TwoPNext ==
    \/ InitialRefinement \/ Indicate
    \/ Store \/ Adapt \/ Reconstruct \/ UpdateGridData
    \/ EndRound \/ Solve

TwoPSpec == TwoPInit /\ [][TwoPNext]_twoPVars
-----------------------------------------------------------------------------
(* In every element of both grids the mass is the same after the transfer  *)
(* as before, which griddatatransfer.hh promises for incompressible fluids *)
(* ("mass conservative one", lines 244 and 316).                           *)
MassConserved ==
    phase \in {"reconstructed", "done"} => SameAmounts(previous, saturation)

(* Whatever was marked, the next step finds the old solution, the grid     *)
(* variables, the matrix pattern and the point sources of the grid it is   *)
(* solved on.                                                              *)
DataFollowGrid == phase \in {"idle", "done"} => preparedFor = leaves
=============================================================================
