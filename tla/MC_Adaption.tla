---------------------------- MODULE MC_Adaption ----------------------------
(***************************************************************************)
(* Both kinds of grid adaption on the same small grid: a behavior is one   *)
(* of the sequential or one of the implicit model.  The field of a time    *)
(* step differs from leaf to leaf and is divisible as often as there are   *)
(* levels, so means are exact.                                             *)
(***************************************************************************)
EXTENDS GridAdapt

CONSTANT Models

VARIABLES model, round, preparedFor

Implicit == INSTANCE TwoPAdaptive WITH adaptionMap <- adaptationMap

allVars == <<adaptVars, model, round, preparedFor>>

Init ==
    /\ model \in Models
    /\ AdaptInit
    /\ round = 0 /\ preparedFor = leaves

Next ==
    \/ model = "sequential" /\ AdaptNext /\ UNCHANGED <<model, round, preparedFor>>
    \/ /\ model = "implicit" /\ Implicit!TwoPNext
       /\ UNCHANGED <<model, initializing, iter, maxLevel, nextMaxLevel, staleVerdict,
                      timeStepIndex>>

Spec == Init /\ [][Next]_allVars

(* The type invariant of the sequential model. *)
SeqTypeCorrect == model = "sequential" => AdaptTypeOK

(* Sequential model: neighbors of the leaf grid never differ by more than a *)
(* level (gridadapt.hh:350-355).                                            *)
RatioKept == model = "sequential" => RatioEnsured

(* Sequential model: storePrimVars, adapt and reconstructPrimVars together  *)
(* neither lose nor add anything of the cell data.                          *)
AmountsKept == model = "sequential" => TransferConserves

(* Implicit model: GridDataTransfer's store, adapt and reconstruct conserve *)
(* the mass in every element of both grids.                                 *)
MassKept == model = "implicit" => Implicit!MassConserved

(* Implicit model: after every adaption main() has set up the old solution, *)
(* the grid variables and the matrix pattern again, or the grid is the same. *)
DataCurrent == model = "implicit" => Implicit!DataFollowGrid

MCMacroCells == <<2, 1>>
MCMacroCells3 == <<1, 1, 2>>
MCPoints == {<<3, <<3, 3>>>>, <<3, <<8, 4>>>>}
MCPoints3 == {<<3, <<3, 3, 3>>>>}
MCField(e) == Descendants[LevelMax] *
    (1 + SumFunctionOnSet([d \in Dims |-> (e[2][d] + Level(e)) * d * d], Dims))
=============================================================================
