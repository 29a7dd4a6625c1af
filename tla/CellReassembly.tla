--------------------------- MODULE CellReassembly ---------------------------
(***************************************************************************)
(* The partial reassembly engine of the cell-centered schemes with the     *)
(* local assembler it steers (dumux/assembly/partialreassembler.hh,        *)
(* cclocalassembler.hh), on one process.  An element that is not green     *)
(* renews its column: the derivatives of its residual and of those of its  *)
(* neighbors with respect to its own unknowns.                             *)
(***************************************************************************)
EXTENDS PartialReassembly

CONSTANT ConnectivityMap  \* [Dofs -> SUBSET Dofs], elements whose flux sees the element

CellAssumption ==
    /\ ConnectivityMap \in [Dofs -> SUBSET Dofs]
    /\ \A c, d \in Dofs : c \in ConnectivityMap[d] <=> d \in ConnectivityMap[c]

VARIABLES
    cellColor,  \* [Dofs -> {"red", "green"}]
    columnFrom  \* [Dofs -> Nat], the iteration each column stems from; 0: an
                \* earlier attempt or, in part, an assembly that has thrown

cellVars == <<phase, distVars, cellColor, columnFrom>>

CellTypeOK ==
    /\ DistTypeOK
    /\ cellColor \in [Dofs -> {"red", "green"}]
    /\ columnFrom \in [Dofs -> 0..MaxIterations]

CellStart ==
    /\ cellColor = [e \in Dofs |-> "red"]
    /\ columnFrom = [e \in Dofs |-> 0]

CellInit == DistInit /\ discMethod = "cctpfa" /\ CellStart

(* computeColors: the elements that are too far from the last              *)
(* linearization, then the neighbors of elements that are not red but too  *)
(* far: there are none.                                                    *)
ComputeCellColors(distance, t) ==
    LET isFar(e) == distance[e] > t
        isNeighbor(e) == \E d \in ConnectivityMap[e] : ~isFar(d) /\ distance[d] > t
    IN  cellColor' = [e \in Dofs |-> IF isFar(e) \/ isNeighbor(e) THEN "red" ELSE "green"]

UpdateColumns ==
    \E shift \in [Dofs -> Shifts], t \in Thresholds :
        /\ threshold' = t
        /\ ComputeCellColors([e \in Dofs |-> dist[e] + shift[e]], t)
        /\ UpdateDistance(shift, [e \in Dofs |-> cellColor'[e] = "red"])
        /\ UNCHANGED columnFrom

(* resetJacobian clears the columns of the red elements, and the assembler *)
(* adds them anew.                                                         *)
AssembleColumns ==
    /\ phase = "assemble" /\ phase' = "update"
    /\ columnFrom' = [e \in Dofs |->
            IF cellColor[e] = "red" THEN Len(travel) ELSE columnFrom[e]]
    /\ UNCHANGED <<distVars, cellColor>>

ColumnsThrow ==
    /\ phase = "assemble" /\ phase' = "failed"
    /\ columnFrom' = [e \in Dofs |-> IF cellColor[e] = "red" THEN 0 ELSE columnFrom[e]]
    /\ UNCHANGED <<distVars, cellColor>>

(* Mutant: the colors are not reset. *)
CellsSolveAgainColored ==
    /\ ResetDistance
    /\ columnFrom' = [e \in Dofs |-> 0]
    /\ UNCHANGED cellColor

CellsSolveAgain ==
    /\ ResetDistance
    /\ cellColor' = [e \in Dofs |-> "red"]
    /\ columnFrom' = [e \in Dofs |-> 0]

CellNext == UpdateColumns \/ AssembleColumns \/ ColumnsThrow \/ CellsSolveAgain

CellSpec == CellInit /\ [][CellNext]_cellVars
-----------------------------------------------------------------------------
(* The system is never solved with a column of an earlier attempt, and the *)
(* element of a column that was kept has moved by no more than the         *)
(* threshold since the column was linearized.                              *)
KeptColumnsAreClose ==
    Assembled("cctpfa") =>
        \A e \in Dofs : columnFrom[e] > 0 /\ Moved(e, columnFrom[e]) <= threshold

(* So have the neighbors, on whose state the derivatives depend too: the   *)
(* engine promises to "mark all neighbors of 'red' elements also 'red'".   *)
KeptNeighborsAreClose ==
    Assembled("cctpfa") =>
        \A e \in Dofs : \A d \in ConnectivityMap[e] :
            columnFrom[e] > 0 => Moved(d, columnFrom[e]) <= threshold
=============================================================================
