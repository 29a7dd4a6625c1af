------------------------- MODULE MC_CellReassembly -------------------------
(* Four cells in a row.                                                    *)
EXTENDS CellReassembly

MCCells == 1..4
MCConnectivity == [e \in MCCells |-> {d \in MCCells : d = e - 1 \/ d = e + 1}]
=============================================================================
