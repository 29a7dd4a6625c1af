--------------------------- MODULE MC_Sequential ---------------------------
(* A row of three cells, closed at both ends by a boundary face. *)
EXTENDS LocalTimeStepping

MCCells == 1..3
MCCellsOf ==
    [f \in {"left", "12", "23", "right"} |->
        CASE f = "left" -> {1} [] f = "12" -> {1, 2}
          [] f = "23" -> {2, 3} [] f = "right" -> {3}]
=============================================================================
