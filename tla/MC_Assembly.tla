---------------------------- MODULE MC_Assembly -----------------------------
(***************************************************************************)
(* Partial reassembly with both engines, the switch of the primary         *)
(* variables on a grid and its rules at a single degree of freedom: a      *)
(* behavior is one of one subject, and what the others own stands still.   *)
(*                                                                         *)
(* The box engine works on a row of elements, each between two vertices:   *)
(* the first two on one process, the third on another, so that vertex 3    *)
(* lies on the border.  The cell-centered one works on four cells in a     *)
(* row, the switch on three, each face with its inside and its outside     *)
(* cell.  The engines share what the Newton solver keeps for either.       *)
(***************************************************************************)
EXTENDS BoxReassembly, CellReassembly, PrimaryVariableSwitch, PhasePresence

MCElements == 1..3
MCVertices == 1..4
MCVerticesOf == [e \in MCElements |-> {e, e + 1}]
MCHolder == [e \in MCElements |-> IF e = 3 THEN 2 ELSE 1]

MCConnectivity == [e \in MCVertices |-> {d \in MCVertices : d = e - 1 \/ d = e + 1}]

MCElementOrder == <<1, 2, 3>>
MCDofsOf == [e \in 1..3 |-> {e}]
MCFaces == {<<1, 2>>, <<2, 1>>, <<2, 3>>, <<3, 2>>}
MCStencil == [f \in MCFaces |-> {<<f[1], f[1]>>, <<f[2], f[2]>>}]

VARIABLE subject

ASSUME InstanceAssumption == CellAssumption /\ SwitchAssumption

boxOnly == <<elementColor, vertexColor, entries, linearized>>
cellOnly == <<cellColor, columnFrom>>

(* What stands still does so in one of its initial states. *)
Init ==
    /\ subject \in {"reassembly", "switch", "rules"}
    /\ DistInit /\ discMethod \in {"box", "cctpfa"} /\ BoxStart /\ CellStart
    /\ SwitchInit /\ PresenceInit
    /\ subject # "reassembly" => threshold = 0 /\ discMethod = "box"
    /\ subject # "switch" => sol = [d \in SwitchDofs |-> 0]
    /\ subject # "rules" =>
        /\ model = "co2" /\ formulation = "p0s1" /\ presence = WG /\ ~isFlagged
        /\ \A a \in DOMAIN excess : excess[a] = "none"

Next ==
    /\ UNCHANGED subject
    /\ \/ /\ subject = "reassembly" /\ discMethod = "box"
          /\ BoxNext /\ UNCHANGED <<cellOnly, switchVars, presenceVars>>
       \/ /\ subject = "reassembly" /\ discMethod = "cctpfa"
          /\ CellNext /\ UNCHANGED <<boxOnly, switchVars, presenceVars>>
       \/ /\ subject = "switch"
          /\ SwitchNext /\ UNCHANGED <<boxVars, cellOnly, presenceVars>>
       \/ /\ subject = "rules"
          /\ PresenceNext /\ UNCHANGED <<boxVars, cellOnly, switchVars>>

Spec == Init /\ [][Next]_<<subject, boxVars, cellOnly, switchVars, presenceVars>>

(* Every variable of each subject has its type.                            *)
TypesCorrect == BoxTypeOK /\ CellTypeOK /\ SwitchTypeOK /\ PresenceTypeOK
=============================================================================
