--------------------------- MODULE BoxReassembly ---------------------------
(***************************************************************************)
(* The partial reassembly engine of the box method with the local          *)
(* assembler it steers (dumux/assembly/partialreassembler.hh,              *)
(* boxlocalassembler.hh), on the processes of a parallel run without       *)
(* ghost elements: an element belongs to one process, a vertex on the      *)
(* border to several.  The shift of a border vertex is the same on all of  *)
(* them, as the solution of the linear system is.                          *)
(*                                                                         *)
(* A process computes without the others between two communications, so a  *)
(* stage of the coloring is a function of the colors of all processes.     *)
(* The matrix is represented by what an element contributed to the row of  *)
(* one of its vertices: how often, and linearized in which iteration.      *)
(***************************************************************************)
EXTENDS PartialReassembly

CONSTANTS
    Elements,
    Processes,
    VerticesOf,  \* [Elements -> SUBSET Dofs]
    Holder       \* [Elements -> Processes]

ASSUME BoxAssumption ==
    /\ VerticesOf \in [Elements -> SUBSET Dofs]
    /\ Holder \in [Elements -> Processes]

VARIABLES
    elementColor,  \* [Elements -> Color]
    vertexColor,   \* for each process, the colors of its vertices
    entries,       \* [Elements -> [Dofs -> Nat]], contributions to the row
    linearized     \* likewise, the iteration it stems from; 0: an earlier attempt

boxVars == <<phase, distVars, elementColor, vertexColor, entries, linearized>>

\* enum class EntityColor, in its order
red == 0
yellow == 1
orange == 2
green == 3
Color == {red, yellow, orange, green}

ElementsOf == [p \in Processes |-> {e \in Elements : Holder[e] = p}]
VerticesOn == [p \in Processes |-> UNION {VerticesOf[e] : e \in ElementsOf[p]}]
Sharing == [v \in Dofs |-> {p \in Processes : v \in VerticesOn[p]}]
ElementsAt(p, v) == {e \in ElementsOf[p] : v \in VerticesOf[e]}

AllElements(x) == [e \in Elements |-> x]
AllVertices(x) == [p \in Processes |-> [v \in VerticesOn[p] |-> x]]

BoxTypeOK ==
    /\ DistTypeOK
    /\ elementColor \in [Elements -> Color]
    /\ \A p \in Processes : vertexColor[p] \in [VerticesOn[p] -> Color]
    /\ \A e \in Elements :
          /\ entries[e] \in [VerticesOf[e] -> Nat]
          /\ linearized[e] \in [VerticesOf[e] -> 0..MaxIterations]

(* The constructor and the first attempt: everything is red. *)
BoxStart ==
    /\ elementColor = AllElements(red)
    /\ vertexColor = AllVertices(red)
    /\ entries = [e \in Elements |-> [v \in VerticesOf[e] |-> 0]]
    /\ linearized = [e \in Elements |-> [v \in VerticesOf[e] |-> 0]]

BoxInit == DistInit /\ discMethod = "box" /\ BoxStart
-----------------------------------------------------------------------------
(* The stages of computeColors.  R is the set of vertices that are too far *)
(* from the last linearization.                                            *)
RedElements(R) == {e \in Elements : VerticesOf[e] \cap R # {}}

(* Red vertices, and orange ones at red elements of the process. *)
TintedVertices(R) ==
    [p \in Processes |-> [v \in VerticesOn[p] |->
        IF v \in R THEN red
        ELSE IF ElementsAt(p, v) \cap RedElements(R) # {} THEN orange ELSE green]]

(* VertexHandleMin and VertexHandleMax on the border. *)
MinOverProcesses(c) ==
    [p \in Processes |-> [v \in VerticesOn[p] |->
        CHOOSE x \in {c[q][v] : q \in Sharing[v]} : \A q \in Sharing[v] : x <= c[q][v]]]

MaxOverProcesses(c) ==
    [p \in Processes |-> [v \in VerticesOn[p] |->
        CHOOSE x \in {c[q][v] : q \in Sharing[v]} : \A q \in Sharing[v] : x >= c[q][v]]]

(* Mutant: the color of the vertices is compared with red. *)
ElementsAtRed(R, c) ==
    [e \in Elements |->
        IF e \in RedElements(R) THEN red
        ELSE IF \E v \in VerticesOf[e] : c[Holder[e]][v] = red THEN yellow ELSE green]

(* Elements that are not red but have an orange vertex. *)
ColoredElements(R, c) ==
    [e \in Elements |->
        IF e \in RedElements(R) THEN red
        ELSE IF \E v \in VerticesOf[e] : c[Holder[e]][v] = orange THEN yellow ELSE green]

(* Orange vertices with a green element next to them become yellow. *)
YellowedVertices(ec, c) ==
    [p \in Processes |-> [v \in VerticesOn[p] |->
        IF c[p][v] = orange /\ \E e \in ElementsAt(p, v) : ec[e] = green
        THEN yellow ELSE c[p][v]]]

(* The remaining orange vertices become red. *)
PromotedVertices(c) ==
    [p \in Processes |-> [v \in VerticesOn[p] |->
        IF c[p][v] \in {green, yellow} THEN c[p][v] ELSE red]]

(* Mutant: the colors are not communicated. *)
ComputeColorsLocally(R) ==
    \E tinted \in {TintedVertices(R)} :
        /\ elementColor' = ColoredElements(R, tinted)
        /\ vertexColor' = PromotedVertices(YellowedVertices(elementColor', tinted))

(* One stage after the other, each from the value of the one before. *)
ComputeColors(R) ==
    \E tinted \in {TintedVertices(R)} :
    \E met \in {MinOverProcesses(tinted)} :
        /\ elementColor' = ColoredElements(R, met)
        /\ \E yellowed \in {YellowedVertices(elementColor', met)} :
           \E demoted \in {MaxOverProcesses(yellowed)} :
               vertexColor' = PromotedVertices(demoted)

(* newtonUpdate.  The model keeps one distance per vertex: the property    *)
(* BorderColorsAgree says that all its processes reset it alike.           *)
Update ==
    \E shift \in [Dofs -> Shifts], t \in Thresholds :
        /\ threshold' = t
        /\ ComputeColors({v \in Dofs : dist[v] + shift[v] > t})
        /\ UpdateDistance(shift, [v \in Dofs |-> \E p \in Sharing[v] : vertexColor'[p][v] = red])
        /\ UNCHANGED <<entries, linearized>>

(* resetJacobian clears the rows of the vertices that are not green; an    *)
(* element that is not green is linearized and adds to these rows.  A      *)
(* NumericalProblem leaves the elements of a set done and the rest undone. *)
Keeps(e, v) == vertexColor[Holder[e]][v] = green

AssembleElements(done) ==
    /\ entries' = [e \in Elements |-> [v \in VerticesOf[e] |->
            IF Keeps(e, v) THEN entries[e][v]
            ELSE IF e \in done /\ elementColor[e] # green THEN 1 ELSE 0]]
    /\ linearized' = [e \in Elements |-> [v \in VerticesOf[e] |->
            IF ~Keeps(e, v) /\ e \in done /\ elementColor[e] # green
            THEN Len(travel) ELSE linearized[e][v]]]
    /\ UNCHANGED <<distVars, elementColor, vertexColor>>

Assemble ==
    /\ phase = "assemble"
    /\ phase' = "update"
    /\ AssembleElements(Elements)

AssemblyThrows ==
    /\ phase = "assemble"
    /\ phase' = "failed"
    /\ \E done \in SUBSET Elements : done # Elements /\ AssembleElements(done)

(* Mutant: the colors are not reset. *)
SolveAgainColored ==
    /\ ResetDistance
    /\ linearized' = [e \in Elements |-> [v \in VerticesOf[e] |-> 0]]
    /\ UNCHANGED <<elementColor, vertexColor, entries>>

(* The next solve_: the next time step, or another attempt from the         *)
(* previous solution.  What is in the matrix stems from an earlier attempt. *)
SolveAgain ==
    /\ ResetDistance
    /\ elementColor' = AllElements(red)
    /\ vertexColor' = AllVertices(red)
    /\ linearized' = [e \in Elements |-> [v \in VerticesOf[e] |-> 0]]
    /\ UNCHANGED entries

BoxNext == Update \/ Assemble \/ AssemblyThrows \/ SolveAgain

BoxSpec == BoxInit /\ [][BoxNext]_boxVars
-----------------------------------------------------------------------------
(* Before the linear system is solved, every row that was cleared has got  *)
(* the contributions of all elements around its vertex, each once.         *)
RowsComplete ==
    Assembled("box") => \A e \in Elements : \A v \in VerticesOf[e] : entries[e][v] = 1

(* A row is never put together from linearizations at different iterates,  *)
(* not even if the elements around its vertex lie on different processes.  *)
RowsOfOneIterate ==
    Assembled("box") =>
        \A d, e \in Elements : \A v \in VerticesOf[d] \cap VerticesOf[e] :
            linearized[d][v] = linearized[e][v]

(* The processes of a vertex on the border give it the same color: they    *)
(* clear its row and reset its distance alike.                             *)
BorderColorsAgree ==
    \A v \in Dofs : \A p, q \in Sharing[v] : vertexColor[p][v] = vertexColor[q][v]

(* The system is never solved with a row of an earlier attempt, and the    *)
(* vertex of a row that was kept has moved by no more than the threshold   *)
(* since the row was linearized.                                           *)
KeptRowsAreClose ==
    Assembled("box") =>
        \A e \in Elements : \A v \in VerticesOf[e] :
            linearized[e][v] > 0 /\ Moved(v, linearized[e][v]) <= threshold
=============================================================================
