---------------------------- MODULE AdaptiveGrid ----------------------------
(***************************************************************************)
(* The hierarchical grid that both adaptive models change, and what they   *)
(* share: elements with a level and a father, the leaves, the neighbors of *)
(* a leaf in the order of its intersections, the marks, and the recursion  *)
(* that is to keep the ratio of 2:1 between neighbors.                     *)
(*                                                                         *)
(* The grid itself is Dune's and external: of cubes, where every refined   *)
(* element has 2^Dim children.  It refines the leaves marked 1 and removes *)
(* the families all of whose children are marked -1, and nothing else.     *)
(***************************************************************************)
EXTENDS Integers, Sequences, FiniteSetsExt, Functions

CONSTANTS
    MacroCells,   \* number of elements of level 0 in each direction
    InitialLevel, \* level the grid is refined to at the start
    LevelMin,     \* GridAdapt.MinLevel, Adaptive.MinLevel
    LevelMax      \* GridAdapt.MaxLevel, Adaptive.MaxLevel

Dims == DOMAIN MacroCells
NumChildren == 2 ^ Len(MacroCells)

ASSUME AdaptiveGridAssumption ==
    /\ MacroCells \in Seq(Nat \ {0})
    /\ LevelMax \in Nat /\ LevelMin \in 0..LevelMax /\ InitialLevel \in 0..LevelMax

VARIABLES
    leaves, \* the elements of the leaf grid view
    marks,  \* grid.getMark()
    isNew   \* the elements created by the last adapt()

gridVars == <<leaves, marks, isNew>>
-----------------------------------------------------------------------------
(* An element is its level and its position among those of the level. *)
Level(e) == e[1]
HasFather(e) == Level(e) > 0

(* In each direction 2^n elements lie in an element n levels above them. *)
PowerOfTwo[n \in 0..LevelMax] == IF n = 0 THEN 1 ELSE 2 * PowerOfTwo[n - 1]

ElementsOf(level) ==
    LET count(d) == MacroCells[d] * PowerOfTwo[level]
    IN  {<<level, p>> : p \in {q \in [Dims -> 0..Max({count(d) : d \in Dims}) - 1] :
                                 \A d \in Dims : q[d] < count(d)}}

Ancestor(e, level) == <<level, [d \in Dims |-> e[2][d] \div PowerOfTwo[Level(e) - level]]>>
Father(e) == Ancestor(e, Level(e) - 1)
Children(e) ==
    {<<Level(e) + 1, [d \in Dims |-> 2 * e[2][d] + o[d]]>> : o \in [Dims -> {0, 1}]}

Covers(a, e) == Level(a) <= Level(e) /\ Ancestor(e, Level(a)) = a

(* Every element above the leaves L, and the leaves. *)
Hierarchy(L) == UNION {{Ancestor(e, k) : k \in 0..Level(e)} : e \in L}

(* The elements of the hierarchy whose father is e. *)
Sons(e, elements) == Children(e) \cap elements

(* Volume in units of the smallest elements: as many of them as there can  *)
(* be n levels below an element.                                           *)
Descendants[n \in 0..LevelMax] == IF n = 0 THEN 1 ELSE NumChildren * Descendants[n - 1]
Volume(e) == Descendants[LevelMax - Level(e)]
-----------------------------------------------------------------------------
(* The faces of an element in the order of its intersections. *)
Faces == 1..2 * Len(MacroCells)
Beside(e, face) ==
    <<Level(e), [e[2] EXCEPT ![(face + 1) \div 2] = @ + IF face % 2 = 0 THEN 1 ELSE -1]>>
Opposite(face) == IF face % 2 = 0 THEN face - 1 ELSE face + 1

Outside(e, face) ==
    {n \in leaves : \/ Covers(n, Beside(e, face))
                    \/ Covers(Beside(e, face), n) /\ Covers(e, Beside(n, Opposite(face)))}
Neighbors(e) == UNION {Outside(e, face) : face \in Faces}

CoarserAt(e, face) == {n \in Outside(e, face) : Level(n) < Level(e)}
CoarserFaces(e) == {face \in Faces : CoarserAt(e, face) # {}}
-----------------------------------------------------------------------------
(* checkNeighborsRefine_: the coarser neighbors are refined, too, and       *)
(* theirs, as long as the level is not LevelMax.  The argument ++level of   *)
(* the recursion also counts for the neighbors that follow in the loop.     *)
CheckNeighborsRefine[call \in leaves \X (1..LevelMax)] ==
    LET entity == call[1]
        level == call[2]
        faces == CoarserFaces(entity)
    IN  UNION {LET outside == CHOOSE n \in CoarserAt(entity, face) : TRUE
                   counted == level + Cardinality({f \in faces : f < face})
               IN  {outside} \cup IF counted < LevelMax
                                  THEN CheckNeighborsRefine[<<outside, counted + 1>>]
                                  ELSE {} : face \in faces}

Marked(refine, coarsen) ==
    [e \in leaves |-> IF e \in refine THEN 1 ELSE IF e \in coarsen THEN -1 ELSE 0]
NoMarks == \A e \in leaves : marks[e] = 0

(* grid.adapt() *)
GridAdapts ==
    LET refined == {e \in leaves : marks[e] = 1}
        removed == {e \in leaves : HasFather(e) /\
                       \A s \in Children(Father(e)) : s \in leaves /\ marks[s] = -1}
        created == UNION {Children(e) : e \in refined}
    IN  /\ leaves' = (leaves \ (refined \cup removed)) \cup created
                        \cup {Father(e) : e \in removed}
        /\ isNew' = created
        /\ marks' = [e \in leaves' |-> 0]

(* What a cell field holds in the element a. *)
Amount(field, a) ==
    SumFunctionOnSet([e \in DOMAIN field |-> Volume(e) * field[e]],
                     {e \in DOMAIN field : Covers(a, e)})

(* The fields before and after an adaption hold the same in every element  *)
(* that both grids have.                                                   *)
SameAmounts(before, after) ==
    \A a \in Hierarchy(DOMAIN before) \cap Hierarchy(DOMAIN after) :
        Amount(before, a) = Amount(after, a)

(* Neighbors differ by one level at most. *)
TwoToOne == \A e \in leaves : \A n \in Neighbors(e) : Level(n) >= Level(e) - 1
=============================================================================
