------------------------------ MODULE GridAdapt ------------------------------
(***************************************************************************)
(* Grid adaption of the sequential models: porousmediumflow/sequential/    *)
(* gridadapt.hh with the indicator for the initial grid and the transfer   *)
(* of the cell data (variableclassadaptive.hh, 2p/sequential/              *)
(* celldataadaptive.hh), and the calls of impetproblem.hh.                 *)
(*                                                                         *)
(* The standard indicator compares a cell's difference in saturation to    *)
(* two bounds; here it wants to refine the cells at some points of the     *)
(* domain and to coarsen the others or none.  One process.                 *)
(***************************************************************************)
EXTENDS AdaptiveGrid

CONSTANTS
    AdaptationInterval, \* GridAdapt.AdaptionInterval
    Points,        \* smallest elements at which the indicators want refinement
    Field(_)       \* the saturation of a leaf after a time step

ASSUME GridAdaptAssumption ==
    AdaptationInterval \in Nat \ {0} /\ Points \subseteq ElementsOf(LevelMax)

VARIABLES
    phase,         \* the place in adaptGrid()
    wasAdapted,    \* wasAdapted(): some cell was marked
    saturation,    \* cell data of the leaves
    adaptationMap, \* entries of elements, empty between two adaptions
    previous,      \* the saturation before the adaption
    initializing,  \* the loop of GridAdapt::init() is running
    iter,          \* its counter
    sources,       \* the points it is to refine at; none: no such option is set
    maxLevel, nextMaxLevel, \* members of the initialization indicator
    staleVerdict,  \* the standard indicator was asked without being calculated
    timeStepIndex  \* counted modulo AdaptationInterval, which stands for its multiples

dataVars == <<saturation, adaptationMap, previous>>
initVars == <<initializing, iter, sources, maxLevel, nextMaxLevel, staleVerdict>>
adaptVars == <<gridVars, phase, wasAdapted, dataVars, initVars, timeStepIndex>>

Phases == {"idle", "marked", "stored", "adapted", "done"}
NoEntries == [e \in {} |-> 0]

AdaptTypeOK ==
    /\ \A e \in leaves : Level(e) \in 0..LevelMax
    /\ marks \in [leaves -> {-1, 0, 1}] /\ isNew \subseteq leaves
    /\ phase \in Phases /\ wasAdapted \in BOOLEAN
    /\ DOMAIN saturation = IF phase = "adapted" THEN DOMAIN previous ELSE leaves
    /\ initializing \in BOOLEAN /\ iter \in 0..2 * LevelMax + 1
    /\ sources \subseteq Points
    /\ maxLevel \in 0..LevelMax /\ nextMaxLevel \in 0..LevelMax
    /\ staleVerdict \in BOOLEAN /\ timeStepIndex \in 0..AdaptationInterval

InitialGrid ==
    /\ leaves = ElementsOf(InitialLevel)
    /\ marks = [e \in leaves |-> 0] /\ isNew = {}
    /\ phase = "idle" /\ wasAdapted = FALSE
    /\ saturation = [e \in leaves |-> Field(e)]
    /\ adaptationMap = NoEntries /\ previous = saturation

AdaptInit ==
    /\ InitialGrid
    /\ initializing = TRUE /\ iter = 0 /\ timeStepIndex = 0
    /\ sources \in SUBSET Points
    /\ maxLevel = IF sources = {} THEN LevelMax ELSE 0
    /\ nextMaxLevel = maxLevel
    /\ staleVerdict = FALSE
-----------------------------------------------------------------------------
At(points) == {e \in leaves : \E p \in points : Covers(e, p)}

(* The verdicts of the standard indicator: cells to refine and to coarsen. *)
Verdicts ==
    {<<At(points), leaves \ At(points \cup kept)>> :
        points \in SUBSET Points, kept \in {{}, Points}}

(* Mutant: cells of the highest level are not left out. *)
RefinementsUnbounded(refine) == refine \cup UNION {CheckNeighborsRefine[<<e, 1>>] : e \in refine}

(* markElements(): the cells to refine, with the neighbors that must follow. *)
Refinements(refine) ==
    LET wanted == {e \in refine : Level(e) < LevelMax}
    IN  wanted \cup UNION {CheckNeighborsRefine[<<e, 1>>] : e \in wanted}

(* coarsenMarker_: how many children of f wish to be coarsened. *)
CoarsenMarker(coarsen, f) == Cardinality({e \in coarsen : HasFather(e) /\ Father(e) = f})

(* Mutant: finer neighbors are not looked at. *)
CoarseningsBesideFiner(refined, coarsen) ==
    {e \in coarsen : /\ Level(e) > LevelMin
                     /\ e \notin refined
                     /\ CoarsenMarker(coarsen, Father(e)) = NumChildren
                     /\ \A n \in Neighbors(e) : n \notin refined}

(* A cell is coarsened when all children of its father wish so, none of    *)
(* its neighbors is refined and none is finer.                             *)
Coarsenings(refined, coarsen) ==
    {e \in coarsen : /\ Level(e) > LevelMin
                     /\ e \notin refined
                     /\ CoarsenMarker(coarsen, Father(e)) = NumChildren
                     /\ \A n \in Neighbors(e) : n \notin refined /\ Level(n) <= Level(e)}

MarkElements(refine, coarsen) ==
    LET refined == Refinements(refine)
    IN  marks' = Marked(refined, Coarsenings(refined, coarsen))

(* adaptGrid() up to the test whether anything is marked. *)
Mark(refine, coarsen) ==
    /\ phase = "idle"
    /\ MarkElements(refine, coarsen)
    /\ wasAdapted' = (\E e \in leaves : marks'[e] # 0)
    /\ phase' = IF wasAdapted' THEN "marked" ELSE "done"
    /\ UNCHANGED <<leaves, isNew, dataVars>>
-----------------------------------------------------------------------------
(* The initialization indicator: cells below LevelMin and cells at sources *)
(* are to be refined, all others coarsened, unless LevelMax is reached and *)
(* the standard indicator wants them refined.                              *)
RefineCell == {e \in leaves : Level(e) < LevelMin} \cup At(sources)

HighestLevel == Max({maxLevel} \cup {Level(e) : e \in leaves})

(* Mutant: the level of the cells to refine, not the one they will have. *)
NextMaxLevelOfCells ==
    Min({LevelMax, Max({nextMaxLevel} \cup {Level(e) : e \in RefineCell})})

NextMaxLevel ==
    Min({LevelMax, Max({nextMaxLevel} \cup {Level(e) + 1 : e \in RefineCell})})

InitRefine(verdict) ==
    RefineCell \cup IF HighestLevel = LevelMax THEN verdict[1] ELSE {}
InitCoarsen(verdict) ==
    (leaves \ RefineCell) \ IF HighestLevel < LevelMax THEN {} ELSE verdict[1]

(* A round of the loop in init(). *)
InitRound ==
    /\ initializing
    /\ \E verdict \in Verdicts : Mark(InitRefine(verdict), InitCoarsen(verdict))
    /\ maxLevel' = HighestLevel /\ nextMaxLevel' = NextMaxLevel
    /\ staleVerdict' = (staleVerdict \/ (nextMaxLevel # LevelMax /\ HighestLevel = LevelMax))
    /\ UNCHANGED <<initializing, iter, sources, timeStepIndex>>

(* Mutant: too few rounds. *)
MaxIterLow == LevelMax - 2

(* The end of a round: the loop ends if nothing was marked; else the model *)
(* may be initialized on the new grid.  The loop is bounded.               *)
MaxIter == 2 * LevelMax

EndInit ==
    /\ initializing /\ phase = "done" /\ ~wasAdapted
    /\ initializing' = FALSE
    /\ phase' = "idle"
    /\ UNCHANGED <<gridVars, wasAdapted, dataVars, iter, sources, maxLevel,
                   nextMaxLevel, staleVerdict, timeStepIndex>>

EndRound ==
    /\ initializing /\ phase = "done" /\ wasAdapted
    /\ saturation' = IF nextMaxLevel = LevelMax THEN [e \in leaves |-> Field(e)]
                                                ELSE saturation
    /\ previous' = saturation'
    /\ iter' = iter + 1
    /\ initializing' = (iter + 1 <= MaxIter)
    /\ phase' = "idle"
    /\ UNCHANGED <<gridVars, wasAdapted, adaptationMap, sources, maxLevel,
                   nextMaxLevel, staleVerdict, timeStepIndex>>
-----------------------------------------------------------------------------
(* preTimeStep(): from the second step on the grid is adapted at multiples *)
(* of the interval.                                                        *)
Adapts == timeStepIndex = AdaptationInterval

PreTimeStep ==
    /\ ~initializing /\ Adapts
    /\ \E verdict \in Verdicts : Mark(verdict[1], verdict[2])
    /\ UNCHANGED <<initVars, timeStepIndex>>

SkipAdaption ==
    /\ ~initializing /\ phase = "idle" /\ ~Adapts
    /\ phase' = "done" /\ wasAdapted' = FALSE
    /\ UNCHANGED <<gridVars, dataVars, initVars, timeStepIndex>>

(* The time step changes the saturation. *)
TimeStep ==
    /\ ~initializing /\ phase = "done"
    /\ saturation' = [e \in leaves |-> Field(e)] /\ previous' = saturation'
    /\ timeStepIndex' = IF Adapts THEN 1 ELSE timeStepIndex + 1
    /\ phase' = "idle"
    /\ UNCHANGED <<gridVars, wasAdapted, adaptationMap, initVars>>
-----------------------------------------------------------------------------
Entry(e) == IF e \in DOMAIN adaptationMap THEN adaptationMap[e]
                                          ELSE [value |-> 0, count |-> 0]
Mean(entry) == entry.value \div entry.count

(* storePrimVars(): from the highest level down the leaves enter their     *)
(* values, and every element adds its mean to its father.                  *)
StoredEntries ==
    LET elements == Hierarchy(leaves)
        stored[e \in elements] ==
            LET sons == Sons(e, elements)
            IN  IF e \in leaves THEN [value |-> saturation[e], count |-> 1]
                ELSE [value |-> Entry(e).value +
                          SumFunctionOnSet([s \in sons |-> Mean(stored[s])], sons),
                      count |-> Entry(e).count + Cardinality(sons)]
    IN  stored

StorePrimVars ==
    /\ phase = "marked"
    /\ adaptationMap' = StoredEntries
    /\ previous' = saturation
    /\ phase' = "stored"
    /\ UNCHANGED <<gridVars, wasAdapted, saturation, initVars, timeStepIndex>>

AdaptTheGrid ==
    /\ phase = "stored"
    /\ GridAdapts
    /\ phase' = "adapted"
    /\ UNCHANGED <<wasAdapted, dataVars, initVars, timeStepIndex>>

(* reconstructPrimVars(): an element that is new takes the mean of its     *)
(* father.  The entries are deleted at the end.                            *)
Reconstructed ==
    [e \in leaves |-> Mean(Entry(IF e \in isNew THEN Father(e) ELSE e))]

(* Mutant: the entries are kept. *)
EntriesKept == adaptationMap

EntriesLeft == NoEntries

ReconstructPrimVars ==
    /\ phase = "adapted"
    /\ saturation' = Reconstructed
    /\ adaptationMap' = EntriesLeft
    /\ isNew' = {}
    /\ phase' = "done"
    /\ UNCHANGED <<leaves, marks, wasAdapted, previous, initVars, timeStepIndex>>
-----------------------------------------------------------------------------
AdaptNext ==
    \/ InitRound \/ EndInit \/ EndRound
    \/ PreTimeStep \/ SkipAdaption \/ TimeStep
    \/ StorePrimVars \/ AdaptTheGrid \/ ReconstructPrimVars

AdaptSpec == AdaptInit /\ [][AdaptNext]_adaptVars
-----------------------------------------------------------------------------
(* "Method ensuring the refinement ratio of 2:1 ... recursively over all   *)
(* levels of the grid" (gridadapt.hh:350-355): whatever the indicators     *)
(* want, no two neighbors of the leaf grid differ by more than a level.    *)
RatioEnsured == TwoToOne

(* The transfer loses nothing and adds nothing: in every element that the  *)
(* grids before and after the adaption have in common the amount is the    *)
(* same, for refined, coarsened and untouched cells, with the entries of   *)
(* the adaption before gone.                                               *)
TransferConserves ==
    phase = "done" => SameAmounts(previous, saturation)

(* The loop of init() reaches what it is for although it is bounded: when  *)
(* it ends, the cells at the sources are as fine as allowed and no cell is *)
(* coarser than allowed (gridadapt.hh:87-113).                             *)
InitPrepares ==
    [][initializing /\ ~initializing' =>
        /\ \A e \in At(sources) : Level(e) = LevelMax
        /\ \A e \in leaves : Level(e) >= LevelMin]_adaptVars

(* The standard indicator, whose vector has the size of the grid it was    *)
(* calculated for, is asked in init() only after it was calculated for the *)
(* current grid (gridadaptinitializationindicator.hh:227, 316-344).        *)
VerdictIsCurrent == ~staleVerdict
=============================================================================
