------------------------- MODULE LocalTimeStepping -------------------------
(***************************************************************************)
(* The explicit transport with local time steps:                           *)
(* porousmediumflow/sequential/cellcentered/transport.hh, driven by the    *)
(* simulation of SequentialSimulation, whose Integrate it details.         *)
(*                                                                         *)
(* A face keeps its flux until the accumulated sub-steps reach the face's  *)
(* target; each of its two cells holds a flux and a target of its own.  A  *)
(* flux is represented by the number of the update() that computed it.     *)
(* One process, cells of one level.                                        *)
(***************************************************************************)
EXTENDS SequentialSimulation, FiniteSetsExt

CONSTANTS
    Cells,      \* cell indices
    CellsOf,    \* for each face the cells it belongs to: two, or one on the boundary
    CellSteps,  \* getDt() of the CFL flux function
    FactorUnit, \* the factors count in parts: FactorUnit of them are 1.0
    CflFactor,  \* Impet.CFLFactor
    SubCflFactor, \* Impet.SubCFLFactor, where it is smaller than the CFL factor
    MaxScalar   \* std::numeric_limits<Scalar>::max()

Faces == DOMAIN CellsOf
Sides == {s \in Cells \X Faces : s[1] \in CellsOf[s[2]]}
IsBoundary(f) == Cardinality(CellsOf[f]) = 1

Scaled(factor, dt) == (factor * dt) \div FactorUnit

ASSUME LocalTimeSteppingAssumption ==
    /\ Cells \subseteq Nat /\ \E m \in Cells : \A c \in Cells : c <= m
    /\ CellSteps \subseteq Nat \ {0} /\ MaxScalar \in Nat \ {0}
    /\ \A dt \in CellSteps : dt < MaxScalar
    /\ FactorUnit \in Nat \ {0} /\ CflFactor \in Nat /\ SubCflFactor \in Nat \ {0}
    /\ SubCflFactor < CflFactor
    /\ \A dt \in CellSteps : Scaled(CflFactor, dt) \in TransportSteps
    /\ \A dt \in CellSteps : (SubCflFactor * dt) % FactorUnit = 0
    /\ Faces # {} /\ \A f \in Faces : CellsOf[f] \subseteq Cells /\ Cardinality(CellsOf[f]) \in {1, 2}

VARIABLES
    localTimeStepping, \* whether a sub-CFL factor below the CFL factor is given
    faceTargetDt, faceFluxes, localDt, \* timeStepData_ of the cells
    accumulatedDt, accumulatedDtOld,
    subDt,
    updates,    \* number of the last update() in this step
    integrated, \* the time each cell has been integrated over in this step
    leftRange   \* the first sub-step has left the physical range

localVars == <<faceTargetDt, faceFluxes, localDt, accumulatedDt, accumulatedDtOld,
               subDt, updates>>
ghostVars == <<integrated, leftRange>>
ltsVars == <<seqVars, localTimeStepping, localVars, ghostVars>>

NoTargets == [s \in Sides |-> 0]
NoSteps == [c \in Cells |-> 0]

LtsTypeOK ==
    /\ localTimeStepping \in BOOLEAN /\ leftRange \in BOOLEAN
    /\ faceTargetDt \in [Sides -> Nat] /\ faceFluxes \in [Sides -> Nat]
    /\ localDt \in [Cells -> Nat] /\ integrated \in [Cells -> Nat]
    /\ accumulatedDt \in Nat /\ accumulatedDtOld \in Nat /\ subDt \in Nat
    /\ updates \in Nat
-----------------------------------------------------------------------------
(* resetTimeStepData_() *)
ResetTimeStepData ==
    /\ faceTargetDt' = NoTargets /\ faceFluxes' = NoTargets /\ localDt' = NoSteps
    /\ accumulatedDt' = 0 /\ accumulatedDtOld' = 0 /\ subDt' = 0 /\ updates' = 0

LtsInit ==
    /\ SeqInit
    /\ localTimeStepping \in BOOLEAN
    /\ faceTargetDt = NoTargets /\ faceFluxes = NoTargets /\ localDt = NoSteps
    /\ accumulatedDt = 0 /\ accumulatedDtOld = 0 /\ subDt = 0 /\ updates = 0
    /\ integrated = NoSteps /\ leftRange = FALSE

(* update(): each side whose target the accumulated time has reached       *)
(* computes its flux anew; dts are the local steps found on the way.       *)
SideIsDue(s, acc) == faceTargetDt[s] <= acc

NewFluxes(acc, n) ==
    [s \in Sides |-> IF SideIsDue(s, acc) THEN n ELSE faceFluxes[s]]

FaceIsDue(f, acc) == \E c \in CellsOf[f] : SideIsDue(<<c, f>>, acc)

FaceStep(f, dts) == Min({dts[c] : c \in CellsOf[f]})

(* Mutant: the sub-CFL factor is left out. *)
NewTargetsUnscaled(acc, dts) ==
    [s \in Sides |->
        IF FaceIsDue(s[2], acc) THEN faceTargetDt[s] + FaceStep(s[2], dts)
                                ELSE faceTargetDt[s]]

(* Mutant: the cell of lower index alone gets the new target. *)
NewTargetsOneSided(acc, dts) ==
    [s \in Sides |->
        IF s[1] = Min(CellsOf[s[2]]) /\ FaceIsDue(s[2], acc)
        THEN faceTargetDt[s] + Scaled(SubCflFactor, FaceStep(s[2], dts))
        ELSE faceTargetDt[s]]

NewTargets(acc, dts) ==
    [s \in Sides |->
        IF FaceIsDue(s[2], acc)
        THEN faceTargetDt[s] + Scaled(SubCflFactor, FaceStep(s[2], dts))
        ELSE faceTargetDt[s]]

(* The sub-CFL factor scales every target but only the boundary's sub-step. *)
SubStepOf(f, dts) ==
    IF IsBoundary(f) THEN Scaled(SubCflFactor, FaceStep(f, dts)) ELSE FaceStep(f, dts)

(* Mutant: the minimum starts from zero. *)
LeastSubStepFromZero(acc, dts) ==
    Min({0} \cup {SubStepOf(f, dts) : f \in {g \in Faces : FaceIsDue(g, acc)}})

LeastSubStep(acc, dts) ==
    Min({MaxScalar} \cup {SubStepOf(f, dts) : f \in {g \in Faces : FaceIsDue(g, acc)}})

UpdatedTargetDt(acc, dts) ==
    /\ faceTargetDt' = NewTargets(acc, dts)
    /\ subDt' = LeastSubStep(acc, dts)
    /\ accumulatedDtOld' = acc
    /\ accumulatedDt' = acc + LeastSubStep(acc, dts)
-----------------------------------------------------------------------------
(* timeIntegration() up to setTimeStepSize(): the transport's update() and *)
(* the step it proposes.                                                   *)
LtsChooseStep(dts) ==
    /\ ChooseStep(Scaled(CflFactor, Min({dts[c] : c \in Cells})))
    /\ IF localTimeStepping
       THEN faceFluxes' = NewFluxes(0, 1) /\ localDt' = dts /\ updates' = 1
       ELSE UNCHANGED <<faceFluxes, localDt, updates>>
    /\ integrated' = NoSteps /\ leftRange' = FALSE
    /\ UNCHANGED <<localTimeStepping, faceTargetDt, accumulatedDt, accumulatedDtOld,
                   subDt>>

(* The transported quantity is put back and the step is over: integrated'  *)
(* says over which time.                                                   *)
Finish(dt) ==
    /\ EndIntegration(integrated'[Min(Cells)], dt)
    /\ ResetTimeStepData
    /\ UNCHANGED localTimeStepping

WholeStep ==
    /\ integrated' = [c \in Cells |-> timeStepSize]
    /\ Finish(timeStepSize)
    /\ UNCHANGED leftRange

(* updateTransportedQuantity() without local time steps. *)
GlobalStep == ~localTimeStepping /\ WholeStep

(* innerUpdate() up to its loop. *)
InnerBegin ==
    /\ localTimeStepping /\ where = "transport" /\ accumulatedDt = 0
    /\ UpdatedTargetDt(0, localDt)
    /\ UNCHANGED <<seqVars, localTimeStepping, faceFluxes, localDt, updates, ghostVars>>

FirstPass == accumulatedDtOld = 0

(* No sub-steps: the whole step at once, without a check of the range. *)
InnerWholeStep ==
    /\ accumulatedDt > 0 /\ FirstPass /\ accumulatedDt >= timeStepSize
    /\ WholeStep

InLoop ==
    /\ where = "transport" /\ accumulatedDt > 0
    /\ FirstPass => accumulatedDt < timeStepSize

(* Mutant: the last sub-step is not cut to the step. *)
UncorrectedSubDt == subDt

(* The length of this pass of the loop.  In floating point the largest     *)
(* number absorbs what is left of the step: nothing remains of their sum.   *)
CorrectedSubDt ==
    IF subDt = MaxScalar THEN 0 ELSE subDt + AtMost(0, timeStepSize - accumulatedDt)

(* One pass that is kept.  The first one is kept even if a cell leaves the *)
(* physical range; the loop over the cells has then stopped at that cell c. *)
SetTransportedQuantity(c) ==
    /\ c # Max(Cells) => FirstPass
    /\ integrated' = [d \in Cells |->
                        integrated[d] + IF d <= c THEN CorrectedSubDt ELSE 0]
    /\ leftRange' = (leftRange \/ c # Max(Cells))

(* A pass and the update() and targets of the next one, for local steps dts. *)
SubStep(c, dts) ==
    /\ InLoop /\ accumulatedDt < timeStepSize
    /\ SetTransportedQuantity(c)
    /\ updates' = updates + 1
    /\ faceFluxes' = NewFluxes(accumulatedDt, updates + 1)
    /\ localDt' = dts
    /\ UpdatedTargetDt(accumulatedDt, dts)
    /\ UNCHANGED <<seqVars, localTimeStepping>>

LastSubStep ==
    /\ InLoop /\ accumulatedDt >= timeStepSize
    /\ SetTransportedQuantity(Max(Cells))
    /\ Finish(timeStepSize)

(* Mutant: the time the pass that is dropped would have reached. *)
KeptStepAfter == AtMost(accumulatedDt, MaxStep(time, EpisodeEndTime))

(* A cell leaves the range in a later pass: the quantity stays as it was   *)
(* and the time integrated so far is made the step.                        *)
KeptStep == AtMost(accumulatedDtOld, MaxStep(time, EpisodeEndTime))

StopTimeStep ==
    /\ InLoop /\ ~FirstPass
    /\ UNCHANGED ghostVars
    /\ Finish(KeptStep)

LocalSteps == [Cells -> CellSteps]

LtsStep ==
    \/ \E dts \in LocalSteps : LtsChooseStep(dts)
    \/ GlobalStep
    \/ InnerBegin
    \/ InnerWholeStep
    \/ \E c \in Cells, dts \in LocalSteps : SubStep(c, dts)
    \/ LastSubStep
    \/ StopTimeStep
    \/ /\ WriteOutput \/ Serialize \/ Advance \/ Stop
       /\ UNCHANGED <<localTimeStepping, localVars, ghostVars>>

(* A new process starts with empty data. *)
LtsCrash ==
    /\ CrashAndRestart
    /\ ResetTimeStepData
    /\ integrated' = NoSteps /\ leftRange' = FALSE
    /\ UNCHANGED localTimeStepping

LtsNext == LtsStep \/ LtsCrash

LtsSpec == LtsInit /\ [][LtsNext]_ltsVars /\ WF_ltsVars(LtsStep)
-----------------------------------------------------------------------------
(* The two cells of a face hold fluxes of the same update and the same     *)
(* target, so what leaves one enters the other: local steps conserve mass  *)
(* (transport.hh:308-386 decides per cell, 476-516 per face).              *)
SidesAgree ==
    \A s, r \in Sides : s[2] = r[2] =>
        /\ faceFluxes[s] = faceFluxes[r]
        /\ faceTargetDt[s] = faceTargetDt[r]

(* After the integration every cell has been integrated over the step that *)
(* is about to be added to the time, also when a sub-step was dropped -    *)
(* unless a cell left the physical range in the first sub-step: then the   *)
(* cells after it miss that one (transport.hh:595-624).                    *)
CellsFollowStep ==
    where \in {"output", "serialize", "advance"} /\ ~leftRange =>
        \A c \in Cells : integrated[c] = timeStepSize

(* Up to a sub-CFL factor of one, some face is due whenever targets are     *)
(* renewed, so the sub-step is one the cells ask for and the whole step is  *)
(* integrated.  Above one, which the program accepts, the targets of the    *)
(* inner faces move further than the sub-step and no face may be due.       *)
SomeFaceIsDue == SubCflFactor <= FactorUnit /\ accumulatedDt > 0 => subDt < MaxScalar

(* The detailed transport keeps the promise of SequentialSimulation. *)
ImplementsSimulation == SeqSpec
=============================================================================
