--------------------------- MODULE ParallelProofs ---------------------------
(***************************************************************************)
(* Proofs about ParallelNewton, for any number of processes, of attempts   *)
(* and of iterations: while no process throws an exception of its own, the *)
(* processes meet in the same collective calls and return the same.        *)
(*                                                                         *)
(* Between two collective calls a process computes alone, but its way is   *)
(* determined: only the value it brings to the next call is its own.  The  *)
(* invariant says that all processes have the same end of the way ahead.   *)
(***************************************************************************)
EXTENDS ParallelNewton, TLAPS

(* The end of the way of a process whose attempt fails at iteration n. *)
EndOfFailed(n, a, large, sw, shr) ==
    IF a < MaxTimeStepDivisions THEN <<"minAssembled", 0, a + 1, large, FALSE, shr>>
    ELSE <<"threw", n, a, large, sw, shr>>

(* Of one that ends iteration n. *)
EndOfStep(n, a, large, sw, shr) ==
    IF n < 2 THEN <<"minAssembled", n, a, large, sw, shr>>
    ELSE IF ~large /\ ~sw THEN <<"converged", n, a, large, sw, shr>>
    ELSE IF n < MaxSteps \/ (shr /\ n < IterBound) THEN <<"minAssembled", n, a, large, sw, shr>>
    ELSE EndOfFailed(n, a, large, sw, shr)

EndOfSwitch(n, a, large, sw, shr) ==
    IF hasPriVarsSwitch THEN <<"maxSwitched", n, a, large, sw, shr>>
    ELSE EndOfStep(n + 1, a, large, sw, shr)

EndOf(control, n, a, large, sw, shr) ==
    IF control = "assemble" THEN <<"minAssembled", n, a, large, sw, shr>>
    ELSE IF control = "setupSolver" THEN <<"solverSum", n, a, large, sw, shr>>
    ELSE IF control = "finishSolver" THEN <<"minConverged", n, a, large, sw, shr>>
    ELSE IF control = "updateShift" THEN <<"maxShift", n, a, large, sw, shr>>
    ELSE IF control = "gridUpdate" /\ residualCriterion
         THEN <<"minResidual", n, a, large, sw, shr>>
    ELSE IF control \in {"gridUpdate", "switch"} THEN EndOfSwitch(n, a, large, sw, shr)
    ELSE IF control = "endStep" THEN EndOfStep(n + 1, a, large, sw, shr)
    ELSE IF control = "failed" THEN EndOfFailed(n, a, large, sw, shr)
    ELSE <<control, n, a, large, sw, shr>>

EndOfWay(r) ==
    EndOf(pc[r], numSteps[r], attempt[r], shiftIsLarge[r], switched[r], shrinking[r])

SameEnd == \A r, s \in ranks : EndOfWay(r) = EndOfWay(s)

ParallelInv == TypeOK /\ SameEnd
-----------------------------------------------------------------------------
LEMMA ParallelInitInv == ASSUME ParallelAssumption, Init PROVE ParallelInv
<1>1. ranks \subseteq Ranks
      BY DEF Init
<1>2. TypeOK
      BY <1>1 DEF ParallelAssumption, Init, TypeOK, Local
<1>3. SameEnd
      BY DEF Init, SameEnd, EndOfWay
<1> QED BY <1>2, <1>3 DEF ParallelInv

(* EndOf at each control. *)
LEMMA EndOfCases ==
    ASSUME NEW n, NEW a, NEW large, NEW sw, NEW shr
    PROVE  /\ EndOf("assemble", n, a, large, sw, shr) = <<"minAssembled", n, a, large, sw, shr>>
           /\ EndOf("setupSolver", n, a, large, sw, shr) = <<"solverSum", n, a, large, sw, shr>>
           /\ EndOf("finishSolver", n, a, large, sw, shr) = <<"minConverged", n, a, large, sw, shr>>
           /\ EndOf("updateShift", n, a, large, sw, shr) = <<"maxShift", n, a, large, sw, shr>>
           /\ EndOf("gridUpdate", n, a, large, sw, shr) =
                  IF residualCriterion THEN <<"minResidual", n, a, large, sw, shr>>
                  ELSE EndOfSwitch(n, a, large, sw, shr)
           /\ EndOf("switch", n, a, large, sw, shr) = EndOfSwitch(n, a, large, sw, shr)
           /\ EndOf("endStep", n, a, large, sw, shr) = EndOfStep(n + 1, a, large, sw, shr)
           /\ EndOf("failed", n, a, large, sw, shr) = EndOfFailed(n, a, large, sw, shr)
    BY DEF EndOf

LEMMA EndOfCall ==
    ASSUME NEW n, NEW a, NEW large, NEW sw, NEW shr, NEW control \in Calls \cup Returned
    PROVE  EndOf(control, n, a, large, sw, shr) = <<control, n, a, large, sw, shr>>
    BY DEF EndOf, Calls, Returned

(* A step of one process leaves the end of its way and the others alone.   *)
LEMMA LocalKeepsEnd ==
    ASSUME ParallelAssumption, TypeOK, NEW r \in ranks, LocalStep(r), UNCHANGED config,
           ThrowSites = {}, ~(\A p, q \in ranks : p = q)
    PROVE  EndOfWay(r)' = EndOfWay(r)
<1> DEFINE n == numSteps[r]
           a == attempt[r]
           large == shiftIsLarge[r]
           sw == switched[r]
           shr == shrinking[r]
<1>0. ~MayThrow("solver") /\ ~MayThrow("gridUpdate") /\ ~MayThrow("switch")
      BY DEF MayThrow
<1>1. /\ pc \in [ranks -> Calls \cup Local \cup Returned]
      /\ numSteps \in [ranks -> Nat] /\ attempt \in [ranks -> 0..MaxTimeStepDivisions]
      /\ switched \in [ranks -> BOOLEAN] /\ value \in [ranks -> BOOLEAN]
      BY DEF TypeOK
<1>2. EndOfWay(r)' = EndOf(pc'[r], numSteps'[r], attempt'[r], shiftIsLarge'[r], switched'[r], shrinking'[r])
      BY DEF config, EndOfWay, EndOf, EndOfSwitch, EndOfStep, EndOfFailed
<1>3. EndOfWay(r) = EndOf(pc[r], n, a, large, sw, shr)
      BY DEF EndOfWay
<1>4. ASSUME NEW next, Goto(r, next), UNCHANGED <<numSteps, attempt, shiftIsLarge, switched, shrinking>>
      PROVE  EndOfWay(r)' = EndOf(next, n, a, large, sw, shr)
  <2>1. pc'[r] = next
        BY <1>1, <1>4 DEF Goto
  <2> QED BY <1>2, <1>4, <2>1
<1>5. ASSUME NEW call \in Calls, NEW contribution, Call(r, call, contribution)
      PROVE  EndOfWay(r)' = <<call, n, a, large, sw, shr>>
  <2>1. EndOfWay(r)' = EndOf(call, n, a, large, sw, shr)
        BY <1>4, <1>5 DEF Call
  <2> HIDE DEF n, a, large, sw, shr
  <2>2. EndOf(call, n, a, large, sw, shr) = <<call, n, a, large, sw, shr>>
        BY EndOfCall
  <2> QED BY <2>1, <2>2
<1>6. CASE Assemble(r)
      BY <1>3, <1>5, <1>6, EndOfCases DEF Assemble, Calls
<1>7. CASE SetupSolver(r)
  <2>1. pc[r] = "setupSolver" /\ Call(r, "solverSum", TRUE)
        BY <1>0, <1>7 DEF SetupSolver
  <2>2. EndOfWay(r)' = <<"solverSum", n, a, large, sw, shr>>
        BY <1>5, <2>1 DEF Calls
  <2> QED BY <1>3, <2>1, <2>2, EndOfCases
<1>8. CASE FinishSolver(r)
  <2>1. pc[r] = "finishSolver" /\ \E conv : Call(r, "minConverged", conv)
        BY <1>0, <1>8 DEF FinishSolver
  <2>2. EndOfWay(r)' = <<"minConverged", n, a, large, sw, shr>>
        BY <1>5, <2>1 DEF Calls
  <2> QED BY <1>3, <2>1, <2>2, EndOfCases
<1>9. CASE UpdateShift(r)
      BY <1>3, <1>5, <1>9, EndOfCases DEF UpdateShift, Calls
<1>10. CASE GridUpdate(r)
       BY <1>0, <1>3, <1>4, <1>5, <1>10, EndOfCases DEF GridUpdate, ThrowAlone, EndOfSwitch, Calls
<1>11. CASE Switch(r)
       BY <1>0, <1>3, <1>4, <1>5, <1>11, EndOfCases DEF Switch, ThrowAlone, EndOfSwitch, Calls
<1>12. CASE EndStep(r)
  <2> DEFINE m == n + 1
             conv == ~large /\ ~sw
  <2>1. /\ pc[r] = "endStep" /\ numSteps'[r] = m /\ m \in Nat
        /\ UNCHANGED <<attempt, shiftIsLarge, switched, shrinking>>
        BY <1>1, <1>12 DEF EndStep
  <2>2. pc'[r] = CASE m < 2 -> "assemble"
                   [] m >= 2 /\ conv -> "converged"
                   [] m >= 2 /\ ~conv /\ (m < MaxSteps \/ (shr /\ m < IterBound)) -> "assemble"
                   [] OTHER -> "failed"
        BY <1>1, <1>12 DEF EndStep, Goto
  <2>3. EndOfWay(r) = EndOfStep(m, a, large, sw, shr)
        BY <1>3, <2>1, EndOfCases
  <2>4. EndOfWay(r)' = EndOf(pc'[r], m, a, large, sw, shr)
        BY <1>2, <2>1
  <2>5. CASE m < 2
    <3>1. pc'[r] = "assemble"
          BY <2>1, <2>2, <2>5
    <3>2. EndOfWay(r)' = <<"minAssembled", m, a, large, sw, shr>>
          BY <2>4, <3>1, EndOfCases
    <3> QED BY <2>3, <2>5, <3>2 DEF EndOfStep
  <2>6. CASE m >= 2 /\ conv
    <3>1. pc'[r] = "converged" /\ ~(m < 2)
          BY <2>1, <2>2, <2>6
    <3>2. EndOfWay(r)' = <<"converged", m, a, large, sw, shr>>
          BY <2>4, <3>1, EndOfCall DEF Returned
    <3> QED BY <2>3, <2>6, <3>1, <3>2 DEF EndOfStep
  <2>7. CASE m >= 2 /\ ~conv /\ (m < MaxSteps \/ (shr /\ m < IterBound))
    <3>1. pc'[r] = "assemble" /\ ~(m < 2)
          BY <2>1, <2>2, <2>7
    <3> QED BY <2>3, <2>4, <2>7, <3>1, EndOfCases DEF EndOfStep
  <2>8. CASE m >= 2 /\ ~conv /\ ~(m < MaxSteps \/ (shr /\ m < IterBound))
    <3>1. pc'[r] = "failed" /\ ~(m < 2)
          BY <2>1, <2>2, <2>8
    <3> QED BY <2>3, <2>4, <2>8, <3>1, EndOfCases DEF EndOfStep
  <2> QED BY <2>1, <2>5, <2>6, <2>7, <2>8
<1>13. CASE Fail(r)
  <2>1. pc[r] = "failed" /\ UNCHANGED <<shiftIsLarge, shrinking>>
        BY <1>13 DEF Fail
  <2>2. EndOfWay(r) = EndOfFailed(n, a, large, sw, shr)
        BY <1>3, <2>1, EndOfCases
  <2>3. CASE Retries(r)
    <3>1. pc'[r] = "assemble" /\ numSteps'[r] = 0 /\ attempt'[r] = a + 1 /\ switched'[r] = FALSE
          BY <1>1, <1>13, <2>3 DEF Fail, Goto
    <3>2. EndOfWay(r)' = EndOf("assemble", 0, a + 1, large, switched'[r], shr)
          BY <1>2, <2>1, <3>1
    <3>3. EndOfWay(r)' = <<"minAssembled", 0, a + 1, large, switched'[r], shr>>
          BY <3>2, EndOfCases
    <3> QED BY <2>2, <2>3, <3>1, <3>3 DEF Retries, EndOfFailed
  <2>4. CASE ~Retries(r)
    <3>1. Goto(r, "threw") /\ UNCHANGED <<numSteps, attempt, switched>>
          BY <1>13, <2>4 DEF Fail
    <3>2. EndOfWay(r)' = EndOf("threw", n, a, large, sw, shr)
          BY <1>4, <2>1, <3>1
    <3>3. EndOfWay(r)' = <<"threw", n, a, large, sw, shr>>
          BY <3>2, EndOfCall DEF Returned
    <3> QED BY <2>2, <2>4, <3>3 DEF Retries, EndOfFailed
  <2> QED BY <2>3, <2>4
<1> QED BY <1>6, <1>7, <1>8, <1>9, <1>10, <1>11, <1>12, <1>13 DEF LocalStep

LEMMA LocalKeepsOthers ==
    ASSUME TypeOK, NEW r \in ranks, NEW s \in ranks, s # r, LocalStep(r), UNCHANGED config
    PROVE  EndOfWay(s)' = EndOfWay(s) /\ pc'[s] = pc[s] /\ attempt'[s] = attempt[s]
<1>1. /\ pc'[s] = pc[s] /\ numSteps'[s] = numSteps[s] /\ attempt'[s] = attempt[s]
      /\ shiftIsLarge' = shiftIsLarge /\ switched'[s] = switched[s] /\ shrinking' = shrinking
      BY DEF LocalStep, Assemble, SetupSolver, FinishSolver, UpdateShift, GridUpdate, Switch,
             EndStep, Fail, ThrowAlone, Call, Goto, TypeOK
<1>2. UNCHANGED <<residualCriterion, hasPriVarsSwitch>>
      BY DEF config
<1> QED BY <1>1, <1>2 DEF EndOfWay, EndOf, EndOfSwitch, EndOfStep, EndOfFailed

LEMMA LocalKeepsType ==
    ASSUME ParallelAssumption, TypeOK, NEW r \in ranks, LocalStep(r), UNCHANGED config
    PROVE  TypeOK'
<1>1. ranks' = ranks /\ residualCriterion' = residualCriterion /\ hasPriVarsSwitch' = hasPriVarsSwitch
      BY DEF config
<1>2. /\ pc \in [ranks -> Calls \cup Local \cup Returned] /\ value \in [ranks -> BOOLEAN]
      /\ numSteps \in [ranks -> Nat] /\ attempt \in [ranks -> 0..MaxTimeStepDivisions]
      /\ switched \in [ranks -> BOOLEAN]
      BY DEF TypeOK
<1>3. ASSUME NEW next \in Calls \cup Local \cup Returned, Goto(r, next)
      PROVE  pc' \in [ranks -> Calls \cup Local \cup Returned]
      BY <1>2, <1>3 DEF Goto
<1>4. ASSUME NEW call \in Calls, NEW contribution \in BOOLEAN, Call(r, call, contribution)
      PROVE  TypeOK'
      BY <1>1, <1>2, <1>3, <1>4 DEF Call, TypeOK
<1>5. ASSUME NEW next \in Calls \cup Local \cup Returned, Goto(r, next),
             UNCHANGED <<value, numSteps, attempt, shiftIsLarge, switched, shrinking>>
      PROVE  TypeOK'
      BY <1>1, <1>3, <1>5 DEF TypeOK
<1>6. CASE Assemble(r)
      BY <1>4, <1>6 DEF Assemble, Calls
<1>7. CASE SetupSolver(r)
  <2>1. "solverSum" \in Calls /\ "minCaught" \in Calls /\ TRUE \in BOOLEAN /\ FALSE \in BOOLEAN
        BY DEF Calls
  <2> QED BY <1>4, <1>7, <2>1 DEF SetupSolver
<1>8. CASE FinishSolver(r)
  <2>1. "minConverged" \in Calls /\ "minCaught" \in Calls /\ FALSE \in BOOLEAN
        BY DEF Calls
  <2> QED BY <1>4, <1>8, <2>1 DEF FinishSolver
<1>9. CASE UpdateShift(r)
      BY <1>4, <1>9 DEF UpdateShift, Calls
<1>10. CASE GridUpdate(r)
  <2>1. "minResidual" \in Calls /\ "switch" \in Local /\ "failed" \in Local
        BY DEF Calls, Local
  <2> QED BY <1>4, <1>5, <1>10, <2>1 DEF GridUpdate, ThrowAlone
<1>11. CASE Switch(r)
  <2>1. "maxSwitched" \in Calls /\ "endStep" \in Local /\ "failed" \in Local
        BY DEF Calls, Local
  <2> QED BY <1>4, <1>5, <1>11, <2>1 DEF Switch, ThrowAlone
<1>12. CASE EndStep(r)
  <2>1. numSteps[r] + 1 \in Nat
        BY <1>2
  <2> DEFINE n == numSteps[r] + 1
             conv == ~shiftIsLarge[r] /\ ~switched[r]
             next == CASE n < 2 -> "assemble"
                       [] n >= 2 /\ conv -> "converged"
                       [] n >= 2 /\ ~conv /\ (n < MaxSteps \/ (shrinking[r] /\ n < IterBound))
                          -> "assemble"
                       [] OTHER -> "failed"
  <2>2. next \in {"assemble", "converged", "failed"}
        BY <2>1
  <2>3. Goto(r, next)
        BY <1>12 DEF EndStep
  <2>4. \E to \in {"assemble", "converged", "failed"} : Goto(r, to)
    <3> HIDE DEF next
    <3> QED BY <2>2, <2>3
  <2>5. pc' \in [ranks -> Calls \cup Local \cup Returned]
        BY <1>3, <2>4 DEF Local, Returned
  <2>6. numSteps' \in [ranks -> Nat]
        BY <1>2, <1>12, <2>1 DEF EndStep
  <2> QED BY <1>1, <1>12, <2>5, <2>6 DEF EndStep, TypeOK
<1>13. CASE Fail(r)
  <2>1. pc' \in [ranks -> Calls \cup Local \cup Returned]
        BY <1>3, <1>13 DEF Fail, Local, Returned
  <2>2. attempt' \in [ranks -> 0..MaxTimeStepDivisions]
        BY <1>2, <1>13 DEF Fail, Retries, ParallelAssumption
  <2>3. numSteps' \in [ranks -> Nat]
        BY <1>2, <1>13 DEF Fail
  <2>4. switched' \in [ranks -> BOOLEAN]
        BY <1>2, <1>13, Zenon DEF Fail
  <2> QED BY <1>1, <1>13, <2>1, <2>2, <2>3, <2>4 DEF Fail, TypeOK
<1> QED BY <1>6, <1>7, <1>8, <1>9, <1>10, <1>11, <1>12, <1>13 DEF LocalStep

(* A collective call leaves every process in its type, even where the      *)
(* processes had not agreed before it.                                     *)
LEMMA MeetKeepsType ==
    ASSUME TypeOK, Meet, UNCHANGED config PROVE TypeOK'
<1> USE DEF Everyone
<1>1. ranks' = ranks /\ residualCriterion' = residualCriterion /\ hasPriVarsSwitch' = hasPriVarsSwitch
      BY DEF config
<1>2. /\ UNCHANGED <<value, numSteps, attempt>>
      /\ \E next \in [ranks -> Calls \cup Local] : pc' = next
  <2>1. UNCHANGED <<value, numSteps, attempt>>
        BY DEF Meet, Resume
  <2>2. AfterAssembly \in [ranks -> Calls \cup Local]
        BY DEF AfterAssembly, Calls, Local
  <2>3. AfterResidual \in [ranks -> Calls \cup Local]
        BY DEF AfterResidual, Calls, Local
  <2>4. ASSUME NEW next \in [ranks -> Calls \cup Local], Resume(next)
        PROVE  \E to \in [ranks -> Calls \cup Local] : pc' = to
        BY <2>4 DEF Resume
  <2>5. ASSUME NEW to \in Calls \cup Local PROVE Everyone(to) \in [ranks -> Calls \cup Local]
        OBVIOUS
  <2>6. \E next \in [ranks -> Calls \cup Local] : Resume(next)
    <3> HIDE DEF Everyone
    <3>1. /\ "setupSolver" \in Local /\ "finishSolver" \in Local /\ "failed" \in Local
          /\ "updateShift" \in Local /\ "minCaught" \in Calls /\ "gridUpdate" \in Local
          /\ "switch" \in Local /\ "endStep" \in Local
          BY DEF Calls, Local
    <3>2. (IF AllTrue THEN "updateShift" ELSE "minCaught") \in Calls \cup Local
          BY <3>1
    <3> QED BY <2>2, <2>3, <2>5, <3>1, <3>2 DEF Meet
  <2> QED BY <2>1, <2>4, <2>6
<1>3. /\ shiftIsLarge' = shiftIsLarge \/ \E b \in BOOLEAN : shiftIsLarge' = [r \in ranks |-> b]
      /\ switched' = switched \/ \E b \in BOOLEAN : switched' = [r \in ranks |-> b]
      /\ shrinking' = shrinking \/ \E b \in BOOLEAN : shrinking' = [r \in ranks |-> b]
      BY DEF Meet, LargestShift, AnyTrue
<1> QED BY <1>1, <1>2, <1>3 DEF TypeOK

(* Whatever the processes throw and wherever they meet, each of them is at *)
(* a call or a computation of the solver, with no more attempts than it is *)
(* allowed (NewtonSolver::solve of newtonsolver.hh).                       *)
THEOREM ParallelTypeCorrect == Spec => []TypeOK
<1>1. Init => TypeOK
      BY ParallelAssumption, ParallelInitInv DEF ParallelInv
<1>2. TypeOK /\ [Next]_vars => TypeOK'
  <2> SUFFICES ASSUME TypeOK, [Next]_vars PROVE TypeOK'
      OBVIOUS
  <2>1. CASE Meet /\ UNCHANGED config
        BY <2>1, MeetKeepsType
  <2>2. ASSUME NEW r \in ranks, LocalStep(r), UNCHANGED config PROVE TypeOK'
        BY <2>2, ParallelAssumption, LocalKeepsType
  <2>3. CASE UNCHANGED vars
        BY <2>3 DEF vars, config, TypeOK
  <2> QED BY <2>1, <2>2, <2>3 DEF Next, Step, Terminated
<1> QED BY <1>1, <1>2, PTL DEF Spec

(* All go on from a collective call at the same place with the same        *)
(* results.                                                                *)
LEMMA MeetInv ==
    ASSUME ParallelInv, Meet, UNCHANGED config
    PROVE  /\ ParallelInv'
           /\ \A r \in ranks : pc[r] \in Calls /\ pc'[r] \in Calls \cup Local
<1> USE DEF Everyone
<1>1. /\ ranks' = ranks /\ residualCriterion' = residualCriterion
      /\ hasPriVarsSwitch' = hasPriVarsSwitch
      BY DEF config
<1>2. PICK call \in Calls : AllIn(call)
      BY DEF Meet, Calls
<1>3. ASSUME NEW r \in ranks, NEW s \in ranks
      PROVE  /\ numSteps[r] = numSteps[s] /\ attempt[r] = attempt[s]
             /\ shiftIsLarge[r] = shiftIsLarge[s] /\ switched[r] = switched[s]
             /\ shrinking[r] = shrinking[s]
  <2>1. /\ EndOfWay(r) = <<call, numSteps[r], attempt[r], shiftIsLarge[r], switched[r], shrinking[r]>>
        /\ EndOfWay(s) = <<call, numSteps[s], attempt[s], shiftIsLarge[s], switched[s], shrinking[s]>>
        BY <1>2, EndOfCall DEF EndOfWay, AllIn
  <2>2. EndOfWay(r) = EndOfWay(s)
        BY DEF ParallelInv, SameEnd
  <2> QED BY <2>1, <2>2
<1>4. /\ UNCHANGED <<value, numSteps, attempt>>
      /\ \E next \in Calls \cup Local : pc' = [r \in ranks |-> next]
      BY <1>3 DEF Meet, Resume, AfterAssembly, AfterResidual, Calls, Local
<1>5. /\ shiftIsLarge' = shiftIsLarge \/ \E b \in BOOLEAN : shiftIsLarge' = [r \in ranks |-> b]
      /\ switched' = switched \/ \E b \in BOOLEAN : switched' = [r \in ranks |-> b]
      /\ shrinking' = shrinking \/ \E b \in BOOLEAN : shrinking' = [r \in ranks |-> b]
      BY DEF Meet, LargestShift, AnyTrue
<1>6. TypeOK'
      BY <1>1, <1>4, <1>5 DEF ParallelInv, TypeOK
<1>7. SameEnd'
  <2> SUFFICES ASSUME NEW r \in ranks, NEW s \in ranks PROVE EndOfWay(r)' = EndOfWay(s)'
      BY <1>1 DEF SameEnd
  <2>1. /\ pc'[r] = pc'[s] /\ numSteps'[r] = numSteps'[s] /\ attempt'[r] = attempt'[s]
        /\ shiftIsLarge'[r] = shiftIsLarge'[s] /\ switched'[r] = switched'[s]
        /\ shrinking'[r] = shrinking'[s]
        BY <1>3, <1>4, <1>5
  <2> QED BY <2>1 DEF EndOfWay
<1>8. \A r \in ranks : pc[r] \in Calls /\ pc'[r] \in Calls \cup Local
      BY <1>2, <1>4 DEF AllIn
<1> QED BY <1>6, <1>7, <1>8 DEF ParallelInv

LEMMA LocalInv ==
    ASSUME ParallelAssumption, ThrowSites = {}, ParallelInv, NEW r \in ranks, LocalStep(r),
           UNCHANGED config
    PROVE  ParallelInv'
<1>1. TypeOK'
      BY LocalKeepsType DEF ParallelInv
<1>2. CASE \A p, q \in ranks : p = q
      BY <1>1, <1>2 DEF ParallelInv, SameEnd, config
<1>3. CASE ~(\A p, q \in ranks : p = q)
  <2>1. EndOfWay(r)' = EndOfWay(r)
        BY <1>3, LocalKeepsEnd DEF ParallelInv
  <2>2. \A s \in ranks : EndOfWay(s)' = EndOfWay(s)
        BY <2>1, LocalKeepsOthers DEF ParallelInv
  <2>3. ranks' = ranks
        BY DEF config
  <2> QED BY <1>1, <2>2, <2>3 DEF ParallelInv, SameEnd
<1> QED BY <1>2, <1>3

LEMMA ParallelNextInv ==
    ASSUME ParallelAssumption, ThrowSites = {}, ParallelInv, [Next]_vars PROVE ParallelInv'
<1>1. CASE Meet /\ UNCHANGED config
      BY <1>1, MeetInv
<1>2. ASSUME NEW r \in ranks, LocalStep(r), UNCHANGED config PROVE ParallelInv'
      BY <1>2, LocalInv
<1>3. CASE UNCHANGED vars
  <2>1. UNCHANGED <<config, pc, value, numSteps, attempt, shiftIsLarge, switched, shrinking>>
        BY <1>3 DEF vars
  <2>2. TypeOK' /\ ranks' = ranks
        BY <2>1 DEF config, ParallelInv, TypeOK
  <2>3. \A r \in ranks : EndOfWay(r)' = EndOfWay(r)
        BY <2>1 DEF config, EndOfWay, EndOf, EndOfSwitch, EndOfStep, EndOfFailed
  <2> QED BY <2>2, <2>3 DEF ParallelInv, SameEnd
<1> QED BY <1>1, <1>2, <1>3 DEF Next, Step, Terminated
-----------------------------------------------------------------------------
(* While no process throws an exception of its own, the processes that     *)
(* wait in a collective call wait in the same one (the communications of   *)
(* newtonsolver.hh and fvassembler.hh, which MPI matches by their order).  *)
THEOREM CallsMatch ==
    ASSUME ThrowSites = {}
    PROVE  Spec => []SameCall
<1>1. Init => ParallelInv
      BY ParallelAssumption, ParallelInitInv
<1>2. ParallelInv /\ [Next]_vars => ParallelInv'
      BY ParallelAssumption, ParallelNextInv
<1>3. ParallelInv => SameCall
  <2> SUFFICES ASSUME ParallelInv, NEW r \in ranks, NEW s \in ranks,
                      pc[r] \in Calls, pc[s] \in Calls
               PROVE  pc[r] = pc[s] /\ numSteps[r] = numSteps[s] /\ attempt[r] = attempt[s]
      BY DEF SameCall
  <2>1. EndOfWay(r) = EndOfWay(s)
        BY DEF ParallelInv, SameEnd
  <2>2. /\ EndOfWay(r) = <<pc[r], numSteps[r], attempt[r], shiftIsLarge[r], switched[r], shrinking[r]>>
        /\ EndOfWay(s) = <<pc[s], numSteps[s], attempt[s], shiftIsLarge[s], switched[s], shrinking[s]>>
        BY EndOfCall DEF EndOfWay
  <2>3. /\ EndOfWay(r)[1] = pc[r] /\ EndOfWay(r)[2] = numSteps[r] /\ EndOfWay(r)[3] = attempt[r]
        /\ EndOfWay(s)[1] = pc[s] /\ EndOfWay(s)[2] = numSteps[s] /\ EndOfWay(s)[3] = attempt[s]
        BY <2>2
  <2> QED BY <2>1, <2>3
<1> QED BY <1>1, <1>2, <1>3, PTL DEF Spec

LEMMA LocalStartsLocal ==
    ASSUME NEW r \in ranks, LocalStep(r) PROVE pc[r] \in Local
    BY DEF LocalStep, Assemble, SetupSolver, FinishSolver, UpdateShift, GridUpdate, Switch,
           EndStep, Fail, Local

(* A process that returns does so with the outcome of those that have.     *)
LEMMA ReturnsLikeOthers ==
    ASSUME TypeOK, SameEnd', UNCHANGED config, NEW r \in ranks, LocalStep(r),
           NEW s \in ranks, s # r, pc[s] \in Returned, pc'[r] \in Returned
    PROVE  pc'[r] = pc[s] /\ attempt'[r] = attempt[s]
<1>1. ranks' = ranks /\ residualCriterion' = residualCriterion /\ hasPriVarsSwitch' = hasPriVarsSwitch
      BY DEF config
<1>2. pc'[s] = pc[s] /\ attempt'[s] = attempt[s] /\ EndOfWay(s)' = EndOfWay(s)
      BY LocalKeepsOthers
<1>3. EndOfWay(r)' = EndOf(pc'[r], numSteps'[r], attempt'[r], shiftIsLarge'[r], switched'[r], shrinking'[r])
      BY <1>1 DEF EndOfWay, EndOf, EndOfSwitch, EndOfStep, EndOfFailed
<1>4. EndOfWay(r)' = <<pc'[r], numSteps'[r], attempt'[r], shiftIsLarge'[r], switched'[r], shrinking'[r]>>
      BY <1>3, EndOfCall
<1>5. EndOfWay(s) = <<pc[s], numSteps[s], attempt[s], shiftIsLarge[s], switched[s], shrinking[s]>>
      BY EndOfCall DEF EndOfWay
<1>6. EndOfWay(r)' = EndOfWay(s)
      BY <1>1, <1>2 DEF SameEnd
<1>7. /\ EndOfWay(r)'[1] = pc'[r] /\ EndOfWay(r)'[3] = attempt'[r]
      /\ EndOfWay(s)[1] = pc[s] /\ EndOfWay(s)[3] = attempt[s]
      BY <1>4, <1>5
<1> QED BY <1>6, <1>7

(* The processes return alike: none of them takes another time step size   *)
(* or another outcome out of solve than the rest.                          *)
THEOREM SolvesAgree ==
    ASSUME ThrowSites = {}
    PROVE  Spec => SolvesAlike
<1> DEFINE Pending == <<"pending", 0>>
           of(r) == IF r \in ranks /\ pc[r] \in Returned THEN <<pc[r], attempt[r]>> ELSE Pending
           returned == [r \in Ranks |-> of(r)]
<1>1. Init => ParallelInv
      BY ParallelAssumption, ParallelInitInv
<1>2. ParallelInv /\ [Next]_vars => ParallelInv'
      BY ParallelAssumption, ParallelNextInv
<1>3. Init => Agreement!AgreementInit
      BY DEF Init, Returned, Agreement!AgreementInit
<1>4. ParallelInv /\ ParallelInv' /\ [Next]_vars => [Agreement!AgreementNext]_returned
  <2> SUFFICES ASSUME ParallelInv, ParallelInv', [Next]_vars
               PROVE  returned' = returned \/ Agreement!AgreementNext
      OBVIOUS
  <2>1. \A r : r \in Local \cup Calls => r \notin Returned
        BY DEF Local, Calls, Returned
  <2>2. CASE Meet /\ UNCHANGED config
    <3>1. \A r \in ranks : pc[r] \notin Returned /\ pc'[r] \notin Returned
          BY <2>1, <2>2, MeetInv
    <3>2. ranks' = ranks
          BY <2>2 DEF config
    <3> QED BY <3>1, <3>2
  <2>3. ASSUME NEW r \in ranks, LocalStep(r), UNCHANGED config
        PROVE  returned' = returned \/ Agreement!AgreementNext
    <3>1. ranks' = ranks /\ r \in Ranks /\ TypeOK /\ TypeOK' /\ SameEnd'
          BY <2>3 DEF config, ParallelInv, TypeOK
    <3>2. pc[r] \notin Returned
          BY <2>1, <2>3, LocalStartsLocal
    <3>3. \A s \in ranks : s # r => pc'[s] = pc[s] /\ attempt'[s] = attempt[s]
          BY <2>3, <3>1, LocalKeepsOthers
    <3>4. CASE pc'[r] \notin Returned
          BY <3>1, <3>2, <3>3, <3>4
    <3>5. CASE pc'[r] \in Returned
      <4>1. <<pc'[r], attempt'[r]>> \in Returned \X (0..MaxTimeStepDivisions)
            BY <3>1, <3>5 DEF TypeOK
      <4>2. PICK outcome \in Returned \X (0..MaxTimeStepDivisions) :
                outcome = <<pc'[r], attempt'[r]>>
            BY <4>1
      <4>3. returned[r] = Pending
            BY <3>1, <3>2
      <4>4. \A s \in Ranks : returned[s] \in {Pending, outcome}
            BY <2>3, <3>1, <3>2, <3>5, <4>2, ReturnsLikeOthers
      <4>5. returned' = [returned EXCEPT ![r] = outcome]
            BY <3>1, <3>3, <3>5, <4>2
      <4>6. Agreement!Return(r, outcome)
            BY <4>3, <4>4, <4>5 DEF Agreement!Return
      <4> QED BY <3>1, <4>6 DEF Agreement!AgreementNext
    <3> QED BY <3>4, <3>5
  <2>4. CASE UNCHANGED vars
        BY <2>4 DEF vars, config
  <2> QED BY <2>2, <2>3, <2>4 DEF Next, Step, Terminated
<1> QED BY <1>1, <1>2, <1>3, <1>4, PTL DEF Spec, SolvesAlike, Agreement!AgreementSpec
=============================================================================
