--------------------------- MODULE AssemblyProofs ---------------------------
(***************************************************************************)
(* Proofs about the parts of an assembly: what is reassembled, what is     *)
(* switched, and the whole of MC_Assembly.                                 *)
(*                                                                         *)
(* BoxReassembly, for every grid, every distribution of its elements and   *)
(* all shifts and thresholds: the processes of a border vertex color it    *)
(* alike, and the rows the system is solved with are complete, of one      *)
(* iterate and close to the solution.                                      *)
(*                                                                         *)
(* CellReassembly, for every connectivity, all shifts and all thresholds:  *)
(* a column that is kept is of this attempt and its element has moved by   *)
(* no more than the threshold.                                             *)
(*                                                                         *)
(* PrimaryVariableSwitch, for every grid of a cell-centered scheme: after  *)
(* the loop over the elements the cached variables follow the solution     *)
(* that the switch has rewritten.                                          *)
(*                                                                         *)
(* PhasePresence, for every set of models: whatever a rule does, the       *)
(* variables hold what the new presence reads, and a degree of freedom     *)
(* whose phases stay near their thresholds switches twice at most.  What   *)
(* has to be known of the rules are facts about each row of their tables,  *)
(* GoodRule for the first and RuleReturns for the second.                  *)
(*                                                                         *)
(* MC_Assembly: the types of all four state machines.                      *)
(***************************************************************************)
EXTENDS MC_Assembly, TLAPS

(* A row as the linear solver may find it. *)
RowIsGood(e, v) ==
    /\ entries[e][v] = 1
    /\ linearized[e][v] \in 1..Len(travel)
    /\ Moved(v, linearized[e][v]) <= dist[v]

(* The rows that are kept are good, and no element at another one is       *)
(* skipped.                                                                *)
KeptRowsGood ==
    \A e \in Elements : \A v \in VerticesOf[e] :
        IF Keeps(e, v) THEN RowIsGood(e, v) ELSE elementColor[e] # green

KeptRowsAlike ==
    \A d, e \in Elements : \A v \in VerticesOf[d] \cap VerticesOf[e] :
        Keeps(d, v) => linearized[d][v] = linearized[e][v]

BoxInv ==
    /\ BoxTypeOK /\ discMethod = "box"
    /\ BorderColorsAgree
    /\ RowsOfOneIterate
    /\ phase = "assemble" => KeptRowsGood /\ KeptRowsAlike
    /\ phase = "update" => \A e \in Elements : \A v \in VerticesOf[e] : RowIsGood(e, v)
    /\ phase # "failed" => \A e \in Elements : \A v \in VerticesOf[e] : dist[v] <= threshold
-----------------------------------------------------------------------------
LEMMA Incidence ==
    /\ \A p \in Processes : VerticesOn[p] \subseteq Dofs
    /\ \A v \in Dofs : \A p : p \in Sharing[v] <=> p \in Processes /\ v \in VerticesOn[p]
    /\ \A e \in Elements : \A v \in VerticesOf[e] :
          v \in Dofs /\ Holder[e] \in Sharing[v]
<1>1. ASSUME NEW p \in Processes
      PROVE  VerticesOn[p] = {v \in Dofs : \E e \in Elements : Holder[e] = p /\ v \in VerticesOf[e]}
  <2>1. VerticesOn[p] = UNION {VerticesOf[e] : e \in ElementsOf[p]}
        BY DEF VerticesOn
  <2>2. ElementsOf[p] = {e \in Elements : Holder[e] = p}
        BY DEF ElementsOf
  <2> QED BY <2>1, <2>2, BoxAssumption
<1>2. \A v \in Dofs : Sharing[v] = {p \in Processes : v \in VerticesOn[p]}
      BY DEF Sharing
<1> QED BY <1>1, <1>2, BoxAssumption

(* Where the processes of a vertex agree, so do minimum and maximum.       *)
LEMMA AgreedColor ==
    ASSUME NEW c, NEW k \in Color, NEW p \in Processes, NEW v \in VerticesOn[p],
           \A q \in Sharing[v] : c[q][v] = k
    PROVE  MinOverProcesses(c)[p][v] = k /\ MaxOverProcesses(c)[p][v] = k
<1> DEFINE colors == {c[q][v] : q \in Sharing[v]}
<1>1. colors = {k} /\ k <= k /\ k >= k
      BY Incidence DEF Color, red, yellow, orange, green
<1>2. (CHOOSE l \in colors : \A q \in Sharing[v] : l <= c[q][v]) = k
      BY <1>1
<1>3. (CHOOSE l \in colors : \A q \in Sharing[v] : l >= c[q][v]) = k
      BY <1>1
<1> QED BY <1>2, <1>3 DEF MinOverProcesses, MaxOverProcesses

(* A minimum of orange and green vertices that is not orange has none.     *)
LEMMA NoneIsOrange ==
    ASSUME NEW c, NEW p \in Processes, NEW v \in VerticesOn[p],
           \A q \in Sharing[v] : c[q][v] \in {orange, green},
           MinOverProcesses(c)[p][v] # orange
    PROVE  \A q \in Sharing[v] : c[q][v] = green
<1> DEFINE colors == {c[q][v] : q \in Sharing[v]}
           m == CHOOSE l \in colors : \A q \in Sharing[v] : l <= c[q][v]
<1> SUFFICES ASSUME NEW q \in Sharing[v], c[q][v] = orange PROVE FALSE
    OBVIOUS
<1>1. orange \in colors /\ \A r \in Sharing[v] : orange <= c[r][v]
      BY DEF orange, green
<1>2. m \in colors /\ m <= c[q][v]
      BY <1>1
<1>3. m = orange
      BY <1>2 DEF orange, green
<1> QED BY <1>3 DEF MinOverProcesses
-----------------------------------------------------------------------------
(* What the engine's stages come to: a vertex too far away is red on all   *)
(* its processes, and a green element has green vertices only.             *)
LEMMA ColorsComputed ==
    ASSUME NEW R \in SUBSET Dofs, ComputeColors(R)
    PROVE  /\ elementColor' \in [Elements -> Color]
           /\ \A p \in Processes : vertexColor'[p] \in [VerticesOn[p] -> Color]
           /\ BorderColorsAgree'
           /\ \A v \in R : \A p \in Sharing[v] : vertexColor'[p][v] = red
           /\ \A e \in Elements : \A v \in VerticesOf[e] :
                 elementColor'[e] = green => vertexColor'[Holder[e]][v] = green
<1>1. PICK tinted, met, yellowed, demoted :
          /\ tinted = TintedVertices(R) /\ met = MinOverProcesses(tinted)
          /\ elementColor' = ColoredElements(R, met)
          /\ yellowed = YellowedVertices(elementColor', met)
          /\ demoted = MaxOverProcesses(yellowed)
          /\ vertexColor' = PromotedVertices(demoted)
      BY DEF ComputeColors
<1>2. ASSUME NEW p \in Processes, NEW v \in VerticesOn[p]
      PROVE  vertexColor'[p][v] =
                 IF demoted[p][v] \in {green, yellow} THEN demoted[p][v] ELSE red
      BY <1>1, <1>2 DEF PromotedVertices
<1>3. \A p \in Processes : vertexColor'[p] \in [VerticesOn[p] -> Color]
      BY <1>1 DEF PromotedVertices, Color
<1>4. elementColor' \in [Elements -> Color]
      BY <1>1 DEF ColoredElements, Color
<1>5. BorderColorsAgree'
  <2> SUFFICES ASSUME NEW v \in Dofs, NEW p \in Sharing[v], NEW q \in Sharing[v]
               PROVE  vertexColor'[p][v] = vertexColor'[q][v]
      BY DEF BorderColorsAgree
  <2>1. demoted[p][v] = demoted[q][v]
        BY <1>1, Incidence DEF MaxOverProcesses
  <2> QED BY <1>2, <2>1, Incidence
<1>6. ASSUME NEW v \in R, NEW p \in Sharing[v]
      PROVE  vertexColor'[p][v] = red
  <2>1. \A q \in Sharing[v] : tinted[q][v] = red
        BY <1>1, Incidence DEF TintedVertices
  <2>2. \A q \in Sharing[v] : met[q][v] = red
        BY <1>1, <2>1, AgreedColor, Incidence DEF Color
  <2>3. \A q \in Sharing[v] : yellowed[q][v] = red
        BY <1>1, <2>2, Incidence DEF YellowedVertices, red, orange
  <2>4. demoted[p][v] = red
        BY <1>1, <2>3, AgreedColor, Incidence DEF Color
  <2> QED BY <1>2, <2>4, Incidence
<1>7. ASSUME NEW e \in Elements, NEW v \in VerticesOf[e], elementColor'[e] = green
      PROVE  vertexColor'[Holder[e]][v] = green
  <2>1. /\ v \in Dofs /\ Holder[e] \in Sharing[v] /\ Holder[e] \in Processes
        /\ v \in VerticesOn[Holder[e]]
        BY Incidence
  <2>2. e \notin RedElements(R) /\ met[Holder[e]][v] # orange
        BY <1>1, <1>7 DEF ColoredElements, red, yellow, green
  <2>3. v \notin R
        BY <2>2 DEF RedElements
  <2>4. \A q \in Sharing[v] : tinted[q][v] \in {orange, green}
        BY <1>1, <2>1, <2>3, Incidence DEF TintedVertices
  <2>5. \A q \in Sharing[v] : tinted[q][v] = green
        BY <1>1, <2>1, <2>2, <2>4, NoneIsOrange
  <2>6. \A q \in Sharing[v] : met[q][v] = green
        BY <1>1, <2>1, <2>5, AgreedColor, Incidence DEF Color
  <2>7. \A q \in Sharing[v] : yellowed[q][v] = green
        BY <1>1, <2>1, <2>6, Incidence DEF YellowedVertices, green, orange
  <2>8. demoted[Holder[e]][v] = green
        BY <1>1, <2>1, <2>7, AgreedColor DEF Color
  <2> QED BY <1>2, <2>1, <2>8
<1> QED BY <1>3, <1>4, <1>5, <1>6, <1>7
-----------------------------------------------------------------------------
LEMMA BoxInitInv == BoxInit => BoxInv
<1> SUFFICES ASSUME BoxInit PROVE BoxInv
    OBVIOUS
<1>1. AtRest \in [Dofs -> Nat] /\ \A v \in Dofs : AtRest[v] = 0
      BY DEF AtRest
<1>2. /\ travel = <<AtRest>> /\ dist = AtRest /\ threshold \in Thresholds
      /\ phase = "assemble" /\ discMethod = "box"
      BY DEF BoxInit, DistInit
<1>3. travel \in Seq([Dofs -> Nat]) /\ Len(travel) \in 1..MaxIterations
      BY <1>1, <1>2, ReassemblyAssumption
<1>4. DistTypeOK
      BY <1>1, <1>2, <1>3 DEF DistTypeOK
<1>5. /\ \A e \in Elements : elementColor[e] = red
      /\ \A p \in Processes : \A v \in VerticesOn[p] : vertexColor[p][v] = red
      /\ \A e \in Elements : \A v \in VerticesOf[e] : linearized[e][v] = 0
      BY DEF BoxInit, BoxStart, AllElements, AllVertices
<1>6. BoxTypeOK
      BY <1>4, ReassemblyAssumption
         DEF BoxTypeOK, BoxInit, BoxStart, AllElements, AllVertices, Color
<1>7. BorderColorsAgree
      BY <1>5, Incidence DEF BorderColorsAgree
<1>8. \A e \in Elements : \A v \in VerticesOf[e] : ~Keeps(e, v) /\ elementColor[e] # green
  <2> SUFFICES ASSUME NEW e \in Elements, NEW v \in VerticesOf[e]
               PROVE  ~Keeps(e, v) /\ elementColor[e] # green
      OBVIOUS
  <2>1. Holder[e] \in Processes /\ v \in VerticesOn[Holder[e]]
        BY Incidence
  <2> QED BY <1>5, <2>1 DEF Keeps, red, green
<1>9. \A e \in Elements : \A v \in VerticesOf[e] : dist[v] <= threshold
  <2>1. threshold \in Nat /\ \A v \in Dofs : dist[v] = 0
        BY <1>1, <1>2, ReassemblyAssumption
  <2>2. \A e \in Elements : VerticesOf[e] \subseteq Dofs
        BY BoxAssumption
  <2>3. 0 <= threshold
        BY <2>1
  <2>4. ASSUME NEW e \in Elements, NEW v \in VerticesOf[e] PROVE dist[v] = 0
        BY <2>1, <2>2
  <2> QED BY <2>3, <2>4
<1> QED BY <1>2, <1>6, <1>7, <1>8, <1>9
        DEF BoxInv, RowsOfOneIterate, Assembled, KeptRowsGood, KeptRowsAlike

LEMMA BoxUpdateInv == BoxInv /\ Update => BoxInv'
<1> SUFFICES ASSUME BoxInv, NEW shift \in [Dofs -> Shifts], NEW t \in Thresholds,
                    threshold' = t,
                    ComputeColors({v \in Dofs : dist[v] + shift[v] > t}),
                    UpdateDistance(shift,
                        [v \in Dofs |-> \E p \in Sharing[v] : vertexColor'[p][v] = red]),
                    UNCHANGED <<entries, linearized>>
             PROVE  BoxInv'
    BY DEF Update
<1> DEFINE n == Len(travel)
<1>1. /\ shift \in [Dofs -> Nat] /\ t \in Nat
      /\ dist \in [Dofs -> Nat] /\ travel \in Seq([Dofs -> Nat]) /\ n \in 1..MaxIterations
      BY ReassemblyAssumption DEF BoxInv, BoxTypeOK, DistTypeOK
<1>2. /\ phase = "update" /\ phase' = "assemble" /\ n < MaxIterations
      /\ discMethod' = discMethod
      /\ travel' = Append(travel, [d \in Dofs |-> travel[n][d] + shift[d]])
      /\ dist' = [v \in Dofs |-> IF \E p \in Sharing[v] : vertexColor'[p][v] = red THEN 0
                                 ELSE dist[v] + shift[v]]
      BY DEF UpdateDistance
<1>3. PICK R \in SUBSET Dofs :
          R = {v \in Dofs : dist[v] + shift[v] > t} /\ ComputeColors(R)
      OBVIOUS
<1>4. /\ elementColor' \in [Elements -> Color]
      /\ \A p \in Processes : vertexColor'[p] \in [VerticesOn[p] -> Color]
      /\ BorderColorsAgree'
      /\ \A v \in R : \A p \in Sharing[v] : vertexColor'[p][v] = red
      /\ \A e \in Elements : \A v \in VerticesOf[e] :
            elementColor'[e] = green => vertexColor'[Holder[e]][v] = green
      BY <1>3, ColorsComputed
<1>5. [d \in Dofs |-> travel[n][d] + shift[d]] \in [Dofs -> Nat] /\ travel[n] \in [Dofs -> Nat]
      BY <1>1
<1>6. /\ travel' \in Seq([Dofs -> Nat]) /\ Len(travel') = n + 1
      /\ \A i \in 1..n : travel'[i] = travel[i]
      /\ travel'[n + 1] = [d \in Dofs |-> travel[n][d] + shift[d]]
      BY <1>1, <1>2, <1>5
<1>7. BoxTypeOK'
  <2>1. dist' \in [Dofs -> Nat]
        BY <1>1, <1>2
  <2>2. Len(travel') \in 1..MaxIterations
        BY <1>1, <1>2, <1>6, ReassemblyAssumption
  <2>3. DistTypeOK'
        BY <1>2, <1>6, <2>1, <2>2 DEF DistTypeOK, BoxInv
  <2> QED BY <1>4, <2>3 DEF BoxInv, BoxTypeOK
<1>8. ASSUME NEW e \in Elements, NEW v \in VerticesOf[e]
      PROVE  dist'[v] <= threshold'
  <2>1. v \in Dofs /\ Holder[e] \in Sharing[v]
        BY Incidence
  <2>2. CASE v \in R
        BY <1>1, <1>2, <1>4, <2>1, <2>2
  <2>3. CASE v \notin R
    <3>1. dist[v] + shift[v] <= t /\ dist[v] \in Nat /\ shift[v] \in Nat
          BY <1>1, <1>3, <2>1, <2>3
    <3>2. dist'[v] = 0 \/ dist'[v] = dist[v] + shift[v]
          BY <1>2, <2>1
    <3> QED BY <1>1, <3>1, <3>2
  <2> QED BY <2>2, <2>3
<1>9. ASSUME NEW e \in Elements, NEW v \in VerticesOf[e], Keeps(e, v)'
      PROVE  RowIsGood(e, v)'
  <2>1. v \in Dofs /\ Holder[e] \in Sharing[v] /\ vertexColor'[Holder[e]][v] = green
        BY <1>9, Incidence DEF Keeps
  <2>2. \A p \in Sharing[v] : vertexColor'[p][v] = green
        BY <1>4, <2>1 DEF BorderColorsAgree
  <2>3. dist'[v] = dist[v] + shift[v]
        BY <1>2, <2>1, <2>2 DEF red, green
  <2>4. /\ entries[e][v] = 1 /\ linearized[e][v] \in 1..n
        /\ travel[n][v] - travel[linearized[e][v]][v] <= dist[v]
        BY <1>2 DEF BoxInv, RowIsGood, Moved
  <2>5. travel'[linearized'[e][v]][v] = travel[linearized[e][v]][v]
        BY <1>6, <2>4
  <2>6. travel'[n + 1][v] = travel[n][v] + shift[v]
        BY <1>6, <2>1
  <2>7. travel'[Len(travel')][v] = travel[n][v] + shift[v]
        BY <1>6, <2>6
  <2>8. Moved(v, linearized[e][v])' = (travel[n][v] + shift[v]) - travel[linearized[e][v]][v]
    <3>1. Moved(v, linearized[e][v])' =
              travel'[Len(travel')][v] - travel'[linearized'[e][v]][v]
          BY DEF Moved
    <3> HIDE DEF n
    <3> QED BY <2>5, <2>7, <3>1, Zenon
  <2>9. /\ travel[n][v] \in Nat /\ travel[linearized[e][v]][v] \in Nat
        /\ shift[v] \in Nat /\ dist[v] \in Nat
        BY <1>1, <1>5, <2>1, <2>4
  <2>10. Moved(v, linearized[e][v])' <= dist'[v]
         BY <2>3, <2>4, <2>8, <2>9
  <2>11. linearized'[e][v] \in 1..Len(travel') /\ entries'[e][v] = 1
         BY <1>1, <1>6, <2>4
  <2> QED BY <2>10, <2>11 DEF RowIsGood
<1>10. KeptRowsGood'
  <2>1. \A e \in Elements : \A v \in VerticesOf[e] : ~Keeps(e, v)' => elementColor'[e] # green
        BY <1>4 DEF Keeps
  <2> QED BY <1>9, <2>1 DEF KeptRowsGood
<1>11. KeptRowsAlike' /\ RowsOfOneIterate'
       BY <1>2 DEF BoxInv, KeptRowsAlike, RowsOfOneIterate, Assembled
<1> QED BY <1>2, <1>4, <1>7, <1>8, <1>10, <1>11 DEF BoxInv

LEMMA BoxAssembleInv == BoxInv /\ Assemble => BoxInv'
<1> SUFFICES ASSUME BoxInv, Assemble PROVE BoxInv'
    OBVIOUS
<1>1. /\ phase = "assemble" /\ phase' = "update" /\ AssembleElements(Elements)
      /\ UNCHANGED <<discMethod, dist, threshold, travel, elementColor, vertexColor>>
      BY DEF Assemble, AssembleElements, distVars
<1>2. /\ dist \in [Dofs -> Nat] /\ travel \in Seq([Dofs -> Nat]) /\ Len(travel) \in 1..MaxIterations
      /\ threshold \in Nat
      BY ReassemblyAssumption DEF BoxInv, BoxTypeOK, DistTypeOK
<1>3. ASSUME NEW e \in Elements, NEW v \in VerticesOf[e], Keeps(e, v)
      PROVE  entries'[e][v] = entries[e][v] /\ linearized'[e][v] = linearized[e][v]
      BY <1>1, <1>3 DEF AssembleElements
<1>4. ASSUME NEW e \in Elements, NEW v \in VerticesOf[e], ~Keeps(e, v)
      PROVE  entries'[e][v] = 1 /\ linearized'[e][v] = Len(travel)
  <2>1. elementColor[e] # green
        BY <1>1, <1>4 DEF BoxInv, KeptRowsGood
  <2> QED BY <1>1, <1>4, <2>1 DEF AssembleElements
<1>5. ASSUME NEW e \in Elements, NEW v \in VerticesOf[e]
      PROVE  RowIsGood(e, v)'
  <2>1. CASE Keeps(e, v)
    <3>1. RowIsGood(e, v)
          BY <1>1, <2>1 DEF BoxInv, KeptRowsGood
    <3> QED BY <1>1, <1>3, <2>1, <3>1 DEF RowIsGood, Moved
  <2>2. CASE ~Keeps(e, v)
    <3>1. v \in Dofs /\ travel[Len(travel)] \in [Dofs -> Nat]
          BY <1>2, Incidence
    <3>2. travel[Len(travel)][v] \in Nat /\ dist[v] \in Nat
          BY <1>2, <3>1
    <3>3. Moved(v, linearized[e][v])' = travel[Len(travel)][v] - travel[Len(travel)][v]
          BY <1>1, <1>4, <2>2 DEF Moved
    <3> QED BY <1>1, <1>2, <1>4, <2>2, <3>2, <3>3 DEF RowIsGood
  <2> QED BY <2>1, <2>2
<1>6. RowsOfOneIterate'
  <2> SUFFICES ASSUME NEW d \in Elements, NEW e \in Elements,
                      NEW v \in VerticesOf[d] \cap VerticesOf[e]
               PROVE  linearized'[d][v] = linearized'[e][v]
      BY DEF RowsOfOneIterate
  <2>1. Keeps(d, v) <=> Keeps(e, v)
        BY Incidence DEF BoxInv, BorderColorsAgree, Keeps
  <2>2. CASE Keeps(d, v)
        BY <1>1, <1>3, <2>1, <2>2 DEF BoxInv, KeptRowsAlike
  <2>3. CASE ~Keeps(d, v)
        BY <1>4, <2>1, <2>3
  <2> QED BY <2>2, <2>3
<1>7. BoxTypeOK'
  <2>1. DistTypeOK'
        BY <1>1 DEF BoxInv, BoxTypeOK, DistTypeOK
  <2>2. ASSUME NEW e \in Elements
        PROVE  /\ entries'[e] \in [VerticesOf[e] -> Nat]
               /\ linearized'[e] \in [VerticesOf[e] -> 0..MaxIterations]
        BY <1>1, <1>2, ReassemblyAssumption DEF AssembleElements, BoxInv, BoxTypeOK
  <2> QED BY <1>1, <2>1, <2>2 DEF BoxInv, BoxTypeOK
<1>8. BorderColorsAgree' /\ \A e \in Elements : \A v \in VerticesOf[e] : dist'[v] <= threshold'
      BY <1>1 DEF BoxInv, BorderColorsAgree
<1> QED BY <1>1, <1>5, <1>6, <1>7, <1>8 DEF BoxInv

LEMMA BoxNextInv == BoxInv /\ [BoxNext]_boxVars => BoxInv'
<1> SUFFICES ASSUME BoxInv, [BoxNext]_boxVars PROVE BoxInv'
    OBVIOUS
<1>1. CASE Update
      BY <1>1, BoxUpdateInv
<1>2. CASE Assemble
      BY <1>2, BoxAssembleInv
<1>3. CASE AssemblyThrows
  <2>1. PICK done \in SUBSET Elements : AssembleElements(done)
        BY <1>3 DEF AssemblyThrows
  <2>2. /\ phase' = "failed"
        /\ UNCHANGED <<discMethod, dist, threshold, travel, elementColor, vertexColor>>
        BY <1>3, <2>1 DEF AssemblyThrows, AssembleElements, distVars
  <2>3. DistTypeOK' /\ Len(travel) \in 0..MaxIterations
        BY <2>2, ReassemblyAssumption DEF BoxInv, BoxTypeOK, DistTypeOK
  <2>4. ASSUME NEW e \in Elements
        PROVE  /\ entries'[e] \in [VerticesOf[e] -> Nat]
               /\ linearized'[e] \in [VerticesOf[e] -> 0..MaxIterations]
        BY <2>1, <2>3 DEF AssembleElements, BoxInv, BoxTypeOK
  <2>5. BoxTypeOK' /\ BorderColorsAgree'
        BY <2>2, <2>3, <2>4 DEF BoxInv, BoxTypeOK, BorderColorsAgree
  <2> QED BY <2>2, <2>5 DEF BoxInv, RowsOfOneIterate, Assembled
<1>4. CASE SolveAgain
  <2>1. /\ phase' = "assemble" /\ dist' = AtRest /\ travel' = <<AtRest>>
        /\ threshold' = threshold /\ entries' = entries /\ discMethod' = discMethod
        /\ elementColor' = AllElements(red) /\ vertexColor' = AllVertices(red)
        /\ linearized' = [e \in Elements |-> [v \in VerticesOf[e] |-> 0]]
        BY <1>4 DEF SolveAgain, ResetDistance
  <2>2. AtRest \in [Dofs -> Nat] /\ \A v \in Dofs : AtRest[v] = 0
        BY DEF AtRest
  <2>3. travel' \in Seq([Dofs -> Nat]) /\ Len(travel') \in 1..MaxIterations
        BY <2>1, <2>2, ReassemblyAssumption
  <2>4. DistTypeOK' /\ threshold \in Nat
        BY <2>1, <2>2, <2>3, ReassemblyAssumption DEF BoxInv, BoxTypeOK, DistTypeOK
  <2>5. /\ \A e \in Elements : elementColor'[e] = red
        /\ \A p \in Processes : \A v \in VerticesOn[p] : vertexColor'[p][v] = red
        BY <2>1 DEF AllElements, AllVertices
  <2>6. BoxTypeOK'
        BY <2>1, <2>4, ReassemblyAssumption
           DEF BoxInv, BoxTypeOK, AllElements, AllVertices, Color
  <2>7. BorderColorsAgree'
        BY <2>5, Incidence DEF BorderColorsAgree
  <2>8. \A e \in Elements : \A v \in VerticesOf[e] : ~Keeps(e, v)' /\ elementColor'[e] # green
        BY <2>5, Incidence, BoxAssumption DEF Keeps, red, green
  <2>9. \A e \in Elements : \A v \in VerticesOf[e] : dist'[v] <= threshold'
        BY <2>1, <2>2, <2>4, Incidence
  <2> QED BY <2>1, <2>6, <2>7, <2>8, <2>9
          DEF BoxInv, RowsOfOneIterate, Assembled, KeptRowsGood, KeptRowsAlike
<1>5. CASE UNCHANGED boxVars
      BY <1>5 DEF boxVars, distVars, BoxInv, BoxTypeOK, DistTypeOK, BorderColorsAgree,
                  RowsOfOneIterate, Assembled, KeptRowsGood, KeptRowsAlike, Keeps,
                  RowIsGood, Moved
<1> QED BY <1>1, <1>2, <1>3, <1>4, <1>5 DEF BoxNext

LEMMA BoxInvariant == BoxSpec => []BoxInv
<1>1. BoxInit => BoxInv
      BY BoxInitInv
<1>2. BoxInv /\ [BoxNext]_boxVars => BoxInv'
      BY BoxNextInv
<1> QED BY <1>1, <1>2, PTL DEF BoxSpec
-----------------------------------------------------------------------------
(* No row is cleared and left without the contribution of an element       *)
(* (jacobian.hh rows reset by resetRowsOfElement_, elements skipped by     *)
(* boxlocalassembler.hh).                                                  *)
THEOREM RowsAreComplete == BoxSpec => []RowsComplete
<1>1. BoxInv => RowsComplete
      BY DEF BoxInv, RowsComplete, Assembled, RowIsGood
<1> QED BY <1>1, BoxInvariant, PTL

(* No row mixes linearizations at different iterates, across processes.    *)
THEOREM RowsAreOfOneIterate == BoxSpec => []RowsOfOneIterate
<1>1. BoxInv => RowsOfOneIterate
      BY DEF BoxInv
<1> QED BY <1>1, BoxInvariant, PTL

(* The two communications of computeColors make the processes agree.       *)
THEOREM BordersAgree == BoxSpec => []BorderColorsAgree
<1>1. BoxInv => BorderColorsAgree
      BY DEF BoxInv
<1> QED BY <1>1, BoxInvariant, PTL

(* A kept row is of this attempt, and its vertex within the threshold.     *)
THEOREM RowsAreClose == BoxSpec => []KeptRowsAreClose
<1>1. BoxInv => KeptRowsAreClose
  <2> SUFFICES ASSUME BoxInv, Assembled("box"), NEW e \in Elements, NEW v \in VerticesOf[e]
               PROVE  linearized[e][v] > 0 /\ Moved(v, linearized[e][v]) <= threshold
      BY DEF KeptRowsAreClose
  <2>1. /\ linearized[e][v] \in 1..Len(travel) /\ Moved(v, linearized[e][v]) <= dist[v]
        /\ dist[v] <= threshold
        BY DEF BoxInv, Assembled, RowIsGood
  <2>2. /\ travel \in Seq([Dofs -> Nat]) /\ Len(travel) \in Nat
        /\ dist[v] \in Nat /\ threshold \in Nat /\ v \in Dofs
        BY Incidence, ReassemblyAssumption DEF BoxInv, BoxTypeOK, DistTypeOK
  <2>3. travel[Len(travel)][v] \in Nat /\ travel[linearized[e][v]][v] \in Nat
        BY <2>1, <2>2
  <2> QED BY <2>1, <2>2, <2>3 DEF Moved
<1> QED BY <1>1, BoxInvariant, PTL
-----------------------------------------------------------------------------
(* The distance of an element is how far it has moved since its column was *)
(* linearized, whenever the column is kept.                                *)
DistanceIsTravel ==
    /\ phase = "update" =>
          \A e \in Dofs : /\ columnFrom[e] \in 1..Len(travel)
                          /\ dist[e] = Moved(e, columnFrom[e])
                          /\ dist[e] <= threshold
    /\ phase = "assemble" =>
          \A e \in Dofs :
              IF cellColor[e] = "red" THEN dist[e] = 0
              ELSE /\ columnFrom[e] \in 1..Len(travel)
                   /\ dist[e] = Moved(e, columnFrom[e])
                   /\ dist[e] <= threshold

CellInv == CellTypeOK /\ discMethod = "cctpfa" /\ DistanceIsTravel
-----------------------------------------------------------------------------
LEMMA CellInitInv == CellInit => CellInv
<1> SUFFICES ASSUME CellInit PROVE CellInv
    OBVIOUS
<1>1. AtRest \in [Dofs -> Nat] /\ travel = <<AtRest>>
      BY DEF AtRest, CellInit, CellStart, DistInit
<1>2. travel \in Seq([Dofs -> Nat]) /\ Len(travel) = 1 /\ MaxIterations \in Nat \ {0}
      BY <1>1, ReassemblyAssumption
<1>3. DistTypeOK
      BY <1>1, <1>2 DEF CellInit, CellStart, DistInit, DistTypeOK
<1>4. CellTypeOK
      BY <1>3, ReassemblyAssumption DEF CellInit, CellStart, CellTypeOK
<1>5. DistanceIsTravel
      BY DEF CellInit, CellStart, DistInit, AtRest, DistanceIsTravel
<1> QED BY <1>4, <1>5 DEF CellInv, CellInit

LEMMA CellUpdateInv == CellInv /\ UpdateColumns => CellInv'
<1> SUFFICES ASSUME CellInv, NEW shift \in [Dofs -> Shifts], NEW t \in Thresholds,
                    threshold' = t,
                    ComputeCellColors([e \in Dofs |-> dist[e] + shift[e]], t),
                    UpdateDistance(shift, [e \in Dofs |-> cellColor'[e] = "red"]),
                    UNCHANGED columnFrom
             PROVE  CellInv'
    BY DEF UpdateColumns
<1> DEFINE n == Len(travel)
<1>1. /\ shift \in [Dofs -> Nat] /\ t \in Nat
      /\ dist \in [Dofs -> Nat] /\ travel \in Seq([Dofs -> Nat]) /\ n \in 1..MaxIterations
      /\ columnFrom \in [Dofs -> 0..MaxIterations]
      BY ReassemblyAssumption DEF CellInv, CellTypeOK, DistTypeOK
<1>2. /\ phase = "update" /\ phase' = "assemble" /\ n < MaxIterations
      /\ discMethod' = discMethod
      /\ travel' = Append(travel, [d \in Dofs |-> travel[n][d] + shift[d]])
      /\ dist' = [d \in Dofs |-> IF cellColor'[d] = "red" THEN 0 ELSE dist[d] + shift[d]]
      BY DEF UpdateDistance
<1>3. cellColor' = [e \in Dofs |-> IF dist[e] + shift[e] > t THEN "red" ELSE "green"]
      BY DEF ComputeCellColors
<1>4. travel[n] \in [Dofs -> Nat]
      BY <1>1
<1>5. [d \in Dofs |-> travel[n][d] + shift[d]] \in [Dofs -> Nat]
      BY <1>1, <1>4
<1>6. /\ travel' \in Seq([Dofs -> Nat]) /\ Len(travel') = n + 1
      /\ \A i \in 1..n : travel'[i] = travel[i]
      /\ travel'[n + 1] = [d \in Dofs |-> travel[n][d] + shift[d]]
      BY <1>1, <1>2, <1>5
<1>7. CellTypeOK'
  <2>1. dist' \in [Dofs -> Nat]
        BY <1>1, <1>2
  <2>2. cellColor' \in [Dofs -> {"red", "green"}]
        BY <1>3
  <2>3. Len(travel') \in 1..MaxIterations
        BY <1>1, <1>2, <1>6, ReassemblyAssumption
  <2>4. threshold' \in Thresholds /\ columnFrom' \in [Dofs -> 0..MaxIterations]
        BY <1>1
  <2> QED BY <1>2, <1>6, <2>1, <2>2, <2>3, <2>4 DEF CellTypeOK, DistTypeOK, CellInv
<1>8. ASSUME NEW e \in Dofs
      PROVE  IF cellColor'[e] = "red" THEN dist'[e] = 0
             ELSE /\ columnFrom'[e] \in 1..Len(travel')
                  /\ dist'[e] = Moved(e, columnFrom[e])'
                  /\ dist'[e] <= threshold'
  <2>1. CASE cellColor'[e] = "red"
        BY <1>2, <2>1
  <2>2. CASE cellColor'[e] # "red"
    <3>1. dist'[e] = dist[e] + shift[e] /\ dist'[e] <= t
          BY <1>1, <1>2, <1>3, <2>2
    <3>2. columnFrom[e] \in 1..n /\ dist[e] = travel[n][e] - travel[columnFrom[e]][e]
          BY <1>2 DEF CellInv, DistanceIsTravel, Moved
    <3>3. travel'[columnFrom'[e]][e] = travel[columnFrom[e]][e]
          BY <1>6, <3>2
    <3>4. travel'[n + 1][e] = travel[n][e] + shift[e]
          BY <1>6
    <3>5. travel'[Len(travel')][e] = travel[n][e] + shift[e]
          BY <1>6, <3>4
    <3>6. Moved(e, columnFrom[e])' = (travel[n][e] + shift[e]) - travel[columnFrom[e]][e]
      <4>1. Moved(e, columnFrom[e])' = travel'[Len(travel')][e] - travel'[columnFrom'[e]][e]
            BY DEF Moved
      <4> HIDE DEF n
      <4> QED BY <3>3, <3>5, <4>1, Zenon
    <3>7. travel[n][e] \in Nat /\ travel[columnFrom[e]][e] \in Nat /\ shift[e] \in Nat
          BY <1>1, <1>4, <3>2
    <3> QED BY <1>1, <1>6, <2>2, <3>1, <3>2, <3>6, <3>7
  <2> QED BY <2>1, <2>2
<1> QED BY <1>2, <1>7, <1>8 DEF CellInv, DistanceIsTravel

LEMMA CellAssembleInv == CellInv /\ AssembleColumns => CellInv'
<1> SUFFICES ASSUME CellInv, AssembleColumns PROVE CellInv'
    OBVIOUS
<1>1. /\ phase = "assemble" /\ phase' = "update"
      /\ columnFrom' = [e \in Dofs |->
            IF cellColor[e] = "red" THEN Len(travel) ELSE columnFrom[e]]
      /\ UNCHANGED <<discMethod, dist, threshold, travel, cellColor>>
      BY DEF AssembleColumns, distVars
<1>2. /\ dist \in [Dofs -> Nat] /\ travel \in Seq([Dofs -> Nat]) /\ Len(travel) \in 1..MaxIterations
      /\ columnFrom \in [Dofs -> 0..MaxIterations] /\ threshold \in Nat
      BY ReassemblyAssumption DEF CellInv, CellTypeOK, DistTypeOK
<1>3. CellTypeOK'
      BY <1>1, <1>2 DEF CellInv, CellTypeOK, DistTypeOK
<1>4. ASSUME NEW e \in Dofs
      PROVE  /\ columnFrom'[e] \in 1..Len(travel')
             /\ dist'[e] = Moved(e, columnFrom[e])'
             /\ dist'[e] <= threshold'
  <2>1. CASE cellColor[e] = "red"
    <3>1. columnFrom'[e] = Len(travel) /\ dist[e] = 0
          BY <1>1, <2>1 DEF CellInv, DistanceIsTravel
    <3>2. travel[Len(travel)] \in [Dofs -> Nat]
          BY <1>2
    <3>3. Moved(e, columnFrom[e])' = 0
          BY <1>1, <3>1, <3>2 DEF Moved
    <3> QED BY <1>1, <1>2, <3>1, <3>3
  <2>2. CASE cellColor[e] # "red"
        BY <1>1, <2>2 DEF CellInv, DistanceIsTravel, Moved
  <2> QED BY <2>1, <2>2
<1> QED BY <1>1, <1>3, <1>4 DEF CellInv, DistanceIsTravel

LEMMA CellNextInv == CellInv /\ [CellNext]_cellVars => CellInv'
<1> SUFFICES ASSUME CellInv, [CellNext]_cellVars PROVE CellInv'
    OBVIOUS
<1>1. CASE UpdateColumns
      BY <1>1, CellUpdateInv
<1>2. CASE AssembleColumns
      BY <1>2, CellAssembleInv
<1>3. CASE ColumnsThrow
  <2>1. phase' = "failed" /\ UNCHANGED <<discMethod, dist, threshold, travel, cellColor>>
        BY <1>3 DEF ColumnsThrow, distVars
  <2>2. CellTypeOK'
        BY <1>3, <2>1, ReassemblyAssumption
           DEF ColumnsThrow, CellInv, CellTypeOK, DistTypeOK
  <2> QED BY <2>1, <2>2 DEF CellInv, DistanceIsTravel
<1>4. CASE CellsSolveAgain
  <2>1. /\ phase' = "assemble" /\ dist' = AtRest /\ travel' = <<AtRest>>
        /\ UNCHANGED <<discMethod, threshold>> /\ cellColor' = [e \in Dofs |-> "red"]
        /\ columnFrom' = [e \in Dofs |-> 0]
        BY <1>4 DEF CellsSolveAgain, ResetDistance
  <2>2. AtRest \in [Dofs -> Nat] /\ \A e \in Dofs : AtRest[e] = 0
        BY DEF AtRest
  <2>3. travel' \in Seq([Dofs -> Nat]) /\ Len(travel') \in 1..MaxIterations
        BY <2>1, <2>2, ReassemblyAssumption
  <2>4. CellTypeOK'
        BY <2>1, <2>2, <2>3, ReassemblyAssumption DEF CellInv, CellTypeOK, DistTypeOK
  <2> QED BY <2>1, <2>2, <2>4 DEF CellInv, DistanceIsTravel
<1>5. CASE UNCHANGED cellVars
      BY <1>5 DEF cellVars, distVars, CellInv, CellTypeOK, DistTypeOK, DistanceIsTravel, Moved
<1> QED BY <1>1, <1>2, <1>3, <1>4, <1>5 DEF CellNext

(* The system is never solved with a column of an earlier attempt or one   *)
(* whose element is further from its linearization than the threshold      *)
(* (PartialReassemblerEngine for cctpfa, newtonsolver.hh:421-429).         *)
THEOREM ColumnsClose == CellSpec => []KeptColumnsAreClose
<1>1. CellInit => CellInv
      BY CellInitInv
<1>2. CellInv /\ [CellNext]_cellVars => CellInv'
      BY CellNextInv
<1>3. CellInv => KeptColumnsAreClose
  <2> SUFFICES ASSUME CellInv, Assembled("cctpfa"), NEW e \in Dofs
               PROVE  columnFrom[e] > 0 /\ Moved(e, columnFrom[e]) <= threshold
      BY DEF KeptColumnsAreClose
  <2>1. /\ columnFrom[e] \in 1..Len(travel) /\ dist[e] = Moved(e, columnFrom[e])
        /\ dist[e] <= threshold /\ Len(travel) \in Nat
        BY DEF CellInv, DistanceIsTravel, Assembled, CellTypeOK, DistTypeOK
  <2> QED BY <2>1
<1> QED BY <1>1, <1>2, <1>3, PTL DEF CellSpec
-----------------------------------------------------------------------------
(* Conditions of the Dirichlet kind are weak, so that no degree of freedom *)
(* is set to one.                                                          *)
CellCentered == SwitchAssumption /\ DirichletDofs = {}

(* The caches of the faces follow the volume variables even while these    *)
(* are being renewed.                                                      *)
FacesFollow == \A f \in Faces : fluxVarsCache[f] = FluxFrom(volVars, f)

(* A sub control volume that does not follow the solution yet is flagged,  *)
(* and the loop has not come to its element.                               *)
RestIsAhead ==
    \A s \in Scvs :
        \/ volVars[s] = sol[s[2]]
        \/ /\ s[2] \in wasSwitched
           /\ \E i \in 1..Len(ElementOrder) : i > renewed /\ ElementOrder[i] = s[1]

SwitchInv ==
    /\ SwitchTypeOK
    /\ FacesFollow
    /\ IF pc = "renew" THEN RestIsAhead ELSE \A s \in Scvs : volVars[s] = sol[s[2]]
-----------------------------------------------------------------------------
LEMMA FluxHasType ==
    ASSUME SwitchAssumption, NEW vv \in [Scvs -> Values], NEW f \in Faces
    PROVE  FluxFrom(vv, f) \in [Stencil[f] -> Values]
<1>1. Stencil[f] \subseteq Scvs
      BY DEF SwitchAssumption
<1> QED BY <1>1 DEF FluxFrom

LEMMA SwitchInitTypes == ASSUME SwitchAssumption, SwitchInit PROVE SwitchTypeOK
<1>1. /\ pc = "begin" /\ renewed = 0 /\ sol \in [SwitchDofs -> Values] /\ wasSwitched = {}
      /\ volVars = [s \in Scvs |-> sol[s[2]]]
      /\ fluxVarsCache = [f \in Faces |-> FluxFrom(volVars, f)]
      BY DEF SwitchInit
<1>2. \A s \in Scvs : s[2] \in SwitchDofs
      BY DEF Scvs
<1>3. volVars \in [Scvs -> Values]
      BY <1>1, <1>2
<1>4. \A f \in Faces : fluxVarsCache[f] \in [Stencil[f] -> Values]
      BY <1>1, <1>3, FluxHasType
<1>5. pc \in {"begin", "assemble", "switch", "renew"} /\ wasSwitched \subseteq SwitchDofs
      BY <1>1, Zenon
<1>6. renewed \in 0..Len(ElementOrder)
      BY <1>1 DEF SwitchAssumption
<1> QED BY <1>1, <1>3, <1>4, <1>5, <1>6 DEF SwitchTypeOK

LEMMA SwitchInitInv == ASSUME CellCentered, SwitchInit PROVE SwitchInv
<1>1. SwitchTypeOK
      BY SwitchInitTypes DEF CellCentered
<1>2. /\ pc = "begin" /\ volVars = [s \in Scvs |-> sol[s[2]]]
      /\ fluxVarsCache = [f \in Faces |-> FluxFrom(volVars, f)]
      BY DEF SwitchInit
<1> QED BY <1>1, <1>2 DEF SwitchInv, FacesFollow

LEMMA SwitchUpdateInv == ASSUME CellCentered, SwitchInv, SwitchUpdate PROVE SwitchInv'
<1>1. PICK wouldSwitch \in SUBSET SwitchDofs, switched \in SUBSET SwitchDofs :
          /\ switched \subseteq wouldSwitch
          /\ sol' \in [SwitchDofs -> Values]
          /\ \A d \in SwitchDofs : d \in switched <=> sol'[d] # sol[d]
          /\ wasSwitched' = wouldSwitch
          /\ pc' = "renew" \/ (switched = {} /\ pc' = "assemble")
      BY DEF SwitchUpdate
<1>2. pc = "switch" /\ renewed' = 0 /\ UNCHANGED <<volVars, fluxVarsCache>>
      BY DEF SwitchUpdate
<1>3. \A s \in Scvs : volVars[s] = sol[s[2]]
      BY <1>2 DEF SwitchInv
<1>4. SwitchTypeOK' /\ FacesFollow'
  <2>1. Len(ElementOrder) \in Nat
        BY DEF CellCentered, SwitchAssumption
  <2> QED BY <1>1, <1>2, <2>1 DEF SwitchInv, SwitchTypeOK, FacesFollow
<1>5. ASSUME NEW s \in Scvs
      PROVE  /\ s[2] \in SwitchDofs
             /\ \E i \in 1..Len(ElementOrder) : i > 0 /\ ElementOrder[i] = s[1]
      BY DEF Scvs, VisitedElements, CellCentered, SwitchAssumption
<1>6. RestIsAhead'
      BY <1>1, <1>2, <1>3, <1>5 DEF RestIsAhead
<1>7. pc' # "renew" => \A s \in Scvs : volVars'[s] = sol'[s[2]]
      BY <1>1, <1>2, <1>3, <1>5
<1> QED BY <1>4, <1>6, <1>7 DEF SwitchInv

LEMMA RenewElementInv == ASSUME CellCentered, SwitchInv, RenewElement PROVE SwitchInv'
<1> DEFINE e == ElementOrder[renewed']
           flagged == DofsOf[e] \cap wasSwitched
<1>1. /\ pc = "renew" /\ renewed < Len(ElementOrder) /\ renewed' = renewed + 1
      /\ volVars' = [s \in Scvs |->
             IF s[1] = e /\ s[2] \in flagged THEN sol[s[2]] ELSE volVars[s]]
      /\ fluxVarsCache' = [f \in Faces |->
             IF flagged # {} /\ f \in FacesOf(e) THEN FluxFrom(volVars', f)
             ELSE fluxVarsCache[f]]
      /\ pc' = (IF renewed' = Len(ElementOrder) THEN "assemble" ELSE "renew")
      /\ UNCHANGED <<sol, wasSwitched>>
      BY DEF RenewElement
<1>2. /\ renewed \in 0..Len(ElementOrder) /\ Len(ElementOrder) \in Nat
      /\ sol \in [SwitchDofs -> Values] /\ volVars \in [Scvs -> Values]
      BY DEF SwitchInv, SwitchTypeOK, CellCentered, SwitchAssumption
<1>3. \A s \in Scvs : s[2] \in SwitchDofs /\ s[2] \in DofsOf[s[1]]
      BY DEF Scvs
<1>4. volVars' \in [Scvs -> Values]
      BY <1>1, <1>2, <1>3
<1>5. ASSUME NEW f \in Faces PROVE fluxVarsCache'[f] = FluxFrom(volVars', f)
  <2>1. Stencil[f] \subseteq Scvs
        BY DEF CellCentered, SwitchAssumption
  <2>2. CASE flagged # {} /\ f \in FacesOf(e)
        BY <1>1, <2>2
  <2>3. CASE ~(flagged # {} /\ f \in FacesOf(e))
    <3>1. \A s \in Stencil[f] : ~(s[1] = e /\ s[2] \in flagged)
          BY <2>3 DEF FacesOf
    <3>2. \A s \in Stencil[f] : volVars'[s] = volVars[s]
          BY <1>1, <2>1, <3>1
    <3>3. fluxVarsCache'[f] = FluxFrom(volVars, f)
          BY <1>1, <2>3 DEF SwitchInv, FacesFollow
    <3> QED BY <3>2, <3>3 DEF FluxFrom
  <2> QED BY <2>2, <2>3
<1>6. SwitchTypeOK'
  <2>1. \A f \in Faces : fluxVarsCache'[f] \in [Stencil[f] -> Values]
        BY <1>4, <1>5, FluxHasType DEF CellCentered
  <2>2. renewed' \in 0..Len(ElementOrder) /\ pc' \in {"assemble", "renew"}
        BY <1>1, <1>2
  <2> QED BY <1>1, <1>4, <2>1, <2>2 DEF SwitchInv, SwitchTypeOK
<1>7. ASSUME NEW s \in Scvs
      PROVE  \/ volVars'[s] = sol'[s[2]]
             \/ /\ s[2] \in wasSwitched'
                /\ \E i \in 1..Len(ElementOrder) : i > renewed' /\ ElementOrder[i] = s[1]
  <2>1. CASE volVars[s] = sol[s[2]]
        BY <1>1, <2>1
  <2>2. CASE volVars[s] # sol[s[2]]
    <3>1. PICK i \in 1..Len(ElementOrder) :
              i > renewed /\ ElementOrder[i] = s[1] /\ s[2] \in wasSwitched
          BY <1>1, <2>2 DEF SwitchInv, RestIsAhead
    <3>2. CASE i = renewed'
          BY <1>1, <1>3, <3>1, <3>2
    <3>3. CASE i # renewed'
          BY <1>1, <1>2, <3>1, <3>3
    <3> QED BY <3>2, <3>3
  <2> QED BY <2>1, <2>2
<1>8. RestIsAhead'
      BY <1>7 DEF RestIsAhead
<1>9. renewed' = Len(ElementOrder) => \A s \in Scvs : volVars'[s] = sol'[s[2]]
      BY <1>2, <1>7
<1> QED BY <1>1, <1>5, <1>6, <1>8, <1>9 DEF SwitchInv, FacesFollow

LEMMA SwitchNextInv == ASSUME CellCentered, SwitchInv, [SwitchNext]_switchVars PROVE SwitchInv'
<1>1. CASE NewtonBegin
  <2>1. /\ pc' = "assemble" /\ sol' \in [SwitchDofs -> Values]
        /\ \A d \in SwitchDofs : sol'[d] = sol[d]
        /\ volVars' = [s \in Scvs |-> volVars[s]]
        /\ UNCHANGED <<renewed, wasSwitched, fluxVarsCache>>
        BY <1>1 DEF NewtonBegin, CellCentered
  <2>2. sol' = sol /\ volVars' = volVars
        BY <2>1 DEF SwitchInv, SwitchTypeOK
  <2>3. pc = "begin"
        BY <1>1 DEF NewtonBegin
  <2> QED BY <2>1, <2>2, <2>3 DEF SwitchInv, SwitchTypeOK, FacesFollow
<1>2. ASSUME Renewed(sol'), sol' \in [SwitchDofs -> Values],
             renewed' \in 0..Len(ElementOrder), pc' \in {"begin", "switch"},
             wasSwitched' = wasSwitched
      PROVE  SwitchInv'
  <2>1. /\ \A s \in Scvs : volVars'[s] = sol'[s[2]]
        /\ volVars' \in [Scvs -> Values]
        /\ \A f \in Faces : fluxVarsCache'[f] = FluxFrom(volVars', f)
    <3>1. \A s \in Scvs : s[2] \in SwitchDofs
          BY DEF Scvs
    <3> QED BY <1>2, <3>1 DEF Renewed
  <2>2. \A f \in Faces : fluxVarsCache'[f] \in [Stencil[f] -> Values]
        BY <2>1, FluxHasType DEF CellCentered
  <2> QED BY <1>2, <2>1, <2>2 DEF SwitchInv, SwitchTypeOK, FacesFollow
<1>3. CASE Iterate
      BY <1>2, <1>3 DEF Iterate, SwitchInv, SwitchTypeOK
<1>4. CASE SwitchUpdate
      BY <1>4, SwitchUpdateInv
<1>5. CASE RenewElement
      BY <1>5, RenewElementInv
<1>6. CASE NextSolve
  <2>1. 0 \in 0..Len(ElementOrder)
        BY DEF CellCentered, SwitchAssumption
  <2> QED BY <1>2, <1>6, <2>1 DEF NextSolve
<1>7. CASE UNCHANGED switchVars
      BY <1>7 DEF switchVars, SwitchInv, SwitchTypeOK, FacesFollow, RestIsAhead
<1> QED BY <1>1, <1>3, <1>4, <1>5, <1>6, <1>7 DEF SwitchNext

(* Every assembly of a cell-centered scheme finds cached variables that    *)
(* follow the solution (invokePriVarSwitch_, newtonsolver.hh, and          *)
(* updateSwitchedVolVars and updateSwitchedFluxVarsCache of                *)
(* compositional/primaryvariableswitch.hh).                                *)
THEOREM CachesFollow ==
    ASSUME CellCentered
    PROVE  SwitchSpec => []CachesFollowSolution
<1>1. SwitchInit => SwitchInv
      BY SwitchInitInv
<1>2. SwitchInv /\ [SwitchNext]_switchVars => SwitchInv'
      BY SwitchNextInv
<1>3. SwitchInv => CachesFollowSolution
      BY DEF SwitchInv, CachesFollowSolution, FacesFollow
<1> QED BY <1>1, <1>2, <1>3, PTL DEF SwitchSpec
-----------------------------------------------------------------------------
(* The types hold for every scheme, Dirichlet conditions or not.           *)
LEMMA SwitchTypesKept ==
    ASSUME SwitchAssumption, SwitchTypeOK, [SwitchNext]_switchVars
    PROVE  SwitchTypeOK'
<1>1. Len(ElementOrder) \in Nat
      BY DEF SwitchAssumption
<1>2. \A s \in Scvs : s[2] \in SwitchDofs
      BY DEF Scvs
<1>3. ASSUME Renewed(sol'), sol' \in [SwitchDofs -> Values]
      PROVE  /\ volVars' \in [Scvs -> Values]
             /\ \A f \in Faces : fluxVarsCache'[f] \in [Stencil[f] -> Values]
  <2>1. volVars' \in [Scvs -> Values]
        BY <1>2, <1>3 DEF Renewed
  <2> QED BY <1>3, <2>1, FluxHasType DEF Renewed
<1>4. CASE NewtonBegin
  <2>1. sol' \in [SwitchDofs -> Values] /\ volVars' \in [Scvs -> Values]
        BY <1>2, <1>4 DEF NewtonBegin, SwitchTypeOK
  <2> QED BY <1>4, <2>1 DEF NewtonBegin, SwitchTypeOK
<1>5. CASE Iterate
      BY <1>3, <1>5 DEF Iterate, SwitchTypeOK
<1>6. CASE SwitchUpdate
      BY <1>1, <1>6 DEF SwitchUpdate, SwitchTypeOK
<1>7. CASE RenewElement
  <2>1. volVars' \in [Scvs -> Values]
        BY <1>2, <1>7 DEF RenewElement, SwitchTypeOK
  <2>2. ASSUME NEW f \in Faces PROVE fluxVarsCache'[f] \in [Stencil[f] -> Values]
    <3>1. fluxVarsCache'[f] = fluxVarsCache[f] \/ fluxVarsCache'[f] = FluxFrom(volVars', f)
          BY <1>7 DEF RenewElement
    <3> QED BY <2>1, <3>1, FluxHasType DEF SwitchTypeOK
  <2>3. renewed' \in 0..Len(ElementOrder) /\ pc' \in {"assemble", "renew"}
        BY <1>1, <1>7 DEF RenewElement, SwitchTypeOK
  <2> QED BY <1>7, <2>1, <2>2, <2>3 DEF RenewElement, SwitchTypeOK
<1>8. CASE NextSolve
      BY <1>1, <1>3, <1>8 DEF NextSolve, SwitchTypeOK
<1>9. CASE UNCHANGED switchVars
      BY <1>9 DEF switchVars, SwitchTypeOK
<1> QED BY <1>4, <1>5, <1>6, <1>7, <1>8, <1>9 DEF SwitchNext
-----------------------------------------------------------------------------
VariableNames == {"p", "s1", "s2"}

RowTyped(table, r) ==
    {r.from, r.to} \subseteq DOMAIN table /\ DOMAIN r.vars \subseteq VariableNames

(* Fits, for a rule. *)
RuleFits(r, held, read) ==
    \/ held = read
    \/ /\ held = Little
       /\ \/ \E a \in r.to \ r.from : read \in {S(a), P(a)}
          \/ \E a \in r.to, c \in WGN \ r.to : read = x(a, c)
    \/ held = Most /\ \E a \in r.from : read = S(a)

(* Only phases that pass appear or vanish, what is written fits what is    *)
(* read, and what is not written meant the same before.                    *)
RowFits(table, r) ==
    /\ (r.to \ r.from) \cup (r.from \ r.to) \subseteq r.by
    /\ \A v \in DOMAIN table[r.to] :
          IF v \in DOMAIN r.vars THEN RuleFits(r, r.vars[v], table[r.to][v])
          ELSE v \in DOMAIN table[r.from] /\ table[r.from][v] = table[r.to][v]

GoodRule(table, r) == RowTyped(table, r) /\ RowFits(table, r)

Formulated == formulation \in {"p0s1", "p1s0"}

LEMMA PresencesDiffer ==
    /\ W # G /\ W # WG /\ W # WN /\ W # GN /\ W # WGN
    /\ G # WG /\ G # WN /\ G # GN /\ G # WGN
    /\ WG # WN /\ WG # GN /\ WG # WGN
    /\ WN # GN /\ WN # WGN /\ GN # WGN
BY DEF W, G, WG, WN, GN, WGN

LEMMA PhasesOfPresences == \A a :
    /\ a \in W <=> a = "w"
    /\ a \in G <=> a = "g"
    /\ a \in N <=> a = "n"
    /\ a \in WG <=> a = "w" \/ a = "g"
    /\ a \in WN <=> a = "w" \/ a = "n"
    /\ a \in GN <=> a = "g" \/ a = "n"
    /\ a \in WGN <=> a = "w" \/ a = "g" \/ a = "n"
BY DEF W, G, N, WG, WN, GN, WGN

LEMMA RulesOf2pnc == ASSUME Formulated PROVE \A r \in Rules2pnc : GoodRule(Reads2pnc, r)
<1>1. /\ DOMAIN Reads2pnc = {W, G, WG}
      /\ Reads2pnc[W] = [s1 |-> x("w", "g"), s2 |-> x("w", "k")]
      /\ Reads2pnc[G] = [s1 |-> x("g", "w"), s2 |-> x("g", "k")]
      /\ Reads2pnc[WG] = [s1 |-> ReadSaturation, s2 |-> x("w", "k")]
      BY PresencesDiffer DEF Reads2pnc
<1>2. \A r \in Rules2pnc : RowTyped(Reads2pnc, r)
      BY <1>1 DEF Rules2pnc, Rule, RowTyped, VariableNames, Fresh
<1>3. \A r \in Rules2pnc : (r.to \ r.from) \cup (r.from \ r.to) \subseteq r.by
      BY PhasesOfPresences DEF Rules2pnc, Rule, Fresh
<1>4. ASSUME NEW r \in Rules2pnc, NEW v \in DOMAIN Reads2pnc[r.to], v \in DOMAIN r.vars
      PROVE  RuleFits(r, r.vars[v], Reads2pnc[r.to][v])
      BY <1>1, <1>4, PhasesOfPresences DEF Rules2pnc, Rule, RuleFits, Fresh, ReadSaturation, Formulated
<1>5. ASSUME NEW r \in Rules2pnc, NEW v \in DOMAIN Reads2pnc[r.to], v \notin DOMAIN r.vars
      PROVE  v \in DOMAIN Reads2pnc[r.from] /\ Reads2pnc[r.from][v] = Reads2pnc[r.to][v]
      BY <1>1, <1>5 DEF Rules2pnc, Rule, Fresh
<1> QED BY <1>2, <1>3, <1>4, <1>5 DEF GoodRule, RowFits

LEMMA RulesOfCO2 == ASSUME Formulated PROVE \A r \in RulesCO2 : GoodRule(ReadsCO2, r)
<1>1. /\ DOMAIN ReadsCO2 = {W, G, WG}
      /\ ReadsCO2[W] = [s1 |-> x("w", "g")]
      /\ ReadsCO2[G] = [s1 |-> x("g", "w")]
      /\ ReadsCO2[WG] = [s1 |-> ReadSaturation]
      BY PresencesDiffer DEF ReadsCO2
<1>2. \A r \in RulesCO2 : RowTyped(ReadsCO2, r)
      BY <1>1 DEF RulesCO2, Rule, RowTyped, VariableNames, Fresh
<1>3. \A r \in RulesCO2 : (r.to \ r.from) \cup (r.from \ r.to) \subseteq r.by
      BY PhasesOfPresences DEF RulesCO2, Rule, Fresh
<1>4. ASSUME NEW r \in RulesCO2, NEW v \in DOMAIN ReadsCO2[r.to], v \in DOMAIN r.vars
      PROVE  RuleFits(r, r.vars[v], ReadsCO2[r.to][v])
      BY <1>1, <1>4, PhasesOfPresences DEF RulesCO2, Rule, RuleFits, Fresh, ReadSaturation, Formulated
<1>5. ASSUME NEW r \in RulesCO2, NEW v \in DOMAIN ReadsCO2[r.to], v \notin DOMAIN r.vars
      PROVE  v \in DOMAIN ReadsCO2[r.from] /\ ReadsCO2[r.from][v] = ReadsCO2[r.to][v]
      BY <1>1, <1>5 DEF RulesCO2, Rule, Fresh
<1> QED BY <1>2, <1>3, <1>4, <1>5 DEF GoodRule, RowFits

LEMMA RulesOf2p1c == ASSUME Formulated PROVE \A r \in Rules2p1c : GoodRule(Reads2p1c, r)
<1>1. /\ DOMAIN Reads2p1c = {W, G, WG}
      /\ Reads2p1c[W] = [s1 |-> T]
      /\ Reads2p1c[G] = [s1 |-> T]
      /\ Reads2p1c[WG] = [s1 |-> ReadSaturation]
      BY PresencesDiffer DEF Reads2p1c
<1>2. \A r \in Rules2p1c : RowTyped(Reads2p1c, r)
      BY <1>1 DEF Rules2p1c, Rule, RowTyped, VariableNames, Fresh
<1>3. \A r \in Rules2p1c : (r.to \ r.from) \cup (r.from \ r.to) \subseteq r.by
      BY PhasesOfPresences DEF Rules2p1c, Rule, Fresh
<1>4. ASSUME NEW r \in Rules2p1c, NEW v \in DOMAIN Reads2p1c[r.to], v \in DOMAIN r.vars
      PROVE  RuleFits(r, r.vars[v], Reads2p1c[r.to][v])
      BY <1>1, <1>4, PhasesOfPresences DEF Rules2p1c, Rule, RuleFits, Fresh, ReadSaturation, Formulated
<1>5. ASSUME NEW r \in Rules2p1c, NEW v \in DOMAIN Reads2p1c[r.to], v \notin DOMAIN r.vars
      PROVE  v \in DOMAIN Reads2p1c[r.from] /\ Reads2p1c[r.from][v] = Reads2p1c[r.to][v]
      BY <1>1, <1>5 DEF Rules2p1c, Rule, Fresh
<1> QED BY <1>2, <1>3, <1>4, <1>5 DEF GoodRule, RowFits

LEMMA RulesOfRichards == \A r \in RulesRichards : GoodRule(ReadsRichards, r)
<1>1. /\ DOMAIN ReadsRichards = {G, WG}
      /\ ReadsRichards[G] = [s1 |-> x("g", "w")]
      /\ ReadsRichards[WG] = [s1 |-> P("w")]
      BY PresencesDiffer DEF ReadsRichards
<1>2. \A r \in RulesRichards : RowTyped(ReadsRichards, r)
      BY <1>1 DEF RulesRichards, Rule, RowTyped, VariableNames
<1>3. \A r \in RulesRichards : (r.to \ r.from) \cup (r.from \ r.to) \subseteq r.by
      BY PhasesOfPresences DEF RulesRichards, Rule
<1>4. ASSUME NEW r \in RulesRichards, NEW v \in DOMAIN ReadsRichards[r.to], v \in DOMAIN r.vars
      PROVE  RuleFits(r, r.vars[v], ReadsRichards[r.to][v])
      BY <1>1, <1>4, PhasesOfPresences DEF RulesRichards, Rule, RuleFits
<1>5. ASSUME NEW r \in RulesRichards, NEW v \in DOMAIN ReadsRichards[r.to], v \notin DOMAIN r.vars
      PROVE  v \in DOMAIN ReadsRichards[r.from] /\ ReadsRichards[r.from][v] = ReadsRichards[r.to][v]
      BY <1>1, <1>5 DEF RulesRichards, Rule
<1> QED BY <1>2, <1>3, <1>4, <1>5 DEF GoodRule, RowFits

LEMMA RulesOf3p3c == \A r \in Rules3p3c : GoodRule(Reads3p3c, r)
<1>1. /\ DOMAIN Reads3p3c = {WGN, WG, WN, GN, W, G}
      /\ Reads3p3c[WGN] = [s1 |-> S("w"), s2 |-> S("n")]
      /\ Reads3p3c[WG] = [s1 |-> S("w"), s2 |-> x("g", "n")]
      /\ Reads3p3c[WN] = [s1 |-> x("w", "g"), s2 |-> S("n")]
      /\ Reads3p3c[GN] = [s1 |-> x("g", "w"), s2 |-> S("n")]
      /\ Reads3p3c[W] = [s1 |-> x("w", "g"), s2 |-> x("w", "n")]
      /\ Reads3p3c[G] = [s1 |-> x("g", "w"), s2 |-> x("g", "n")]
      BY PresencesDiffer DEF Reads3p3c
<1>2. \A r \in Rules3p3c : RowTyped(Reads3p3c, r)
      BY <1>1 DEF Rules3p3c, Rule, RowTyped, VariableNames
<1>3. \A r \in Rules3p3c : (r.to \ r.from) \cup (r.from \ r.to) \subseteq r.by
      BY PhasesOfPresences DEF Rules3p3c, Rule
<1>4. ASSUME NEW r \in Rules3p3c, NEW v \in DOMAIN Reads3p3c[r.to], v \in DOMAIN r.vars
      PROVE  RuleFits(r, r.vars[v], Reads3p3c[r.to][v])
      BY <1>1, <1>4, PhasesOfPresences DEF Rules3p3c, Rule, RuleFits
<1>5. ASSUME NEW r \in Rules3p3c, NEW v \in DOMAIN Reads3p3c[r.to], v \notin DOMAIN r.vars
      PROVE  v \in DOMAIN Reads3p3c[r.from] /\ Reads3p3c[r.from][v] = Reads3p3c[r.to][v]
      BY <1>1, <1>5 DEF Rules3p3c, Rule
<1> QED BY <1>2, <1>3, <1>4, <1>5 DEF GoodRule, RowFits

LEMMA RulesOfWaterOil ==
    LET gas == [s \in {WGN, WN} |-> Reads3pwateroil[s]]
    IN  /\ \A r \in Rules3pwateroilGas : GoodRule(gas, r)
        /\ \A r \in Rules3pwateroil : RowTyped(Reads3pwateroil, r)
<1> DEFINE gas == [s \in {WGN, WN} |-> Reads3pwateroil[s]]
<1>1. /\ DOMAIN Reads3pwateroil = {WGN, WG, WN, GN, W, G}
      /\ Reads3pwateroil[WGN] = [p |-> P("g"), s1 |-> S("w"), s2 |-> S("n")]
      /\ Reads3pwateroil[WN] = [p |-> P("w"), s1 |-> T, s2 |-> S("n")]
      BY PresencesDiffer DEF Reads3pwateroil
<1>2. /\ DOMAIN gas = {WGN, WN}
      /\ gas[WGN] = [p |-> P("g"), s1 |-> S("w"), s2 |-> S("n")]
      /\ gas[WN] = [p |-> P("w"), s1 |-> T, s2 |-> S("n")]
      BY <1>1
<1> HIDE DEF gas
<1>3. \A r \in Rules3pwateroil : RowTyped(Reads3pwateroil, r)
      BY <1>1 DEF Rules3pwateroil, Rule, RowTyped, VariableNames
<1>4. \A r \in Rules3pwateroilGas : RowTyped(gas, r)
      BY <1>2 DEF Rules3pwateroilGas, Rule, RowTyped, VariableNames
<1>5. \A r \in Rules3pwateroilGas : RowFits(gas, r)
      BY <1>2, PhasesOfPresences DEF Rules3pwateroilGas, Rule, RowFits, RuleFits
<1> QED BY <1>3, <1>4, <1>5 DEF GoodRule, gas

LEMMA RulesAreGood ==
    ASSUME Formulated, NEW m \in Models, NEW r \in RulesOf(m)
    PROVE  RowTyped(Reads(m), r) /\ (m # "3pwateroil" => RowFits(Reads(m), r))
<1>1. CASE m = "2pnc"
      BY <1>1, RulesOf2pnc DEF RulesOf, Reads, GoodRule
<1>2. CASE m = "co2"
      BY <1>2, RulesOfCO2 DEF RulesOf, Reads, GoodRule
<1>3. CASE m = "2p1c"
      BY <1>3, RulesOf2p1c DEF RulesOf, Reads, GoodRule
<1>4. CASE m = "richards"
      BY <1>4, RulesOfRichards DEF RulesOf, Reads, GoodRule
<1>5. CASE m = "3p3c"
      BY <1>5, RulesOf3p3c DEF RulesOf, Reads, GoodRule
<1>6. CASE m = "3pwateroil"
      BY <1>6, RulesOfWaterOil DEF RulesOf, Reads
<1>7. CASE m = "3pwateroil_gas"
      BY <1>7, RulesOfWaterOil DEF RulesOf, Reads, GoodRule
<1> QED BY <1>1, <1>2, <1>3, <1>4, <1>5, <1>6, <1>7, PresenceAssumption DEF PresenceAssumption

LEMMA ReadsNames ==
    ASSUME NEW m \in Models, NEW q \in DOMAIN Reads(m)
    PROVE  DOMAIN Reads(m)[q] \subseteq VariableNames
<1>1. CASE m = "2pnc"
      BY <1>1, PresencesDiffer DEF Reads, Reads2pnc, VariableNames
<1>2. CASE m = "co2"
      BY <1>2, PresencesDiffer DEF Reads, ReadsCO2, VariableNames
<1>3. CASE m = "2p1c"
      BY <1>3, PresencesDiffer DEF Reads, Reads2p1c, VariableNames
<1>4. CASE m = "richards"
      BY <1>4, PresencesDiffer DEF Reads, ReadsRichards, VariableNames
<1>5. CASE m = "3p3c"
      BY <1>5, PresencesDiffer DEF Reads, Reads3p3c, VariableNames
<1>6. CASE m = "3pwateroil"
      BY <1>6, PresencesDiffer DEF Reads, Reads3pwateroil, VariableNames
<1>7. CASE m = "3pwateroil_gas"
      BY <1>7, PresencesDiffer DEF Reads, Reads3pwateroil, VariableNames
<1> QED BY <1>1, <1>2, <1>3, <1>4, <1>5, <1>6, <1>7, PresenceAssumption DEF PresenceAssumption

(* What is read depends on the model and the formulation only.             *)
LEMMA ReadsStay ==
    ASSUME UNCHANGED <<model, formulation>>
    PROVE  Reads(model)' = Reads(model) /\ PhasesOf(model)' = PhasesOf(model)
<1>1. ReadSaturation' = ReadSaturation
      BY DEF ReadSaturation
<1>2. Reads(model)' = Reads(model)
      BY <1>1 DEF Reads, Reads2pnc, ReadsCO2, Reads2p1c
<1> QED BY <1>2 DEF PhasesOf

(* A phase passes only beyond its threshold.                               *)
LEMMA PassingIsBeyond == \A a \in Passing : excess[a] # "none"
<1>1. \A a \in Passing : Passes(a)
      BY DEF Passing
<1> QED BY <1>1 DEF Passes

PresenceInv ==
    /\ PresenceTypeOK
    /\ due => \A v \in DOMAIN Reads(model)[presence] :
                  priVars[v] = Reads(model)[presence][v]
    /\ model # "3pwateroil" => SwitchedVarsFit

LEMMA WrittenHolds ==
    ASSUME NEW vars, NEW old
    PROVE  /\ DOMAIN Written(vars, old) = DOMAIN vars \cup DOMAIN old
           /\ \A v \in DOMAIN vars : Written(vars, old)[v] = vars[v]
           /\ \A v \in DOMAIN old \ DOMAIN vars : Written(vars, old)[v] = old[v]
BY DEF Written

LEMMA PresenceInitInv == PresenceInit => PresenceInv
<1> SUFFICES ASSUME PresenceInit PROVE PresenceInv
    OBVIOUS
<1> DEFINE unused == [v \in VariableNames |-> <<"unused">>]
<1>1. /\ model \in Models /\ formulation \in {"p0s1", "p1s0"}
      /\ presence \in DOMAIN Reads(model) /\ before = presence
      /\ priVars = Written(Reads(model)[presence], unused)
      /\ isFlagged \in BOOLEAN /\ due = FALSE /\ excess \in Excesses(presence)
      BY DEF PresenceInit, VariableNames
<1>2. DOMAIN unused = VariableNames
      OBVIOUS
<1> HIDE DEF unused
<1>3. DOMAIN priVars = VariableNames
      BY <1>1, <1>2, ReadsNames, WrittenHolds
<1>4. DOMAIN excess = PhasesOf(model)
      BY <1>1 DEF Excesses
<1>5. PresenceTypeOK
      BY <1>1, <1>3, <1>4 DEF PresenceTypeOK, VariableNames
<1>6. \A v \in DOMAIN Reads(model)[presence] : priVars[v] = Reads(model)[presence][v]
      BY <1>1, WrittenHolds
<1>7. PhasesFlip
      BY <1>1 DEF PhasesFlip
<1>8. SwitchedVarsFit
      BY <1>6, <1>7 DEF SwitchedVarsFit, Fits
<1> QED BY <1>1, <1>5, <1>8 DEF PresenceInv

LEMMA NewIterateInv == PresenceInv /\ NewIterate => PresenceInv'
<1> SUFFICES ASSUME PresenceInv, NewIterate PROVE PresenceInv'
    OBVIOUS
<1>1. /\ due' = TRUE /\ excess' \in Excesses(presence)
      /\ priVars' = Written(Reads(model)[presence], priVars)
      /\ UNCHANGED <<model, formulation, presence, before, isFlagged>>
      BY DEF NewIterate
<1>2. Reads(model)' = Reads(model) /\ PhasesOf(model)' = PhasesOf(model)
      BY <1>1, ReadsStay
<1>3. /\ model \in Models /\ formulation \in {"p0s1", "p1s0"} /\ isFlagged \in BOOLEAN
      /\ {presence, before} \subseteq DOMAIN Reads(model) /\ DOMAIN priVars = VariableNames
      BY DEF PresenceInv, PresenceTypeOK, VariableNames
<1>4. DOMAIN priVars' = VariableNames
      BY <1>1, <1>3, ReadsNames, WrittenHolds
<1>5. DOMAIN excess' = PhasesOf(model)
      BY <1>1 DEF Excesses
<1>6. PresenceTypeOK'
      BY <1>1, <1>2, <1>3, <1>4, <1>5 DEF PresenceTypeOK, VariableNames
<1>7. \A v \in DOMAIN Reads(model)[presence] : priVars'[v] = Reads(model)[presence][v]
      BY <1>1, WrittenHolds
<1>8. SwitchedVarsFit'
      BY <1>1, <1>2, <1>7 DEF SwitchedVarsFit, PhasesFlip, Fits
<1> QED BY <1>1, <1>2, <1>6, <1>7, <1>8 DEF PresenceInv

LEMMA UpdateDofInv == PresenceInv /\ UpdateDof => PresenceInv'
<1> SUFFICES ASSUME PresenceInv, UpdateDof PROVE PresenceInv'
    OBVIOUS
<1>1. /\ due /\ due' = FALSE /\ before' = presence /\ isFlagged' = WouldSwitch
      /\ UNCHANGED <<model, formulation, excess>>
      BY DEF UpdateDof
<1>2. Reads(model)' = Reads(model) /\ PhasesOf(model)' = PhasesOf(model)
      BY <1>1, ReadsStay
<1>3. /\ model \in Models /\ formulation \in {"p0s1", "p1s0"}
      /\ presence \in DOMAIN Reads(model) /\ DOMAIN priVars = VariableNames
      /\ DOMAIN excess = PhasesOf(model)
      BY DEF PresenceInv, PresenceTypeOK, VariableNames
<1>4. \A v \in DOMAIN Reads(model)[presence] : priVars[v] = Reads(model)[presence][v]
      BY <1>1 DEF PresenceInv
<1>5. WouldSwitch \in BOOLEAN
      BY DEF WouldSwitch
<1>6. CASE UNCHANGED <<presence, priVars>>
  <2>1. PresenceTypeOK'
        BY <1>1, <1>2, <1>3, <1>5, <1>6 DEF PresenceTypeOK, VariableNames
  <2>2. SwitchedVarsFit'
        BY <1>1, <1>2, <1>4, <1>6 DEF SwitchedVarsFit, PhasesFlip, Fits
  <2> QED BY <1>1, <2>1, <2>2 DEF PresenceInv
<1>7. ASSUME NEW r \in RulesOf(model), r.from = presence, r.by = Passing,
             presence' = r.to, priVars' = Written(r.vars, priVars)
      PROVE  PresenceInv'
  <2>1. RowTyped(Reads(model), r) /\ (model # "3pwateroil" => RowFits(Reads(model), r))
        BY <1>3, RulesAreGood DEF Formulated
  <2>2. /\ DOMAIN priVars' = VariableNames
        /\ \A v \in VariableNames :
              priVars'[v] = IF v \in DOMAIN r.vars THEN r.vars[v] ELSE priVars[v]
        BY <1>3, <1>7, <2>1 DEF Written, RowTyped
  <2>3. PresenceTypeOK'
        BY <1>1, <1>2, <1>3, <1>5, <1>7, <2>1, <2>2 DEF PresenceTypeOK, VariableNames, RowTyped
  <2>4. ASSUME model # "3pwateroil" PROVE SwitchedVarsFit'
    <3>1. PhasesFlip'
          BY <1>1, <1>7, <2>1, <2>4, PassingIsBeyond DEF PhasesFlip, RowFits
    <3>2. ASSUME NEW v \in DOMAIN Reads(model)[r.to], v \in DOMAIN r.vars
          PROVE  Fits(priVars[v], Reads(model)[r.to][v])'
      <4>1. priVars'[v] = r.vars[v] /\ RuleFits(r, r.vars[v], Reads(model)[r.to][v])
            BY <2>1, <2>2, <2>4, <3>2 DEF RowFits, RowTyped
      <4> QED BY <1>1, <1>2, <1>7, <4>1 DEF Fits, RuleFits
    <3>3. ASSUME NEW v \in DOMAIN Reads(model)[r.to], v \notin DOMAIN r.vars
          PROVE  priVars'[v] = Reads(model)[r.to][v]
      <4>1. v \in DOMAIN Reads(model)[presence] /\ Reads(model)[presence][v] = Reads(model)[r.to][v]
            BY <1>7, <2>1, <2>4, <3>3 DEF RowFits
      <4>2. v \in VariableNames
            BY <1>3, <4>1, ReadsNames
      <4> QED BY <1>4, <2>2, <3>3, <4>1, <4>2
    <3> QED BY <1>2, <1>7, <3>1, <3>2, <3>3 DEF SwitchedVarsFit, Fits
  <2> QED BY <1>1, <2>3, <2>4 DEF PresenceInv
<1> QED BY <1>6, <1>7 DEF UpdateDof

LEMMA PresenceNextInv == PresenceInv /\ [PresenceNext]_presenceVars => PresenceInv'
<1>1. ASSUME PresenceInv, UNCHANGED presenceVars PROVE PresenceInv'
  <2>1. UNCHANGED <<model, formulation, presence, before, priVars, isFlagged, excess, due>>
        BY <1>1 DEF presenceVars
  <2>2. Reads(model)' = Reads(model) /\ PhasesOf(model)' = PhasesOf(model)
        BY <2>1, ReadsStay
  <2> QED BY <1>1, <2>1, <2>2 DEF PresenceInv, PresenceTypeOK, SwitchedVarsFit, PhasesFlip, Fits
<1> QED BY <1>1, NewIterateInv, UpdateDofInv DEF PresenceNext

(* In every model but the water-oil model with all its presences (finding  *)
(* in its rules) only phases beyond their thresholds appear or vanish, and *)
(* every variable holds what the volume variables read for the new         *)
(* presence (update_ of the primaryvariableswitch.hh of each model).       *)
THEOREM SwitchedVariablesFit ==
    ASSUME "3pwateroil" \notin Models
    PROVE  PresenceSpec => []SwitchedVarsFit
<1>1. PresenceInv => SwitchedVarsFit
      BY DEF PresenceInv, PresenceTypeOK
<1> QED BY <1>1, PresenceInitInv, PresenceNextInv, PTL DEF PresenceSpec
-----------------------------------------------------------------------------
(* A phase is tested in a presence.                                        *)
Asks(rules, p, a) == \E q \in rules : q.from = p /\ a \in q.by

(* Where only phases that are present pass, one of those that vanish is    *)
(* asked for again in the new presence.                                    *)
RuleReturns(rules, table, r) ==
    /\ r.by # {} /\ r.by \subseteq UNION DOMAIN table
    /\ r.by \subseteq r.from => \E a \in r.by \ r.to : Asks(rules, r.to, a)

LEMMA ReturnOf2pnc == \A r \in Rules2pnc : RuleReturns(Rules2pnc, Reads2pnc, r)
<1>1. DOMAIN Reads2pnc = {W, G, WG}
      BY DEF Reads2pnc
<1>2. \A r \in Rules2pnc : r.by # {} /\ r.by \subseteq WG
      BY PhasesOfPresences DEF Rules2pnc, Rule, Fresh
<1>3. ASSUME NEW r \in Rules2pnc, r.by \subseteq r.from
      PROVE  \E a \in r.by \ r.to : Asks(Rules2pnc, r.to, a)
      BY <1>3, PhasesOfPresences DEF Rules2pnc, Rule, Asks, Fresh
<1> QED BY <1>1, <1>2, <1>3 DEF RuleReturns

LEMMA ReturnOfCO2 == \A r \in RulesCO2 : RuleReturns(RulesCO2, ReadsCO2, r)
<1>1. DOMAIN ReadsCO2 = {W, G, WG}
      BY DEF ReadsCO2
<1>2. \A r \in RulesCO2 : r.by # {} /\ r.by \subseteq WG
      BY PhasesOfPresences DEF RulesCO2, Rule, Fresh
<1>3. ASSUME NEW r \in RulesCO2, r.by \subseteq r.from
      PROVE  \E a \in r.by \ r.to : Asks(RulesCO2, r.to, a)
      BY <1>3, PhasesOfPresences DEF RulesCO2, Rule, Asks, Fresh
<1> QED BY <1>1, <1>2, <1>3 DEF RuleReturns

LEMMA ReturnOfRichards == \A r \in RulesRichards : RuleReturns(RulesRichards, ReadsRichards, r)
<1>1. DOMAIN ReadsRichards = {G, WG}
      BY DEF ReadsRichards
<1>2. \A r \in RulesRichards : r.by # {} /\ r.by \subseteq WG
      BY PhasesOfPresences DEF RulesRichards, Rule
<1>3. ASSUME NEW r \in RulesRichards, r.by \subseteq r.from
      PROVE  \E a \in r.by \ r.to : Asks(RulesRichards, r.to, a)
      BY <1>3, PhasesOfPresences DEF RulesRichards, Rule, Asks
<1> QED BY <1>1, <1>2, <1>3 DEF RuleReturns

LEMMA ReturnOf3p3c == \A r \in Rules3p3c : RuleReturns(Rules3p3c, Reads3p3c, r)
<1>1. DOMAIN Reads3p3c = {WGN, WG, WN, GN, W, G}
      BY DEF Reads3p3c
<1>2. \A r \in Rules3p3c : r.by # {} /\ r.by \subseteq WGN
      BY PhasesOfPresences DEF Rules3p3c, Rule
<1>3. ASSUME NEW r \in Rules3p3c, r.by \subseteq r.from
      PROVE  \E a \in r.by \ r.to : Asks(Rules3p3c, r.to, a)
      BY <1>3, PhasesOfPresences DEF Rules3p3c, Rule, Asks
<1> QED BY <1>1, <1>2, <1>3 DEF RuleReturns

LEMMA ReturnOf3pwateroil == \A r \in Rules3pwateroil : RuleReturns(Rules3pwateroil, Reads3pwateroil, r)
<1>1. DOMAIN Reads3pwateroil = {WGN, WG, WN, GN, W, G}
      BY DEF Reads3pwateroil
<1>2. \A r \in Rules3pwateroil : r.by # {} /\ r.by \subseteq WGN
      BY PhasesOfPresences DEF Rules3pwateroil, Rule
<1>3. ASSUME NEW r \in Rules3pwateroil, r.by \subseteq r.from
      PROVE  \E a \in r.by \ r.to : Asks(Rules3pwateroil, r.to, a)
      BY <1>3, PhasesOfPresences DEF Rules3pwateroil, Rule, Asks
<1> QED BY <1>1, <1>2, <1>3 DEF RuleReturns

LEMMA RulesReturn ==
    ASSUME NEW m \in Models, m # "2p1c", NEW r \in RulesOf(m)
    PROVE  RuleReturns(RulesOf(m), Reads(m), r)
<1>1. CASE m = "2pnc"
      BY <1>1, ReturnOf2pnc DEF RulesOf, Reads
<1>2. CASE m = "co2"
      BY <1>2, ReturnOfCO2 DEF RulesOf, Reads
<1>3. CASE m = "richards"
      BY <1>3, ReturnOfRichards DEF RulesOf, Reads
<1>4. CASE m = "3p3c"
      BY <1>4, ReturnOf3p3c DEF RulesOf, Reads
<1>5. CASE m = "3pwateroil"
      BY <1>5, ReturnOf3pwateroil DEF RulesOf, Reads
<1>6. CASE m = "3pwateroil_gas"
  <2>1. r.by # {} /\ r.by \subseteq WGN
        BY <1>6, PhasesOfPresences DEF RulesOf, Rules3pwateroilGas, Rule
  <2>2. WGN \in DOMAIN Reads(m)
        BY <1>6 DEF Reads
  <2>3. ASSUME r.by \subseteq r.from
        PROVE  \E a \in r.by \ r.to : Asks(Rules3pwateroilGas, r.to, a)
        BY <1>6, <2>3, PhasesOfPresences DEF RulesOf, Rules3pwateroilGas, Rule, Asks
  <2> QED BY <1>6, <2>1, <2>2, <2>3 DEF RuleReturns, RulesOf
<1> QED BY <1>1, <1>2, <1>3, <1>4, <1>5, <1>6, PresenceAssumption DEF PresenceAssumption

KeepsPresence == presence' = presence

StaysNear == excess' = excess /\ \A a \in DOMAIN excess : excess[a] # "far"

(* A phase that is not there would appear by the usual threshold.          *)
WouldAppear == \E a \in Tested \ presence : excess[a] # "none"

(* The flag holds a phase back that would appear: nothing switches.        *)
HeldBack == isFlagged /\ WouldAppear

Hysteretic == PresenceTypeOK /\ model # "2p1c"

LEMMA RulesStay == ASSUME UNCHANGED <<model, formulation>> PROVE RulesOf(model)' = RulesOf(model)
BY DEF RulesOf, Rules2pnc, RulesCO2, Rules2p1c, Fresh

LEMMA TestedAsks == \A a : a \in Tested <=> Asks(RulesOf(model), presence, a)
BY DEF Tested, Asks

(* A flagged degree of freedom does not switch near the thresholds.        *)
LEMMA FlaggedStays ==
    ASSUME Hysteretic, StaysNear, isFlagged PROVE Passing = {}
<1>1. \A a \in Tested : a \in DOMAIN excess
      BY RulesReturn, TestedAsks DEF Hysteretic, PresenceTypeOK, Asks, RuleReturns, PhasesOf
<1>2. \A a \in Tested : ~Passes(a)
      BY <1>1 DEF Passes, StaysNear, Hysteretic
<1> QED BY <1>2 DEF Passing

LEMMA PassingIsTested == \A a \in Passing : a \in Tested /\ Passes(a)
BY DEF Passing

(* Near the thresholds an update either leaves the presence alone, or a    *)
(* phase passes and the flag is set.                                       *)
LEMMA SwitchSetsFlag ==
    ASSUME Hysteretic, StaysNear, UpdateDof, presence' # presence
    PROVE  /\ ~isFlagged /\ isFlagged'
           /\ \E r \in RulesOf(model) : r.from = presence /\ r.by = Passing /\ presence' = r.to
<1>1. PICK r \in RulesOf(model) : r.from = presence /\ r.by = Passing /\ presence' = r.to
      BY DEF UpdateDof
<1>2. Passing # {}
      BY <1>1, RulesReturn DEF Hysteretic, PresenceTypeOK, RuleReturns
<1>3. PICK a \in Tested : Passes(a)
      BY <1>2, PassingIsTested
<1>4. excess[a] # "none"
      BY <1>3 DEF Passes
<1>5. isFlagged' = WouldSwitch /\ WouldSwitch
      BY <1>3, <1>4 DEF UpdateDof, WouldSwitch
<1> QED BY <1>1, <1>2, <1>5, FlaggedStays

(* What is held back stays so.                                             *)
LEMMA HeldBackStays ==
    ASSUME Hysteretic, StaysNear, PresenceNext, HeldBack
    PROVE  HeldBack' /\ presence' = presence
<1>1. presence' = presence
      BY SwitchSetsFlag DEF PresenceNext, NewIterate, HeldBack
<1>2. Tested' = Tested
      BY <1>1, RulesStay DEF PresenceNext, NewIterate, UpdateDof, Tested
<1>3. WouldAppear'
      BY <1>1, <1>2 DEF HeldBack, WouldAppear, StaysNear
<1>4. isFlagged'
      BY DEF HeldBack, WouldAppear, PresenceNext, NewIterate, UpdateDof, WouldSwitch
<1> QED BY <1>1, <1>3, <1>4 DEF HeldBack

(* Where no phase would appear, one that vanishes is held back.            *)
LEMMA NoneAppears ==
    ASSUME Hysteretic, StaysNear, PresenceNext, ~WouldAppear
    PROVE  (~WouldAppear' /\ presence' = presence) \/ HeldBack'
<1>1. CASE presence' = presence
  <2>1. Tested' = Tested
        BY <1>1, RulesStay DEF PresenceNext, NewIterate, UpdateDof, Tested
  <2> QED BY <1>1, <2>1 DEF WouldAppear, StaysNear
<1>2. CASE presence' # presence
  <2>1. UpdateDof /\ isFlagged'
        BY <1>2, SwitchSetsFlag DEF PresenceNext, NewIterate
  <2>2. PICK r \in RulesOf(model) : r.from = presence /\ r.by = Passing /\ presence' = r.to
        BY <1>2, <2>1, SwitchSetsFlag
  <2>3. r.by \subseteq r.from
        BY <2>2, PassingIsTested DEF WouldAppear, Passes
  <2>4. PICK a \in r.by \ r.to : Asks(RulesOf(model), r.to, a)
        BY <2>3, RulesReturn DEF Hysteretic, PresenceTypeOK, RuleReturns
  <2>5. a \in Tested' \ presence'
    <3>1. RulesOf(model)' = RulesOf(model)
          BY <2>1, RulesStay DEF UpdateDof
    <3> QED BY <2>2, <2>4, <3>1 DEF Tested, Asks
  <2>6. excess'[a] # "none"
        BY <2>2, <2>4, PassingIsTested DEF StaysNear, Passes
  <2> QED BY <2>1, <2>5, <2>6 DEF HeldBack, WouldAppear
<1> QED BY <1>1, <1>2

(* Otherwise the flag is down, and goes up with the next update.           *)
LEMMA SomeAppears ==
    ASSUME Hysteretic, StaysNear, PresenceNext, WouldAppear, ~isFlagged
    PROVE  \/ WouldAppear' /\ ~isFlagged' /\ presence' = presence
           \/ ~WouldAppear' \/ HeldBack'
<1>1. CASE NewIterate
  <2>1. Tested' = Tested
        BY <1>1, RulesStay DEF NewIterate, Tested
  <2> QED BY <1>1, <2>1 DEF NewIterate, WouldAppear, StaysNear
<1>2. CASE UpdateDof
  <2>1. isFlagged'
        BY <1>2 DEF UpdateDof, WouldSwitch, WouldAppear
  <2> QED BY <2>1 DEF HeldBack
<1> QED BY <1>1, <1>2 DEF PresenceNext

(* A degree of freedom whose phases stay near their thresholds switches    *)
(* twice at most: after the first switch the flag is set, after the second *)
(* it is set and a phase that has vanished would appear again.             *)
THEOREM SwitchesSettle == PresenceSpec => SettlesDown
<1> DEFINE same == [KeepsPresence]_presenceVars
<1>1. PresenceSpec => []PresenceTypeOK
  <2>1. PresenceInv => PresenceTypeOK
        BY DEF PresenceInv
  <2> QED BY <2>1, PresenceInitInv, PresenceNextInv, PTL DEF PresenceSpec
<1>2. model # "2p1c" /\ [PresenceNext]_presenceVars => (model # "2p1c")'
      BY DEF PresenceNext, NewIterate, UpdateDof, presenceVars
<1>3. UNCHANGED presenceVars => same /\ UNCHANGED <<HeldBack, WouldAppear>>
  <2> SUFFICES ASSUME UNCHANGED presenceVars PROVE same /\ UNCHANGED <<HeldBack, WouldAppear>>
      OBVIOUS
  <2>1. Tested' = Tested
        BY RulesStay DEF presenceVars, Tested
  <2> QED BY <2>1 DEF presenceVars, HeldBack, WouldAppear
<1>4. /\ PresenceTypeOK /\ model # "2p1c"
      /\ [PresenceNext]_presenceVars /\ [StaysNear]_presenceVars
      => /\ HeldBack => HeldBack' /\ same
         /\ ~WouldAppear => (~WouldAppear' /\ same) \/ HeldBack'
         /\ WouldAppear /\ ~HeldBack =>
               (WouldAppear' /\ ~HeldBack' /\ same) \/ ~WouldAppear' \/ HeldBack'
  <2> SUFFICES ASSUME PresenceTypeOK, model # "2p1c",
                      [PresenceNext]_presenceVars, [StaysNear]_presenceVars
               PROVE  /\ HeldBack => HeldBack' /\ same
                      /\ ~WouldAppear => (~WouldAppear' /\ same) \/ HeldBack'
                      /\ WouldAppear /\ ~HeldBack =>
                            \/ WouldAppear' /\ ~HeldBack' /\ same
                            \/ ~WouldAppear' \/ HeldBack'
      OBVIOUS
  <2>1. CASE UNCHANGED presenceVars
        BY <1>3, <2>1
  <2>2. CASE PresenceNext /\ StaysNear
        BY <2>2, HeldBackStays, NoneAppears, SomeAppears DEF Hysteretic, HeldBack, KeepsPresence
  <2> QED BY <2>1, <2>2
<1>5. SettlesDown <=> (model # "2p1c" =>
             (<>[][StaysNear]_presenceVars => <>[][KeepsPresence]_presenceVars))
  <2>1. /\ [StaysNear]_presenceVars <=>
              [excess' = excess /\ \A a \in DOMAIN excess : excess[a] # "far"]_presenceVars
        /\ [KeepsPresence]_presenceVars <=> [presence' = presence]_presenceVars
        BY DEF StaysNear, KeepsPresence
  <2> QED BY <2>1, PTL DEF SettlesDown
<1> QED BY <1>1, <1>2, <1>4, <1>5, PTL DEF PresenceSpec
-----------------------------------------------------------------------------
(* Each engine keeps its own invariant, and what it does not own stands    *)
(* still.                                                                  *)
AssemblyInv ==
    /\ BoxTypeOK /\ CellTypeOK /\ SwitchTypeOK /\ PresenceInv
    /\ IF discMethod = "box" THEN BoxInv ELSE CellInv

LEMMA StartTypes == DistTypeOK /\ BoxStart /\ CellStart => BoxTypeOK /\ CellTypeOK
<1> SUFFICES ASSUME DistTypeOK, BoxStart, CellStart PROVE BoxTypeOK /\ CellTypeOK
    OBVIOUS
<1>1. /\ elementColor \in [Elements -> Color]
      /\ \A p \in Processes : vertexColor[p] \in [VerticesOn[p] -> Color]
      BY DEF BoxStart, AllElements, AllVertices, Color
<1>2. \A e \in Elements : /\ entries[e] \in [VerticesOf[e] -> Nat]
                         /\ linearized[e] \in [VerticesOf[e] -> 0..MaxIterations]
      BY ReassemblyAssumption DEF BoxStart
<1>3. cellColor \in [Dofs -> {"red", "green"}] /\ columnFrom \in [Dofs -> 0..MaxIterations]
      BY ReassemblyAssumption DEF CellStart
<1> QED BY <1>1, <1>2, <1>3 DEF BoxTypeOK, CellTypeOK

LEMMA AssemblyInitInv == Init => AssemblyInv
<1> SUFFICES ASSUME Init PROVE AssemblyInv
    OBVIOUS
<1>1. /\ DistInit /\ discMethod \in {"box", "cctpfa"} /\ BoxStart /\ CellStart
      /\ SwitchInit /\ PresenceInit
      BY DEF Init
<1>2. discMethod = "box" => BoxInv
      BY <1>1, BoxInitInv DEF BoxInit
<1>3. discMethod = "cctpfa" => CellInv
      BY <1>1, CellInitInv DEF CellInit
<1>4. DistTypeOK
      BY <1>1, <1>2, <1>3 DEF BoxInv, BoxTypeOK, CellInv, CellTypeOK
<1>5. BoxTypeOK /\ CellTypeOK
      BY <1>1, <1>4, StartTypes
<1>6. SwitchTypeOK /\ PresenceInv
      BY <1>1, SwitchInitTypes, PresenceInitInv, InstanceAssumption
<1> QED BY <1>1, <1>2, <1>3, <1>5, <1>6 DEF AssemblyInv

LEMMA AssemblyNextInv ==
    AssemblyInv /\ [Next]_<<subject, boxVars, cellOnly, switchVars, presenceVars>> => AssemblyInv'
<1> SUFFICES ASSUME AssemblyInv, [Next]_<<subject, boxVars, cellOnly, switchVars, presenceVars>>
             PROVE  AssemblyInv'
    OBVIOUS
<1>1. /\ BoxTypeOK /\ CellTypeOK /\ SwitchTypeOK /\ PresenceInv
      /\ IF discMethod = "box" THEN BoxInv ELSE CellInv
      BY DEF AssemblyInv
<1>2. \/ discMethod = "box" /\ [BoxNext]_boxVars /\ UNCHANGED cellOnly
      \/ discMethod = "cctpfa" /\ [CellNext]_cellVars /\ UNCHANGED boxOnly
  <2>1. discMethod \in {"box", "cctpfa"}
        BY <1>1 DEF BoxTypeOK, DistTypeOK
  <2>2. UNCHANGED <<boxVars, cellOnly>> => UNCHANGED <<boxOnly, cellVars>>
        BY DEF boxVars, boxOnly, cellVars, cellOnly
  <2> QED BY <2>1, <2>2 DEF Next
<1>3. [SwitchNext]_switchVars /\ [PresenceNext]_presenceVars
      BY DEF Next
<1>4. SwitchTypeOK' /\ PresenceInv'
      BY <1>1, <1>3, SwitchTypesKept, PresenceNextInv, InstanceAssumption
<1>5. CASE discMethod = "box" /\ [BoxNext]_boxVars /\ UNCHANGED cellOnly
  <2>1. BoxInv'
        BY <1>1, <1>5, BoxNextInv
  <2>2. CellTypeOK'
        BY <1>1, <1>5, <2>1 DEF cellOnly, CellTypeOK, BoxInv, BoxTypeOK
  <2> QED BY <1>4, <2>1, <2>2 DEF AssemblyInv, BoxInv
<1>6. CASE discMethod = "cctpfa" /\ [CellNext]_cellVars /\ UNCHANGED boxOnly
  <2>1. CellInv'
        BY <1>1, <1>6, CellNextInv
  <2>2. BoxTypeOK'
        BY <1>1, <1>6, <2>1 DEF boxOnly, BoxTypeOK, CellInv, CellTypeOK
  <2> QED BY <1>4, <2>1, <2>2 DEF AssemblyInv, CellInv
<1> QED BY <1>2, <1>5, <1>6

(* Colors, entries, distances, flags, caches and variables stay in their   *)
(* ranges in all four state machines, for every grid, every scheme and     *)
(* every set of models.                                                    *)
THEOREM TypesStayCorrect == Spec => []TypesCorrect
<1>1. AssemblyInv => TypesCorrect
      BY DEF AssemblyInv, TypesCorrect, PresenceInv
<1> QED BY <1>1, AssemblyInitInv, AssemblyNextInv, PTL DEF Spec
=============================================================================
