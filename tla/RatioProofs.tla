---------------------------- MODULE RatioProofs ----------------------------
(***************************************************************************)
(* Proof that grids of one and of two directions keep the ratio of 2:1     *)
(* between neighbors, which checkNeighborsRefine_ is there for: for every  *)
(* macro grid, all levels and whatever the indicators want.  In three      *)
(* directions it does not hold.                                            *)
(*                                                                         *)
(* The argument: the recursion leaves out neighbors when its counter, that *)
(* goes up with every coarser face and not only with every level, reaches  *)
(* the highest level.  An element has coarser neighbors in each direction  *)
(* on one side only.  So the first element, which is below the highest     *)
(* level, has two of them at most, the second one of which counts one too  *)
(* many, and there is a level to spare.  Every element the recursion comes *)
(* to has only one: with another one, the element it was reached from      *)
(* would lie beside leaves that differ by two levels.  In three directions *)
(* the first element has three coarser faces and the third one counts two  *)
(* too many.                                                               *)
(*                                                                         *)
(* The invariant, RatioInv, needs the grid to have no holes (Complete), so *)
(* that there are leaves on both sides of a face, and the marks to follow  *)
(* the neighbors (MarksFollow) until the grid is adapted.                  *)
(***************************************************************************)
EXTENDS TransferProofs

(* The direction of a face, and the way it faces. *)
Dir(face) == (face + 1) \div 2
Way(face) == IF face % 2 = 0 THEN 1 ELSE -1

(* Opposite faces have one direction and face opposite ways. *)
LEMMA FaceDims ==
    ASSUME NEW face \in Faces
    PROVE  /\ Dir(face) \in Dims /\ Way(face) \in {-1, 1}
           /\ Opposite(face) \in Faces
           /\ Dir(Opposite(face)) = Dir(face) /\ Way(Opposite(face)) = -Way(face)
           /\ Way(Opposite(face)) # Way(face)
           /\ Opposite(Opposite(face)) = face
<1> DEFINE n == Len(MacroCells)
<1>1. n \in Nat /\ Dims = 1..n
      BY DimsAreFinite, AdaptiveGridAssumption
<1>2. Faces = 1..2 * n
      BY DEF Faces
<1> HIDE DEF n
<1>3. face \in Int /\ 1 <= face /\ face <= 2 * n
      BY <1>1, <1>2
<1>4. CASE face % 2 = 0
  <2>1. Opposite(face) = face - 1 /\ (face - 1) % 2 = 1 /\ face - 1 >= 1
        BY <1>3, <1>4 DEF Opposite
  <2>2. Dir(face) \in 1..n /\ Dir(face - 1) = Dir(face)
        BY <1>1, <1>3, <1>4 DEF Dir
  <2>3. Opposite(face - 1) = face /\ Way(face) = 1 /\ Way(face - 1) = -1
        BY <1>3, <1>4, <2>1 DEF Opposite, Way
  <2>4. face - 1 \in 1..2 * n
        BY <1>1, <1>3, <2>1
  <2> QED BY <1>1, <1>2, <2>1, <2>2, <2>3, <2>4
<1>5. CASE face % 2 # 0
  <2>0. face % 2 = 1
        BY <1>3, <1>5
  <2>1. Opposite(face) = face + 1 /\ (face + 1) % 2 = 0 /\ face + 1 <= 2 * n
        BY <1>1, <1>3, <2>0 DEF Opposite
  <2>2. Dir(face) \in 1..n /\ Dir(face + 1) = Dir(face)
        BY <1>1, <1>3, <2>0 DEF Dir
  <2>3. Opposite(face + 1) = face /\ Way(face) = -1 /\ Way(face + 1) = 1
        BY <1>3, <2>0, <2>1 DEF Opposite, Way
  <2>4. face + 1 \in 1..2 * n
        BY <1>1, <1>3, <2>1
  <2> QED BY <1>1, <1>2, <2>1, <2>2, <2>3, <2>4
<1> QED BY <1>4, <1>5

(* Two faces of one direction are the same or opposite. *)
LEMMA SameDirection ==
    ASSUME NEW f \in Faces, NEW g \in Faces, Dir(f) = Dir(g)
    PROVE  f = g \/ g = Opposite(f)
<1>1. f \in Int /\ g \in Int
      BY DEF Faces
<1>2. (f + 1) \div 2 = (g + 1) \div 2
      BY DEF Dir
<1> QED BY <1>1, <1>2 DEF Opposite

(* The element beside another one, coordinate by coordinate. *)
LEMMA BesideIs ==
    ASSUME NEW e \in Cells, NEW face \in Faces
    PROVE  /\ Level(Beside(e, face)) = Level(e)
           /\ Beside(e, face) = <<Level(e), Beside(e, face)[2]>>
           /\ Beside(e, face)[2] \in [Dims -> Int]
           /\ \A d \in Dims : Beside(e, face)[2][d] =
                                  IF d = Dir(face) THEN e[2][d] + Way(face) ELSE e[2][d]
<1> DEFINE x == e[2]
           D == Dir(face)
           y == [x EXCEPT ![D] = @ + Way(face)]
<1>1. x \in [Dims -> Nat] /\ D \in Dims /\ Way(face) \in {-1, 1}
      BY FaceDims DEF Cells
<1>2. Beside(e, face) = <<Level(e), y>>
      BY DEF Beside, Dir, Way
<1> HIDE DEF x, D
<1>3. y \in [Dims -> Int] /\ \A d \in Dims : y[d] = IF d = D THEN x[d] + Way(face) ELSE x[d]
  <2>1. \A d \in Dims : x[d] \in Int /\ x[d] + Way(face) \in Int
        BY <1>1
  <2> QED BY <1>1, <2>1
<1> HIDE DEF y
<1> QED BY <1>2, <1>3 DEF Level, D, x

(* From beside an element the opposite face leads back. *)
LEMMA BesideBack ==
    ASSUME NEW e \in Cells, NEW face \in Faces, Beside(e, face) \in Cells
    PROVE  Beside(Beside(e, face), Opposite(face)) = e
<1> DEFINE b == Beside(e, face)
           c == Beside(b, Opposite(face))
<1>1. /\ Level(b) = Level(e)
      /\ \A d \in Dims : b[2][d] = IF d = Dir(face) THEN e[2][d] + Way(face) ELSE e[2][d]
      BY BesideIs
<1>2. Opposite(face) \in Faces /\ Dir(Opposite(face)) = Dir(face) /\ Way(Opposite(face)) = -Way(face)
      /\ Way(face) \in {-1, 1}
      BY FaceDims
<1>3. /\ c = <<Level(b), c[2]>> /\ c[2] \in [Dims -> Int]
      /\ \A d \in Dims : c[2][d] = IF d = Dir(face) THEN b[2][d] - Way(face) ELSE b[2][d]
  <2>1. /\ c = <<Level(b), c[2]>> /\ c[2] \in [Dims -> Int]
        /\ \A d \in Dims : c[2][d] = IF d = Dir(Opposite(face)) THEN b[2][d] + Way(Opposite(face)) ELSE b[2][d]
        BY <1>2, BesideIs
  <2>2. b[2] \in [Dims -> Nat]
        BY DEF Cells
  <2> HIDE DEF b, c
  <2>3. \A i \in Int : i + (-Way(face)) = i - Way(face)
        BY <1>2
  <2>4. \A d \in Dims : b[2][d] + Way(Opposite(face)) = b[2][d] - Way(face)
        BY <1>2, <2>2, <2>3
  <2> QED BY <1>2, <2>1, <2>4
<1>4. e[2] \in [Dims -> Nat] /\ e = <<Level(e), e[2]>>
      BY DEF Cells, Level
<1> HIDE DEF b, c
<1>5. \A d \in Dims : c[2][d] = e[2][d]
  <2> SUFFICES ASSUME NEW d \in Dims PROVE c[2][d] = e[2][d]
      OBVIOUS
  <2>1. e[2][d] \in Nat
        BY <1>4
  <2> QED BY <1>1, <1>2, <1>3, <2>1
<1>6. c[2] = e[2]
      BY <1>3, <1>4, <1>5
<1> QED BY <1>1, <1>3, <1>4, <1>6 DEF b, c

(* Outside the positions there are nothing is covered. *)
LEMMA BesideInside ==
    ASSUME NEW e \in Cells, NEW face \in Faces, NEW n \in Cells, Covers(n, Beside(e, face))
    PROVE  Beside(e, face) \in Cells
<1> DEFINE b == Beside(e, face)
           p == PowerOfTwo[Level(b) - Level(n)]
<1>1. /\ Level(b) = Level(e) /\ b = <<Level(e), b[2]>> /\ b[2] \in [Dims -> Int]
      BY BesideIs
<1>2. /\ Level(n) <= Level(b) /\ n = Ancestor(b, Level(n))
      /\ Level(n) \in 0..LevelMax /\ Level(e) \in 0..LevelMax /\ n[2] \in [Dims -> Nat]
      /\ LevelMax \in Nat
      BY CoversItself, AdaptiveGridAssumption DEF Covers, Cells
<1>3. Level(b) - Level(n) \in 0..LevelMax
      BY <1>1, <1>2
<1>4. p \in Nat \ {0}
      BY <1>3, PowersDouble
<1>5. \A d \in Dims : n[2][d] = b[2][d] \div p
      BY <1>2 DEF Ancestor
<1> HIDE DEF b, p
<1>6. ASSUME NEW d \in Dims PROVE b[2][d] \in Nat
  <2>1. b[2][d] \in Int /\ b[2][d] \div p \in Nat
        BY <1>1, <1>2, <1>5
  <2>2. \A i \in Int : \A q \in Nat \ {0} : i \div q >= 0 => i >= 0
        OBVIOUS
  <2> QED BY <1>4, <2>1, <2>2
<1>7. b[2] \in [Dims -> Nat]
      BY <1>1, <1>6
<1> QED BY <1>1, <1>2, <1>7 DEF Cells, b

(* A father halves the coordinates. *)
LEMMA FatherHalves ==
    ASSUME NEW e \in Cells, HasFather(e)
    PROVE  /\ Father(e) = <<Level(e) - 1, [d \in Dims |-> e[2][d] \div 2]>>
           /\ \A d \in Dims : e[2][d] \in Nat /\ Father(e)[2][d] = e[2][d] \div 2
<1>1. Level(e) \in 1..LevelMax /\ e[2] \in [Dims -> Nat] /\ LevelMax \in Nat
      BY AdaptiveGridAssumption DEF Cells, HasFather, Level
<1>2. PowerOfTwo[1] = 2
      BY <1>1, PowersDouble
<1>3. Level(e) - (Level(e) - 1) = 1
      BY <1>1
<1>4. Father(e) = <<Level(e) - 1, [d \in Dims |-> e[2][d] \div 2]>>
      BY <1>2, <1>3 DEF Father, Ancestor
<1> QED BY <1>1, <1>4

(* Elements with the same coordinates are the same. *)
LEMMA SameElement ==
    ASSUME NEW a \in Cells, NEW b \in Cells, Level(a) = Level(b), \A d \in Dims : a[2][d] = b[2][d]
    PROVE  a = b
<1>1. /\ a = <<Level(a), a[2]>> /\ b = <<Level(b), b[2]>>
      /\ a[2] \in [Dims -> Nat] /\ b[2] \in [Dims -> Nat]
      BY DEF Cells, Level
<1>2. a[2] = b[2]
      BY <1>1
<1> QED BY <1>1, <1>2

(* The father of what is beside an element is its own father, or beside    *)
(* that.                                                                   *)
LEMMA FatherBeside ==
    ASSUME NEW e \in Cells, HasFather(e), NEW face \in Faces, Beside(e, face) \in Cells
    PROVE  /\ HasFather(Beside(e, face)) /\ Father(Beside(e, face)) \in Cells
           /\ Father(Beside(e, face)) = Father(e) \/ Father(Beside(e, face)) = Beside(Father(e), face)
<1> DEFINE b == Beside(e, face)
           F == Father(e)
           D == Dir(face)
<1>1. /\ Level(b) = Level(e)
      /\ \A d \in Dims : b[2][d] = IF d = D THEN e[2][d] + Way(face) ELSE e[2][d]
      BY BesideIs
<1>2. HasFather(b)
      BY <1>1 DEF HasFather
<1>3. F \in Cells /\ Father(b) \in Cells /\ Level(F) = Level(e) - 1 /\ Level(Father(b)) = Level(e) - 1
      BY <1>1, <1>2, FatherCells
<1>4. /\ \A d \in Dims : e[2][d] \in Nat /\ F[2][d] = e[2][d] \div 2
      /\ \A d \in Dims : b[2][d] \in Nat /\ Father(b)[2][d] = b[2][d] \div 2
      BY <1>2, FatherHalves
<1>5. D \in Dims /\ Way(face) \in {-1, 1}
      BY FaceDims
<1>6. /\ Beside(F, face) = <<Level(F), Beside(F, face)[2]>>
      /\ Beside(F, face)[2] \in [Dims -> Int]
      /\ \A d \in Dims : Beside(F, face)[2][d] = IF d = D THEN F[2][d] + Way(face) ELSE F[2][d]
      BY <1>3, BesideIs
<1>7. Father(b) = <<Level(F), Father(b)[2]>> /\ Father(b)[2] \in [Dims -> Nat]
      BY <1>3 DEF Cells, Level
<1> HIDE DEF b, F, D
<1>8. \A d \in Dims : d # D => Father(b)[2][d] = F[2][d]
      BY <1>1, <1>4
<1>9. Father(b)[2][D] = F[2][D] \/ Father(b)[2][D] = F[2][D] + Way(face)
  <2>1. /\ e[2][D] \in Nat /\ b[2][D] = e[2][D] + Way(face) /\ F[2][D] = e[2][D] \div 2
        /\ Father(b)[2][D] = b[2][D] \div 2
        BY <1>1, <1>4, <1>5
  <2>2. \A i \in Nat : /\ (i + 1) \div 2 = i \div 2 \/ (i + 1) \div 2 = (i \div 2) + 1
                       /\ (i + (-1)) \div 2 = i \div 2 \/ (i + (-1)) \div 2 = (i \div 2) + (-1)
        OBVIOUS
  <2> QED BY <1>5, <2>1, <2>2
<1>10. CASE Father(b)[2][D] = F[2][D]
  <2>1. \A d \in Dims : Father(b)[2][d] = F[2][d]
        BY <1>8, <1>10
  <2> QED BY <1>2, <1>3, <2>1, SameElement DEF b, F
<1>11. CASE Father(b)[2][D] = F[2][D] + Way(face)
  <2>1. \A d \in Dims : Father(b)[2][d] = Beside(F, face)[2][d]
        BY <1>6, <1>8, <1>11
  <2>2. Father(b)[2] = Beside(F, face)[2]
        BY <1>6, <1>7, <2>1
  <2>3. Father(b) = Beside(F, face)
        BY <1>6, <1>7, <2>2
  <2> QED BY <1>2, <1>3, <2>3 DEF b, F
<1> QED BY <1>9, <1>10, <1>11

(* What lies on one of two opposite sides has the father of the element. *)
LEMMA OneSideInside ==
    ASSUME NEW e \in Cells, HasFather(e), NEW face \in Faces,
           Beside(e, face) \in Cells, Beside(e, Opposite(face)) \in Cells
    PROVE  Father(Beside(e, face)) = Father(e) \/ Father(Beside(e, Opposite(face))) = Father(e)
<1> DEFINE b == Beside(e, face)
           c == Beside(e, Opposite(face))
           F == Father(e)
           D == Dir(face)
<1>0. /\ D \in Dims /\ Way(face) \in {-1, 1} /\ Opposite(face) \in Faces
      /\ Dir(Opposite(face)) = D
      /\ Way(Opposite(face)) \in {-1, 1} /\ Way(Opposite(face)) # Way(face)
      BY FaceDims
<1>1. /\ Level(b) = Level(e) /\ Level(c) = Level(e)
      /\ \A d \in Dims : b[2][d] = IF d = D THEN e[2][d] + Way(face) ELSE e[2][d]
      /\ \A d \in Dims : c[2][d] = IF d = D THEN e[2][d] + Way(Opposite(face)) ELSE e[2][d]
      BY <1>0, BesideIs
<1>2. HasFather(b) /\ HasFather(c)
      BY <1>1 DEF HasFather
<1>3. /\ F \in Cells /\ Father(b) \in Cells /\ Father(c) \in Cells
      /\ Level(F) = Level(Father(b)) /\ Level(F) = Level(Father(c))
      BY <1>1, <1>2, FatherCells
<1>4. /\ \A d \in Dims : e[2][d] \in Nat /\ F[2][d] = e[2][d] \div 2
      /\ \A d \in Dims : b[2][d] \in Nat /\ Father(b)[2][d] = b[2][d] \div 2
      /\ \A d \in Dims : c[2][d] \in Nat /\ Father(c)[2][d] = c[2][d] \div 2
      BY <1>2, FatherHalves
<1> HIDE DEF b, c, F, D
<1>5. \A d \in Dims : d # D => Father(b)[2][d] = F[2][d] /\ Father(c)[2][d] = F[2][d]
      BY <1>1, <1>4
<1>6. Father(b)[2][D] = F[2][D] \/ Father(c)[2][D] = F[2][D]
  <2>1. /\ e[2][D] \in Nat /\ b[2][D] = e[2][D] + Way(face) /\ c[2][D] = e[2][D] + Way(Opposite(face))
        /\ F[2][D] = e[2][D] \div 2
        /\ Father(b)[2][D] = b[2][D] \div 2 /\ Father(c)[2][D] = c[2][D] \div 2
        BY <1>0, <1>1, <1>4
  <2>2. \A i \in Nat : (i + 1) \div 2 = i \div 2 \/ (i + (-1)) \div 2 = i \div 2
        OBVIOUS
  <2>3. b[2][D] = e[2][D] + (-1) \/ c[2][D] = e[2][D] + (-1)
        BY <1>0, <2>1
  <2>4. b[2][D] = e[2][D] + 1 \/ c[2][D] = e[2][D] + 1
        BY <1>0, <2>1
  <2> QED BY <2>1, <2>2, <2>3, <2>4
<1>7. CASE Father(b)[2][D] = F[2][D]
  <2>1. \A d \in Dims : Father(b)[2][d] = F[2][d]
        BY <1>5, <1>7
  <2> QED BY <1>3, <2>1, SameElement DEF b, F
<1>8. CASE Father(c)[2][D] = F[2][D]
  <2>1. \A d \in Dims : Father(c)[2][d] = F[2][d]
        BY <1>5, <1>8
  <2> QED BY <1>3, <2>1, SameElement DEF c, F
<1> QED BY <1>6, <1>7, <1>8

(* Elements of one father that have the same coordinate in the direction   *)
(* of a face: what is beside them has one father, too.                     *)
LEMMA SameFatherBeside ==
    ASSUME NEW a \in Cells, NEW b \in Cells, HasFather(a), HasFather(b), Father(a) = Father(b),
           NEW face \in Faces, a[2][Dir(face)] = b[2][Dir(face)],
           Beside(a, face) \in Cells, Beside(b, face) \in Cells
    PROVE  Father(Beside(a, face)) = Father(Beside(b, face))
<1> DEFINE c == Beside(a, face)
           d == Beside(b, face)
<1>1. /\ Level(c) = Level(a) /\ Level(d) = Level(b)
      /\ \A i \in Dims : c[2][i] = IF i = Dir(face) THEN a[2][i] + Way(face) ELSE a[2][i]
      /\ \A i \in Dims : d[2][i] = IF i = Dir(face) THEN b[2][i] + Way(face) ELSE b[2][i]
      BY BesideIs
<1>2. HasFather(c) /\ HasFather(d) /\ Level(a) = Level(b)
  <2>1. Level(Father(a)) = Level(a) - 1 /\ Level(Father(b)) = Level(b) - 1
        BY FatherCells
  <2>2. Level(a) \in Nat /\ Level(b) \in Nat
        BY CoversItself
  <2> QED BY <1>1, <2>1, <2>2 DEF HasFather
<1>3. /\ Father(c) \in Cells /\ Father(d) \in Cells /\ Level(Father(c)) = Level(Father(d))
      BY <1>1, <1>2, FatherCells
<1>4. /\ \A i \in Dims : Father(a)[2][i] = a[2][i] \div 2 /\ Father(b)[2][i] = b[2][i] \div 2
      /\ \A i \in Dims : Father(c)[2][i] = c[2][i] \div 2 /\ Father(d)[2][i] = d[2][i] \div 2
      BY <1>2, FatherHalves
<1> HIDE DEF c, d
<1>5. \A i \in Dims : Father(c)[2][i] = Father(d)[2][i]
      BY <1>1, <1>4
<1> QED BY <1>3, <1>5, SameElement DEF c, d

(* At every face an element has a child that touches what is beside it.    *)
LEMMA ChildAtFace ==
    ASSUME NEW e \in Cells, Level(e) < LevelMax, NEW face \in Faces, Beside(e, face) \in Cells
    PROVE  \E s \in Children(e) : /\ Beside(s, face) \in Cells
                                  /\ HasFather(Beside(s, face))
                                  /\ Father(Beside(s, face)) = Beside(e, face)
<1> DEFINE D == Dir(face)
           o == [d \in Dims |-> IF d = D /\ Way(face) = 1 THEN 1 ELSE 0]
           y == [d \in Dims |-> 2 * e[2][d] + o[d]]
           s == <<Level(e) + 1, y>>
           b == Beside(e, face)
           c == Beside(s, face)
<1>0. /\ D \in Dims /\ Way(face) \in {-1, 1} /\ LevelMax \in Nat
      /\ Level(e) \in 0..LevelMax /\ e[2] \in [Dims -> Nat] /\ b[2] \in [Dims -> Nat]
      BY FaceDims, CoversItself, AdaptiveGridAssumption DEF Cells
<1>1. s \in Children(e)
  <2>1. o \in [Dims -> {0, 1}]
        OBVIOUS
  <2> HIDE DEF o
  <2> QED BY <2>1 DEF Children
<1>2. s \in Cells /\ Level(s) = Level(e) + 1
      BY <1>1, ChildCells
<1>3. \A d \in Dims : s[2][d] = 2 * e[2][d] + (IF d = D /\ Way(face) = 1 THEN 1 ELSE 0)
      OBVIOUS
<1>4. /\ Level(c) = Level(s) /\ c = <<Level(s), c[2]>> /\ c[2] \in [Dims -> Int]
      /\ \A d \in Dims : c[2][d] = IF d = D THEN s[2][d] + Way(face) ELSE s[2][d]
  <2> HIDE DEF s
  <2> QED BY <1>2, BesideIs
<1>5. /\ Level(b) = Level(e)
      /\ \A d \in Dims : b[2][d] = IF d = D THEN e[2][d] + Way(face) ELSE e[2][d]
      BY BesideIs
<1> HIDE DEF s, b, c, o, y, D
<1>6. ASSUME NEW d \in Dims PROVE c[2][d] \in Nat /\ c[2][d] \div 2 = b[2][d]
  <2>1. e[2][d] \in Nat /\ b[2][d] \in Nat
        BY <1>0
  <2>2. CASE d # D
        BY <1>3, <1>4, <1>5, <2>1, <2>2
  <2>3. CASE d = D /\ Way(face) = 1
        BY <1>3, <1>4, <1>5, <2>1, <2>3
  <2>4. CASE d = D /\ Way(face) = -1
    <3>1. c[2][d] = (2 * e[2][d] + 0) + (-1) /\ b[2][d] = e[2][d] + (-1)
          BY <1>3, <1>4, <1>5, <2>4
    <3>2. \A i \in Nat : i + (-1) \in Nat => (2 * i + 0) + (-1) \in Nat /\ ((2 * i + 0) + (-1)) \div 2 = i + (-1)
          OBVIOUS
    <3> QED BY <2>1, <3>1, <3>2
  <2> QED BY <1>0, <2>2, <2>3, <2>4
<1>7. c \in Cells
  <2>1. c[2] \in [Dims -> Nat] /\ Level(s) \in 0..LevelMax
        BY <1>0, <1>2, <1>4, <1>6
  <2> QED BY <1>4, <2>1 DEF Cells
<1>8. HasFather(c)
      BY <1>0, <1>2, <1>4 DEF HasFather
<1>9. Father(c) \in Cells /\ Level(Father(c)) = Level(b) /\ b \in Cells
      BY <1>0, <1>2, <1>4, <1>5, <1>7, <1>8, FatherCells DEF b
<1>10. \A d \in Dims : Father(c)[2][d] = b[2][d]
      BY <1>6, <1>7, <1>8, FatherHalves
<1>11. Father(c) = b
      BY <1>9, <1>10, SameElement
<1> QED BY <1>1, <1>7, <1>8, <1>11 DEF b, c

-----------------------------------------------------------------------------
(* The same for all ancestors. *)
LEMMA AncestorBeside ==
    ASSUME NEW e \in Cells, NEW face \in Faces, Beside(e, face) \in Cells, NEW k \in 0..Level(e)
    PROVE  \/ Ancestor(Beside(e, face), k) = Ancestor(e, k)
           \/ Ancestor(Beside(e, face), k) = Beside(Ancestor(e, k), face)
<1> DEFINE b == Beside(e, face)
           l == Level(e)
           Good(i) == Ancestor(b, i) = Ancestor(e, i) \/ Ancestor(b, i) = Beside(Ancestor(e, i), face)
           Wrong == {n \in 0..l : ~Good(l - n)}
<1>0. l \in Nat /\ Level(b) = l /\ b \in Cells
      BY BesideIs, CoversItself
<1> HIDE DEF b
<1>1. Wrong = {}
  <2> SUFFICES ASSUME Wrong # {} PROVE FALSE
      OBVIOUS
  <2>1. Wrong \in SUBSET Nat
        BY <1>0
  <2> HIDE DEF Wrong
  <2>2. PICK n \in Wrong : \A m \in Wrong : n <= m
        BY <2>1, Least
  <2>3. n \in 0..l /\ ~Good(l - n)
        BY <2>2 DEF Wrong
  <2>4. n # 0
    <3>1. Ancestor(b, Level(b)) = b /\ Ancestor(e, l) = e
          BY <1>0, AncestorCells
    <3>2. Good(l)
          BY <1>0, <3>1 DEF b
    <3>3. l - 0 = l
          BY <1>0
    <3> QED BY <2>3, <3>2, <3>3
  <2>5. n - 1 \in 0..l /\ n - 1 \notin Wrong
        BY <1>0, <2>1, <2>2, <2>3, <2>4
  <2> DEFINE i == l - n
             a == Ancestor(e, i + 1)
             c == Ancestor(b, i + 1)
  <2>6. i \in Nat /\ i < l /\ l - (n - 1) = i + 1 /\ i + 1 \in 0..l /\ i \in 0..l
        BY <1>0, <2>3, <2>4
  <2>7. c = a \/ c = Beside(a, face)
        BY <2>5, <2>6 DEF Wrong
  <2> HIDE DEF i
  <2>8. /\ a \in Cells /\ Level(a) = i + 1 /\ c \in Cells /\ Level(c) = i + 1
        /\ Ancestor(e, i) = Father(a) /\ Ancestor(b, i) = Father(c)
        BY <1>0, <2>6, AncestorCells, AncestorStep
  <2>9. HasFather(a)
        BY <2>6, <2>8 DEF HasFather
  <2> HIDE DEF a, c
  <2>10. CASE c = a
        BY <2>3, <2>8, <2>10 DEF i
  <2>11. CASE c = Beside(a, face)
    <3>1. Father(c) = Father(a) \/ Father(c) = Beside(Father(a), face)
          BY <2>8, <2>9, <2>11, FatherBeside
    <3> QED BY <2>3, <2>8, <3>1 DEF i
  <2> QED BY <2>7, <2>10, <2>11
<1>2. l - k \in 0..l /\ l - (l - k) = k
      BY <1>0
<1>3. Good(k)
      BY <1>1, <1>2
<1> QED BY <1>3 DEF b

(* An element n covers what is beside e: unless it covers e, too, they     *)
(* touch, and e lies beside n at the opposite face.                        *)
LEMMA Facing ==
    ASSUME NEW e \in Cells, NEW face \in Faces, NEW n \in Cells, Covers(n, Beside(e, face)),
           ~Covers(n, e)
    PROVE  Level(n) <= Level(e) /\ Covers(Beside(n, Opposite(face)), e)
<1> DEFINE b == Beside(e, face)
           k == Level(n)
           a == Ancestor(e, k)
<1>1. b \in Cells /\ Level(b) = Level(e) /\ Level(e) \in Nat /\ k \in 0..Level(e)
      /\ n = Ancestor(b, k)
  <2>1. b \in Cells /\ Level(b) = Level(e)
        BY BesideIs, BesideInside
  <2>2. k <= Level(b) /\ n = Ancestor(b, k) /\ k \in Nat /\ Level(e) \in Nat
        BY CoversItself DEF Covers
  <2> QED BY <2>1, <2>2
<1>2. a \in Cells /\ Level(a) = k /\ Covers(a, e)
  <2>1. a \in Cells /\ Level(a) = k
        BY <1>1, AncestorCells
  <2> HIDE DEF k
  <2> QED BY <1>1, <2>1 DEF Covers
<1>3. n = a \/ n = Beside(a, face)
      BY <1>1, AncestorBeside
<1> HIDE DEF a, b, k
<1>4. n = Beside(a, face)
      BY <1>2, <1>3
<1>5. Beside(n, Opposite(face)) = a
      BY <1>2, <1>4, BesideBack
<1> QED BY <1>1, <1>2, <1>5 DEF k

(* The leaves beside a leaf e that are coarser are those that cover what   *)
(* lies there.                                                             *)
LEMMA CoarserNeighbors ==
    ASSUME leaves \subseteq Cells, NEW e \in leaves, NEW n \in Neighbors(e), Level(n) < Level(e)
    PROVE  \E face \in Faces : /\ n \in leaves /\ Covers(n, Beside(e, face))
                               /\ Beside(e, face) \in Cells
                               /\ n \in CoarserAt(e, face) /\ face \in CoarserFaces(e)
<1>1. PICK face \in Faces : n \in Outside(e, face)
      BY DEF Neighbors
<1>2. n \in leaves /\ n \in Cells /\ e \in Cells /\ Level(n) \in Nat /\ Level(e) \in Nat
      BY <1>1, CoversItself DEF Outside
<1>3. Level(Beside(e, face)) = Level(e)
      BY <1>2, BesideIs
<1>4. ~Covers(Beside(e, face), n)
      BY <1>2, <1>3 DEF Covers
<1>5. Covers(n, Beside(e, face))
      BY <1>1, <1>4 DEF Outside
<1>6. Beside(e, face) \in Cells
      BY <1>2, <1>5, BesideInside
<1>7. n \in CoarserAt(e, face) /\ face \in CoarserFaces(e)
      BY <1>1 DEF CoarserAt, CoarserFaces
<1> QED BY <1>2, <1>5, <1>6, <1>7

(* A leaf that covers what lies at a face is a neighbor there. *)
LEMMA CoversNeighbor ==
    ASSUME NEW e, NEW face \in Faces, NEW n \in leaves, Covers(n, Beside(e, face))
    PROVE  n \in Neighbors(e) /\ (Level(n) < Level(e) => n \in CoarserAt(e, face) /\ face \in CoarserFaces(e))
<1>1. n \in Outside(e, face)
      BY DEF Outside
<1> QED BY <1>1 DEF Neighbors, CoarserAt, CoarserFaces

(* A leaf that is as coarse has the other one for a neighbor. *)
LEMMA NeighborsFace ==
    ASSUME IsGrid(leaves), NEW e \in leaves, NEW face \in Faces, NEW n \in leaves,
           Covers(n, Beside(e, face)), n # e
    PROVE  e \in Neighbors(n)
<1>1. e \in Cells /\ n \in Cells /\ ~Covers(n, e)
      BY DEF IsGrid
<1>2. Covers(Beside(n, Opposite(face)), e)
      BY <1>1, Facing
<1>3. Opposite(face) \in Faces /\ Opposite(Opposite(face)) = face
      BY FaceDims
<1>4. e \in Outside(n, Opposite(face))
      BY <1>2, <1>3 DEF Outside
<1> QED BY <1>3, <1>4 DEF Neighbors

(* At a coarser face there is one leaf, and its father is not that of e.   *)
LEMMA CoarserFace ==
    ASSUME IsGrid(leaves), NEW e \in leaves, NEW face \in CoarserFaces(e)
    PROVE  LET n == OutsideAt(e, face)
           IN  /\ face \in Faces /\ n \in leaves /\ Level(n) < Level(e) /\ n \in Neighbors(e)
               /\ Covers(n, Beside(e, face)) /\ Beside(e, face) \in Cells /\ HasFather(e)
               /\ HasFather(Beside(e, face)) /\ Covers(n, Father(Beside(e, face)))
               /\ Father(Beside(e, face)) # Father(e) /\ ~Covers(n, e)
               /\ \A m \in CoarserAt(e, face) : m = n
<1>0. leaves \subseteq Cells /\ \A a, b \in leaves : Covers(a, b) => a = b
      BY DEF IsGrid
<1>1. ASSUME NEW m \in CoarserAt(e, face)
      PROVE  /\ m \in leaves /\ Level(m) < Level(e) /\ m \in Neighbors(e)
             /\ Covers(m, Beside(e, face)) /\ Beside(e, face) \in Cells
  <2>1. face \in Faces /\ m \in leaves /\ Level(m) < Level(e) /\ m \in Outside(e, face)
        BY DEF CoarserAt, CoarserFaces, Outside
  <2>2. m \in Neighbors(e)
        BY <2>1 DEF Neighbors
  <2>3. e \in Cells /\ m \in Cells /\ Level(m) \in Nat /\ Level(e) \in Nat
        BY <1>0, <2>1, CoversItself
  <2>4. Level(Beside(e, face)) = Level(e)
        BY <2>1, <2>3, BesideIs
  <2>5. Covers(m, Beside(e, face))
        BY <2>1, <2>3, <2>4 DEF Outside, Covers
  <2>6. Beside(e, face) \in Cells
        BY <2>1, <2>3, <2>5, BesideInside
  <2> QED BY <2>1, <2>2, <2>5, <2>6
<1> DEFINE n == OutsideAt(e, face)
           b == Beside(e, face)
<1>2. CoarserAt(e, face) # {} /\ face \in Faces
      BY DEF CoarserFaces
<1>3. n \in CoarserAt(e, face)
      BY <1>2 DEF OutsideAt
<1>4. /\ n \in leaves /\ Level(n) < Level(e) /\ n \in Neighbors(e)
      /\ Covers(n, b) /\ b \in Cells /\ Level(b) = Level(e)
      /\ n \in Cells /\ e \in Cells /\ Level(n) \in Nat /\ Level(e) \in Nat
      BY <1>0, <1>1, <1>2, <1>3, CoversItself, BesideIs
<1>5. ASSUME NEW m \in CoarserAt(e, face) PROVE m = n
  <2>1. m \in leaves /\ Covers(m, b) /\ m \in Cells /\ Level(m) \in Nat
        BY <1>0, <1>1, CoversItself
  <2>2. Covers(m, n) \/ Covers(n, m)
        BY <1>4, <2>1, CoversBetween
  <2> QED BY <1>0, <1>4, <2>1, <2>2
<1>6. HasFather(e) /\ n # b /\ ~Covers(n, e)
  <2>1. HasFather(e) /\ n # b /\ n # e
        BY <1>4 DEF HasFather
  <2> QED BY <1>0, <1>4, <2>1
<1> HIDE DEF n, b
<1>7. HasFather(b) /\ Covers(n, Father(b))
      BY <1>4, <1>6, CoversFather
<1>8. Father(b) # Father(e)
  <2> SUFFICES ASSUME Father(b) = Father(e) PROVE FALSE
      OBVIOUS
  <2>1. Father(e) \in Cells /\ Covers(Father(e), e)
        BY <1>4, <1>6, FatherCovers
  <2>2. Covers(n, e)
        BY <1>4, <1>7, <2>1, CoversTransitive
  <2> QED BY <1>6, <2>2
<1> QED BY <1>2, <1>4, <1>5, <1>6, <1>7, <1>8 DEF n, b

(* An element has coarser neighbors in each direction on one side only.    *)
LEMMA OneSideCoarser ==
    ASSUME IsGrid(leaves), NEW e \in leaves, NEW f \in CoarserFaces(e), NEW g \in CoarserFaces(e),
           Dir(f) = Dir(g)
    PROVE  f = g
<1>1. /\ f \in Faces /\ g \in Faces /\ e \in Cells /\ HasFather(e)
      /\ Beside(e, f) \in Cells /\ Beside(e, g) \in Cells
      /\ Father(Beside(e, f)) # Father(e) /\ Father(Beside(e, g)) # Father(e)
      BY CoarserFace DEF IsGrid
<1> QED BY <1>1, SameDirection, OneSideInside
-----------------------------------------------------------------------------
(* No holes: an element of the hierarchy that is no leaf has all its       *)
(* children there.                                                         *)
Complete(L) == \A a \in Hierarchy(L) : a \in L \/ Children(a) \subseteq Hierarchy(L)

(* Whatever lies beside an element of the hierarchy, one of the leaves in  *)
(* the element touches it.                                                 *)
LEMMA LeafAtFace ==
    ASSUME IsGrid(leaves), Complete(leaves), NEW a \in Hierarchy(leaves), NEW face \in Faces,
           NEW w \in Cells, Covers(w, Beside(a, face))
    PROVE  \E h \in leaves : Covers(a, h) /\ Covers(w, Beside(h, face))
<1> DEFINE H == Hierarchy(leaves)
           C == {h \in H : Covers(a, h) /\ Covers(w, Beside(h, face))}
           S == {LevelMax - Level(h) : h \in C}
<1>0. H \subseteq Cells /\ leaves \subseteq Cells /\ LevelMax \in Nat
      BY HierarchyCovers, AdaptiveGridAssumption DEF IsGrid
<1>1. a \in C
      BY <1>0, CoversItself
<1>2. \A h \in C : LevelMax - Level(h) \in Nat
  <2> SUFFICES ASSUME NEW h \in C PROVE LevelMax - Level(h) \in Nat
      OBVIOUS
  <2>1. Level(h) \in 0..LevelMax
        BY <1>0, CoversItself
  <2> QED BY <1>0, <2>1
<1>3. S \in SUBSET Nat /\ S # {}
      BY <1>1, <1>2
<1>4. PICK s \in S : \A t \in S : s <= t
      BY <1>3, Least
<1>5. PICK h \in C : s = LevelMax - Level(h)
      OBVIOUS
<1>6. ASSUME h \notin leaves PROVE FALSE
  <2>1. h \in H /\ h \in Cells /\ Covers(a, h) /\ Covers(w, Beside(h, face)) /\ a \in Cells
        BY <1>0, <1>5
  <2>2. Children(h) \subseteq H
        BY <1>6, <2>1 DEF Complete
  <2>3. \A c \in Children(h) : c \in Cells /\ Level(c) = Level(h) + 1
        BY <1>0, <2>1, <2>2, ChildCells
  <2>4. Level(h) < LevelMax
    <3>1. PICK c \in Children(h) : TRUE
          BY SomeChild
    <3>2. Level(c) \in 0..LevelMax /\ Level(h) \in 0..LevelMax /\ Level(c) = Level(h) + 1
          BY <2>1, <2>3, CoversItself
    <3> QED BY <1>0, <3>2
  <2>5. Beside(h, face) \in Cells
        BY <2>1, BesideInside
  <2>6. PICK c \in Children(h) : /\ Beside(c, face) \in Cells /\ HasFather(Beside(c, face))
                                 /\ Father(Beside(c, face)) = Beside(h, face)
        BY <2>1, <2>4, <2>5, ChildAtFace
  <2>7. Covers(w, Beside(c, face))
        BY <2>1, <2>5, <2>6, FatherCovers, CoversTransitive
  <2>8. Covers(a, c)
    <3>1. c \in Cells /\ HasFather(c) /\ Father(c) = h
          BY <2>1, <2>4, FatherOfChild
    <3> QED BY <2>1, <3>1, FatherCovers, CoversTransitive
  <2>9. c \in C
        BY <2>2, <2>7, <2>8
  <2>10. LevelMax - Level(h) <= LevelMax - Level(c)
        BY <1>4, <1>5, <2>9
  <2>11. Level(h) \in 0..LevelMax /\ Level(c) = Level(h) + 1
        BY <2>1, <2>3, CoversItself
  <2> HIDE DEF C, S
  <2> QED BY <1>0, <2>10, <2>11
<1> QED BY <1>5, <1>6

(* In one or two directions: an element that the recursion has come to has *)
(* no more than one coarser face.  If it had another one, the element it   *)
(* was reached from would have been beside that, too, with leaves that are *)
(* two levels finer.                                                       *)
LEMMA ReachedHasOneFace ==
    ASSUME IsGrid(leaves), Complete(leaves), TwoToOne, Len(MacroCells) <= 2,
           NEW e \in leaves, NEW face \in CoarserFaces(e),
           NEW f \in CoarserFaces(OutsideAt(e, face)), NEW g \in CoarserFaces(OutsideAt(e, face))
    PROVE  f = g
<1> DEFINE n == OutsideAt(e, face)
           F == Father(e)
           opp == Opposite(face)
<1>0. leaves \subseteq Cells /\ \A a, b \in leaves : Covers(a, b) => a = b
      BY DEF IsGrid
<1>1. /\ face \in Faces /\ n \in leaves /\ Level(n) < Level(e) /\ n \in Neighbors(e)
      /\ Covers(n, Beside(e, face)) /\ Beside(e, face) \in Cells /\ HasFather(e)
      /\ HasFather(Beside(e, face)) /\ Covers(n, Father(Beside(e, face)))
      /\ Father(Beside(e, face)) # F /\ ~Covers(n, e)
      BY CoarserFace
<1>2. e \in Cells /\ n \in Cells /\ Level(n) \in Nat /\ Level(e) \in Nat
      BY <1>0, <1>1, CoversItself
<1>3. Level(n) = Level(e) - 1
      BY <1>1, <1>2 DEF TwoToOne
<1>4. F \in Cells /\ Level(F) = Level(e) - 1 /\ Covers(F, e) /\ F \notin leaves
      BY <1>0, <1>1, <1>2, FatherCovers, NeverAbove
<1>5. F \in Hierarchy(leaves)
      BY <1>0, <1>4, HierarchyCovers
<1>6. n = Father(Beside(e, face)) /\ Father(Beside(e, face)) = Beside(F, face)
  <2>1. Father(Beside(e, face)) \in Cells /\ Father(Beside(e, face)) = Beside(F, face)
        BY <1>1, <1>2, FatherBeside
  <2>2. Level(Father(Beside(e, face))) = Level(n)
        BY <1>1, <1>3, <1>2, FatherCells, BesideIs
  <2>3. Level(n) >= Level(Father(Beside(e, face)))
        BY <1>2, <2>2
  <2> QED BY <1>1, <1>2, <2>1, <2>3, SameLevelCovers
<1> HIDE DEF n, F, opp
<1>7. /\ opp \in Faces /\ Dir(opp) = Dir(face)
      /\ n = Beside(F, face) /\ F = Beside(n, opp)
      BY <1>1, <1>2, <1>4, <1>6, FaceDims, BesideBack DEF opp
<1>8. SUFFICES ASSUME f # g PROVE FALSE
      BY DEF n
<1>9. /\ f \in CoarserFaces(n) /\ g \in CoarserFaces(n)
      BY DEF n
<1>10. f \in Faces /\ g \in Faces /\ Dir(f) # Dir(g)
      BY <1>1, <1>8, <1>9, OneSideCoarser, CoarserFace
<1>11. Dir(f) = Dir(face) \/ Dir(g) = Dir(face)
  <2>1. /\ Dir(f) \in 1..Len(MacroCells) /\ Dir(g) \in 1..Len(MacroCells)
        /\ Dir(face) \in 1..Len(MacroCells) /\ Len(MacroCells) \in Nat
        BY <1>1, <1>10, FaceDims, DimsAreFinite, AdaptiveGridAssumption
  <2> QED BY <1>10, <2>1
\* p is the face of that direction, q is the other one.
<1>12. ASSUME NEW p \in CoarserFaces(n), NEW q \in CoarserFaces(n), Dir(p) = Dir(face), Dir(q) # Dir(face)
       PROVE  FALSE
  <2> DEFINE w == OutsideAt(n, q)
             G == Father(n)
  <2>1. p \in Faces /\ q \in Faces /\ HasFather(n) /\ Beside(n, p) \in Cells /\ Beside(n, q) \in Cells
        /\ Father(Beside(n, p)) # G
        /\ w \in leaves /\ Level(w) < Level(n) /\ HasFather(Beside(n, q))
        /\ Covers(w, Father(Beside(n, q)))
        BY <1>1, <1>12, CoarserFace
  <2> HIDE DEF w
  <2>2. p # opp
    <3> SUFFICES ASSUME p = opp PROVE FALSE
        OBVIOUS
    <3> DEFINE m == OutsideAt(n, p)
    <3>1. m \in leaves /\ Level(m) < Level(n) /\ Covers(m, F)
          BY <1>1, <1>7, <1>12, CoarserFace
    <3> HIDE DEF m
    <3>2. Covers(m, e) /\ m \in Cells /\ Level(m) \in Nat
          BY <1>0, <1>2, <1>4, <3>1, CoversTransitive, CoversItself
    <3> QED BY <1>0, <1>1, <1>2, <3>1, <3>2
  <2>3. Father(F) = G /\ HasFather(F)
    <3>1. p = face
          BY <1>1, <1>7, <1>12, <2>1, <2>2, SameDirection DEF opp
    <3>2. F = Beside(n, Opposite(p)) /\ F \in Cells
          BY <1>4, <1>7, <3>1 DEF opp
    <3>3. Father(F) = G
          BY <1>2, <2>1, <3>2, OneSideInside
    <3>4. HasFather(F)
          BY <1>2, <1>3, <1>4, <2>1 DEF HasFather
    <3> QED BY <3>3, <3>4
  <2>4. w \in Cells /\ Level(w) \in Nat
        BY <1>0, <2>1, CoversItself
  <2>5. F[2][Dir(q)] = n[2][Dir(q)]
    <3>1. Dir(q) \in Dims /\ Dir(q) # Dir(opp)
          BY <1>7, <1>12, <2>1, FaceDims
    <3> QED BY <1>2, <1>7, <3>1, BesideIs
  <2>6. Covers(w, Beside(F, q)) /\ Beside(F, q) \in Cells
    <3> DEFINE x == Beside(n, q)
               y == Beside(F, q)
    <3>1. \A d \in Dims : x[2][d] = IF d = Dir(q) THEN n[2][d] + Way(q) ELSE n[2][d]
          BY <1>2, <2>1, BesideIs
    <3>2. /\ \A d \in Dims : y[2][d] = IF d = Dir(q) THEN F[2][d] + Way(q) ELSE F[2][d]
          /\ y = <<Level(F), y[2]>> /\ y[2] \in [Dims -> Int] /\ Level(y) = Level(F)
          BY <1>4, <2>1, BesideIs
    <3>3. x[2] \in [Dims -> Nat] /\ F[2] \in [Dims -> Nat] /\ Level(F) \in 0..LevelMax
          BY <1>4, <2>1 DEF Cells, Level
    <3> HIDE DEF x, y
    <3>4. \A d \in Dims : y[2][d] \in Nat
          BY <2>5, <3>1, <3>2, <3>3
    <3>5. y[2] \in [Dims -> Nat]
          BY <3>2, <3>4
    <3>6. y \in Cells
          BY <3>2, <3>3, <3>5 DEF Cells
    <3>7. Father(y) = Father(x)
          BY <1>2, <1>4, <2>1, <2>3, <2>5, <3>6, SameFatherBeside DEF x, y
    <3>8. HasFather(y)
          BY <2>3, <3>2 DEF HasFather
    <3>9. Father(y) \in Cells /\ Covers(Father(y), y) /\ Covers(w, Father(y))
          BY <2>1, <3>6, <3>7, <3>8, FatherCovers DEF x
    <3>10. Covers(w, y)
          BY <2>4, <3>6, <3>9, CoversTransitive
    <3> QED BY <3>6, <3>10 DEF y
  <2>7. PICK h \in leaves : Covers(F, h) /\ Covers(w, Beside(h, q))
        BY <1>5, <2>1, <2>4, <2>6, LeafAtFace
  <2>8. h \in Cells /\ Level(h) \in Nat /\ Level(h) > Level(F)
    <3>1. h \in Cells /\ Level(h) \in Nat /\ Level(F) \in Nat /\ Level(F) <= Level(h)
          BY <1>0, <1>4, <2>7, CoversItself DEF Covers
    <3>2. h # F
          BY <1>4
    <3>3. Level(h) # Level(F)
          BY <1>4, <2>7, <3>1, <3>2, SameLevelCovers
    <3> QED BY <3>1, <3>3
  <2>9. w \in Neighbors(h)
        BY <2>1, <2>7, CoversNeighbor
  <2>10. Level(w) >= Level(h) - 1
        BY <2>9 DEF TwoToOne
  <2> QED BY <1>2, <1>3, <1>4, <2>1, <2>4, <2>8, <2>10
<1> QED BY <1>9, <1>10, <1>11, <1>12
-----------------------------------------------------------------------------
(* The coarser neighbors of an element are all in R. *)
Follows(e, R) == \A n \in Neighbors(e) : Level(n) < Level(e) => n \in R
(* The same for R itself. *)
Closed(e, R) == Follows(e, R) /\ \A y \in R : Follows(y, R)
(* All coarser neighbors lie at one face. *)
Single(e) == \A f, g \in CoarserFaces(e) : f = g

(* The recursion's counter: of the faces before one, at most one has a     *)
(* coarser neighbor.                                                       *)
LEMMA CountedFew ==
    ASSUME IsGrid(leaves), Len(MacroCells) <= 2, NEW e \in leaves, NEW level \in Nat,
           NEW face \in CoarserFaces(e)
    PROVE  /\ Counted(e, level, face) \in {level, level + 1}
           /\ Single(e) => Counted(e, level, face) = level
<1> DEFINE B == {g \in CoarserFaces(e) : g < face}
<1>1. Counted(e, level, face) = level + Cardinality(B)
      BY DEF Counted
<1>2. ASSUME NEW g \in B PROVE g \in CoarserFaces(e) /\ g # face /\ Dir(g) # Dir(face)
  <2>1. g \in Faces /\ face \in Faces
        BY DEF CoarserFaces
  <2>2. g \in Int /\ face \in Int /\ g # face
        BY <2>1 DEF Faces
  <2> QED BY <2>2, OneSideCoarser
<1>3. ASSUME NEW g \in B, NEW h \in B PROVE g = h
  <2>1. g \in Faces /\ h \in Faces /\ face \in Faces
        BY DEF CoarserFaces
  <2>2. /\ Dir(g) \in 1..Len(MacroCells) /\ Dir(h) \in 1..Len(MacroCells)
        /\ Dir(face) \in 1..Len(MacroCells) /\ Len(MacroCells) \in Nat
        BY <2>1, FaceDims, DimsAreFinite, AdaptiveGridAssumption
  <2>3. Dir(g) = Dir(h)
        BY <1>2, <2>2
  <2> QED BY <1>2, <2>3, OneSideCoarser
<1>4. B = {} \/ \E g : B = {g}
      BY <1>3
<1>5. Cardinality(B) \in {0, 1} /\ (B = {} => Cardinality(B) = 0)
      BY <1>4, FS_EmptySet, FS_Singleton
<1>6. Single(e) => B = {}
      BY <1>2 DEF Single
<1> HIDE DEF B
<1> QED BY <1>1, <1>5, <1>6

(* They are the leaves the recursion looks at, one for each coarser face. *)
LEMMA FollowsFaces ==
    ASSUME IsGrid(leaves), NEW e \in leaves, NEW R,
           \A face \in CoarserFaces(e) : OutsideAt(e, face) \in R
    PROVE  Follows(e, R)
<1> SUFFICES ASSUME NEW n \in Neighbors(e), Level(n) < Level(e) PROVE n \in R
    BY DEF Follows
<1>1. PICK face \in Faces : n \in CoarserAt(e, face) /\ face \in CoarserFaces(e)
      BY CoarserNeighbors DEF IsGrid
<1>2. n = OutsideAt(e, face)
      BY <1>1, CoarserFace
<1> QED BY <1>1, <1>2

(* What the recursion needs at a face: the call for the neighbor collects  *)
(* all there is to follow, or the neighbor is of level 0.                  *)
FaceFollows(e, level, face) ==
    LET n == OutsideAt(e, face)
    IN  IF Counted(e, level, face) < LevelMax
        THEN Closed(n, CheckNeighborsRefine[<<n, Counted(e, level, face) + 1>>])
        ELSE Level(n) = 0

(* If every call of the recursion collects what must follow, so does the   *)
(* caller.                                                                 *)
LEMMA CollectedFollow ==
    ASSUME IsGrid(leaves), NEW e \in leaves, NEW level \in 1..LevelMax,
           \A face \in CoarserFaces(e) : FaceFollows(e, level, face)
    PROVE  Closed(e, CheckNeighborsRefine[<<e, level>>])
<1> DEFINE f == CheckNeighborsRefine
           R == f[<<e, level>>]
<1>1. R = UNION {CollectedAt(f, e, level, face) : face \in CoarserFaces(e)}
      BY FollowersExist DEF Collected
<1>2. Follows(e, R)
  <2> HIDE DEF f, R
  <2>1. \A face \in CoarserFaces(e) : OutsideAt(e, face) \in R
        BY <1>1 DEF CollectedAt
  <2> QED BY <2>1, FollowsFaces
<1>3. ASSUME NEW y \in R PROVE Follows(y, R)
  <2> HIDE DEF R
  <2>1. PICK face \in CoarserFaces(e) : y \in CollectedAt(f, e, level, face)
        BY <1>1
  <2> DEFINE n == OutsideAt(e, face)
             k == Counted(e, level, face) + 1
             A == CollectedAt(f, e, level, face)
  <2>2. A \subseteq R
        BY <1>1
  <2>3. Follows(y, A)
    <3>1. CASE Counted(e, level, face) < LevelMax
      <4>1. A = {n} \cup f[<<n, k>>]
            BY <3>1 DEF CollectedAt
      <4>2. Closed(n, f[<<n, k>>])
            BY <3>1 DEF FaceFollows
      <4> HIDE DEF A, n, k
      <4> QED BY <2>1, <4>1, <4>2 DEF Closed, Follows, A
    <3>2. CASE ~(Counted(e, level, face) < LevelMax)
      <4>1. A = {n}
            BY <3>2 DEF CollectedAt
      <4>2. Level(n) = 0
            BY <3>2 DEF FaceFollows
      <4>3. \A m \in Neighbors(n) : Level(m) \in Nat
        <5>1. \A m \in Neighbors(n) : m \in leaves
              BY DEF Neighbors, Outside
        <5>2. leaves \subseteq Cells
              BY DEF IsGrid
        <5> QED BY <5>1, <5>2, CoversItself
      <4>4. y = n
            BY <2>1, <4>1
      <4> HIDE DEF A, n, k
      <4> QED BY <4>2, <4>3, <4>4 DEF Follows
    <3> QED BY <3>1, <3>2
  <2> QED BY <2>2, <2>3 DEF Follows
<1> QED BY <1>2, <1>3 DEF Closed

(* The recursion from an element with one coarser face collects all that   *)
(* must follow, if the counter leaves room for the levels that remain.     *)
FollowersFollow(level) ==
    \A e \in leaves : Single(e) /\ level <= LevelMax + 1 - Level(e) =>
        Closed(e, CheckNeighborsRefine[<<e, level>>])

(* By induction over the counter, from the highest level downwards. *)
LEMMA SingleFollow ==
    ASSUME IsGrid(leaves), Complete(leaves), TwoToOne, Len(MacroCells) <= 2
    PROVE  \A level \in 1..LevelMax : FollowersFollow(level)
<1>0. LevelMax \in Nat /\ leaves \subseteq Cells
      BY AdaptiveGridAssumption DEF IsGrid
<1> DEFINE Wrong == {d \in 0..LevelMax - 1 : ~FollowersFollow(LevelMax - d)}
<1>1. ASSUME Wrong # {} PROVE FALSE
  <2>0. Wrong \in SUBSET Nat
        BY <1>0
  <2> HIDE DEF Wrong
  <2>1. PICK d \in Wrong : \A c \in Wrong : d <= c
        BY <1>1, <2>0, Least
  <2> DEFINE level == LevelMax - d
  <2>2. d \in 0..LevelMax - 1 /\ level \in 1..LevelMax /\ ~FollowersFollow(level)
        BY <2>1, <1>0 DEF Wrong
  <2>3. ASSUME NEW l \in level + 1..LevelMax PROVE FollowersFollow(l)
    <3>1. LevelMax - l \in 0..LevelMax - 1 /\ LevelMax - l < d
          BY <2>2, <2>3, <1>0
    <3>2. LevelMax - l \notin Wrong /\ LevelMax - (LevelMax - l) = l
          BY <3>1, <2>1, <2>2, <1>0
    <3> QED BY <3>1, <3>2 DEF Wrong
  <2> HIDE DEF level
  <2>4. ASSUME NEW e \in leaves, Single(e), level <= LevelMax + 1 - Level(e), NEW face \in CoarserFaces(e)
        PROVE  FaceFollows(e, level, face)
    <3> DEFINE n == OutsideAt(e, face)
    <3>1. n \in leaves /\ Level(n) < Level(e) /\ n \in Neighbors(e)
          BY CoarserFace
    <3>2. Level(n) \in Nat /\ Level(e) \in Nat /\ level \in Nat
          BY <1>0, <2>2, <3>1, CoversItself
    <3>3. Level(n) = Level(e) - 1
          BY <3>1, <3>2 DEF TwoToOne
    <3>4. Single(n)
          BY ReachedHasOneFace DEF Single
    <3>5. Counted(e, level, face) = level
          BY <2>4, <3>2, CountedFew
    <3> HIDE DEF n
    <3>6. ASSUME level < LevelMax PROVE Closed(n, CheckNeighborsRefine[<<n, level + 1>>])
      <4>1. level + 1 \in level + 1..LevelMax /\ level + 1 <= LevelMax + 1 - Level(n)
            BY <1>0, <2>4, <3>2, <3>3, <3>6
      <4> QED BY <2>3, <3>1, <3>4, <4>1 DEF FollowersFollow
    <3>7. ASSUME ~(level < LevelMax) PROVE Level(n) = 0
          BY <1>0, <2>4, <3>1, <3>2, <3>7
    <3> QED BY <3>5, <3>6, <3>7 DEF FaceFollows, n
  <2>5. FollowersFollow(level)
        BY <2>2, <2>4, CollectedFollow DEF FollowersFollow
  <2> QED BY <2>2, <2>5
<1> SUFFICES ASSUME NEW level \in 1..LevelMax PROVE FollowersFollow(level)
    OBVIOUS
<1>2. LevelMax - level \in 0..LevelMax - 1 /\ LevelMax - (LevelMax - level) = level
      BY <1>0
<1>3. LevelMax - level \notin Wrong
      BY <1>1
<1> QED BY <1>2, <1>3

(* Whatever is refined, in one or two directions all coarser neighbors of  *)
(* the elements to refine are refined, too.                                *)
LEMMA RefinementsFollow ==
    ASSUME IsGrid(leaves), Complete(leaves), TwoToOne, Len(MacroCells) <= 2,
           NEW refine \in SUBSET leaves, NEW e \in Refinements(refine)
    PROVE  Follows(e, Refinements(refine))
<1>0. LevelMax \in Nat /\ leaves \subseteq Cells
      BY AdaptiveGridAssumption DEF IsGrid
<1> DEFINE W == {w \in refine : Level(w) < LevelMax}
           R == Refinements(refine)
<1>1. ASSUME NEW w \in W
      PROVE  Closed(w, CheckNeighborsRefine[<<w, 1>>])
  <2>1. w \in leaves /\ Level(w) < LevelMax /\ Level(w) \in Nat
        BY <1>0, CoversItself
  <2>2. 1 \in 1..LevelMax
        BY <1>0, <2>1
  <2>3. ASSUME NEW face \in CoarserFaces(w) PROVE FaceFollows(w, 1, face)
    <3> DEFINE n == OutsideAt(w, face)
               k == Counted(w, 1, face)
    <3>1. n \in leaves /\ Level(n) < Level(w) /\ n \in Neighbors(w)
          BY <2>1, CoarserFace
    <3>2. Level(n) \in Nat
          BY <1>0, <3>1, CoversItself
    <3>3. Level(n) = Level(w) - 1
          BY <2>1, <3>1, <3>2 DEF TwoToOne
    <3>4. Single(n)
          BY <2>1, ReachedHasOneFace DEF Single
    <3>5. k \in {1, 2}
          BY <2>1, CountedFew
    <3> HIDE DEF n, k
    <3>6. ASSUME k < LevelMax PROVE Closed(n, CheckNeighborsRefine[<<n, k + 1>>])
      <4>1. k + 1 \in 1..LevelMax /\ k + 1 <= LevelMax + 1 - Level(n)
            BY <1>0, <2>1, <3>2, <3>3, <3>5, <3>6
      <4> QED BY <3>1, <3>4, <4>1, SingleFollow DEF FollowersFollow
    <3>7. ASSUME ~(k < LevelMax) PROVE Level(n) = 0
          BY <1>0, <2>1, <3>2, <3>3, <3>5, <3>7
    <3> QED BY <3>6, <3>7 DEF FaceFollows, n, k
  <2> QED BY <2>1, <2>2, <2>3, CollectedFollow
<1>2. R = W \cup UNION {CheckNeighborsRefine[<<w, 1>>] : w \in W}
      BY DEF Refinements
<1>3. CASE e \in W
  <2>1. CheckNeighborsRefine[<<e, 1>>] \subseteq R
        BY <1>2, <1>3
  <2>2. Follows(e, CheckNeighborsRefine[<<e, 1>>])
        BY <1>1, <1>3 DEF Closed
  <2> QED BY <2>1, <2>2 DEF Follows
<1>4. CASE e \notin W
  <2>1. PICK w \in W : e \in CheckNeighborsRefine[<<w, 1>>]
        BY <1>2, <1>4
  <2>2. CheckNeighborsRefine[<<w, 1>>] \subseteq R
        BY <1>2
  <2>3. Follows(e, CheckNeighborsRefine[<<w, 1>>])
        BY <1>1, <2>1 DEF Closed
  <2> QED BY <2>2, <2>3 DEF Follows
<1> QED BY <1>3, <1>4
-----------------------------------------------------------------------------
(* The marks of the leaves: what is coarser beside an element to refine is *)
(* refined, too; beside one that may be removed nothing is refined and     *)
(* nothing is finer.                                                       *)
MarksFollow ==
    /\ \A e \in leaves : marks[e] = 1 =>
          \A n \in Neighbors(e) : Level(n) < Level(e) => marks[n] = 1
    /\ \A e \in leaves : marks[e] = -1 =>
          \A n \in Neighbors(e) : marks[n] # 1 /\ Level(n) <= Level(e)

(* markElements() sets marks that follow the neighbors. *)
LEMMA MarkFollows ==
    ASSUME IsGrid(leaves), Complete(leaves), TwoToOne, Len(MacroCells) <= 2,
           NEW refine \in SUBSET leaves, NEW coarsen, Mark(refine, coarsen)
    PROVE  MarksFollow'
<1> DEFINE R == Refinements(refine)
           C == Coarsenings(R, coarsen)
<1>0. leaves' = leaves /\ marks' = Marked(R, C)
      BY DEF Mark, MarkElements
<1>1. \A e \in leaves : /\ marks'[e] = 1 <=> e \in R
                        /\ marks'[e] = -1 => e \in C
  <2> HIDE DEF R, C
  <2> QED BY <1>0 DEF Marked
<1>2. \A e : Neighbors(e)' = Neighbors(e) /\ Neighbors(e) \subseteq leaves
      BY <1>0 DEF Neighbors, Outside
<1>3. \A e \in R : Follows(e, R)
      BY RefinementsFollow
<1>4. \A e \in C : \A n \in Neighbors(e) : n \notin R /\ Level(n) <= Level(e)
      BY DEF Coarsenings
<1> HIDE DEF R, C
<1>5. ASSUME NEW e \in leaves, marks'[e] = 1, NEW n \in Neighbors(e), Level(n) < Level(e)
      PROVE  marks'[n] = 1
      BY <1>1, <1>2, <1>3, <1>5 DEF Follows
<1>6. ASSUME NEW e \in leaves, marks'[e] = -1, NEW n \in Neighbors(e)
      PROVE  marks'[n] # 1 /\ Level(n) <= Level(e)
      BY <1>1, <1>2, <1>4, <1>6
<1> QED BY <1>0, <1>2, <1>5, <1>6 DEF MarksFollow
-----------------------------------------------------------------------------
(* An old leaf that faces what an element of the new grid faces. *)
OldAt(e, e0) ==
    \/ e0 = e /\ marks[e0] # 1
    \/ HasFather(e) /\ e0 = Father(e) /\ marks[e0] = 1 /\ Level(e) = Level(e0) + 1
    \/ e0 \in Children(e) /\ marks[e0] = -1 /\ Level(e0) = Level(e) + 1

(* Beside what lies at a face of a new leaf there was a leaf: the same     *)
(* one, its father that is refined, or its child that is removed.          *)
LEMMA OldFaces ==
    ASSUME GridAdapts, IsGrid(leaves), MarksBelow, IsGrid(leaves'),
           NEW e \in leaves', NEW n \in leaves', NEW face \in Faces, Beside(e, face) \in Cells,
           Covers(n, Beside(e, face)), Level(n) < Level(e)
    PROVE  \E e0 \in leaves : OldAt(e, e0) /\ ~Covers(n, e0) /\ Covers(n, Beside(e0, face))
<1> DEFINE b == Beside(e, face)
<1>1. /\ e \in Cells /\ n \in Cells /\ b \in Cells /\ Level(b) = Level(e)
      /\ Level(e) \in Nat /\ Level(n) \in Nat
  <2>1. e \in Cells /\ n \in Cells
        BY DEF IsGrid
  <2> QED BY <2>1, CoversItself, BesideIs
<1>2. ~Covers(n, e) /\ n # b /\ Covers(n, b)
  <2>1. n # e /\ n # b
        BY <1>1
  <2> QED BY <2>1 DEF IsGrid
<1> HIDE DEF b
<1>3. CASE Stays(e) /\ e \in leaves /\ marks[e] # 1
      BY <1>2, <1>3 DEF OldAt, b
<1>4. CASE HasFather(e) /\ Father(e) \in leaves /\ marks[Father(e)] = 1
           /\ Level(e) = Level(Father(e)) + 1 /\ Covers(Father(e), e)
  <2> DEFINE f == Father(e)
  <2>1. f \in Cells
        BY <1>4 DEF IsGrid
  <2>2. ~Covers(n, f)
        BY <1>1, <1>2, <1>4, <2>1, CoversTransitive
  <2>3. HasFather(b) /\ Covers(n, Father(b))
        BY <1>1, <1>2, CoversFather
  <2>4. Father(b) = f \/ Father(b) = Beside(f, face)
        BY <1>1, <1>4, FatherBeside DEF b
  <2>5. Covers(n, Beside(f, face))
        BY <2>2, <2>3, <2>4
  <2> QED BY <1>4, <2>2, <2>5 DEF OldAt
<1>5. CASE Level(e) < LevelMax /\ \A s \in Children(e) : Removed(s) /\ s \in leaves /\ marks[s] = -1
  <2>1. PICK c \in Children(e) : /\ Beside(c, face) \in Cells /\ HasFather(Beside(c, face))
                                 /\ Father(Beside(c, face)) = b
        BY <1>1, <1>5, ChildAtFace DEF b
  <2>2. c \in Cells /\ Level(c) = Level(e) + 1 /\ HasFather(c) /\ Father(c) = e
        BY <1>1, <1>5, FatherOfChild
  <2>3. c \in leaves /\ marks[c] = -1
        BY <1>5
  <2>4. Covers(n, Beside(c, face))
        BY <1>1, <1>2, <2>1, FatherCovers, CoversTransitive
  <2>5. ~Covers(n, c)
    <3>1. n # c
          BY <1>1, <2>2
    <3> QED BY <1>1, <1>2, <2>2, <3>1, CoversFather
  <2> QED BY <2>2, <2>3, <2>4, <2>5 DEF OldAt
<1> QED BY <1>3, <1>4, <1>5, AdaptedElements DEF MarksBelow

(* If the marks follow the neighbors, an adaption keeps the ratio. *)
LEMMA RatioSteps ==
    ASSUME GridAdapts, IsGrid(leaves), MarksBelow, TwoToOne, MarksFollow
    PROVE  TwoToOne'
<1>0. IsGrid(leaves')
      BY AdaptedGrid DEF MarksBelow
<1> SUFFICES ASSUME NEW e \in leaves', NEW n \in Neighbors(e)', ~(Level(n) >= Level(e) - 1)
             PROVE  FALSE
    BY DEF TwoToOne
<1>1. PICK face \in Faces : n \in Outside(e, face)'
      BY DEF Neighbors
<1>2. /\ n \in leaves' /\ e \in Cells /\ n \in Cells /\ Level(n) \in Nat /\ Level(e) \in Nat
      /\ Level(n) < Level(e) - 1
  <2>1. n \in leaves'
        BY <1>1 DEF Outside
  <2>2. e \in Cells /\ n \in Cells
        BY <1>0, <2>1 DEF IsGrid
  <2> QED BY <2>1, <2>2, CoversItself
<1>3. Covers(n, Beside(e, face)) /\ Beside(e, face) \in Cells
  <2>1. Level(Beside(e, face)) = Level(e)
        BY <1>2, BesideIs
  <2>2. ~Covers(Beside(e, face), n)
        BY <1>2, <2>1 DEF Covers
  <2>3. Covers(n, Beside(e, face))
        BY <1>1, <2>2 DEF Outside
  <2> QED BY <1>2, <2>3, BesideInside
<1>4. PICK e0 \in leaves : OldAt(e, e0) /\ ~Covers(n, e0) /\ Covers(n, Beside(e0, face))
      BY <1>0, <1>2, <1>3, OldFaces
<1>5. /\ e0 \in Cells /\ Level(e0) \in Nat /\ Beside(e0, face) \in Cells
      /\ Level(Beside(e0, face)) = Level(e0) /\ n # e0
  <2>1. e0 \in Cells
        BY DEF IsGrid
  <2> QED BY <1>2, <1>4, <2>1, CoversItself, BesideIs, BesideInside
<1>6. Level(n) < Level(e0)
      BY <1>2, <1>4, <1>5 DEF OldAt
<1>7. CASE Stays(n) /\ n \in leaves /\ marks[n] # 1
  <2>1. n \in Neighbors(e0)
        BY <1>4, <1>7, CoversNeighbor
  <2>2. Level(n) >= Level(e0) - 1
        BY <2>1 DEF TwoToOne
  <2>3. marks[e0] # 1
        BY <1>6, <1>7, <2>1 DEF MarksFollow
  <2> QED BY <1>2, <1>4, <1>5, <2>2, <2>3 DEF OldAt
<1>8. CASE HasFather(n) /\ Father(n) \in leaves /\ Level(n) = Level(Father(n)) + 1 /\ Covers(Father(n), n)
  <2>1. Father(n) \in Cells
        BY <1>8 DEF IsGrid
  <2>2. Covers(Father(n), Beside(e0, face))
        BY <1>2, <1>4, <1>5, <1>8, <2>1, CoversTransitive
  <2>3. Level(Father(n)) >= Level(e0) - 1
        BY <1>8, <2>2, CoversNeighbor DEF TwoToOne
  <2>4. Level(Father(n)) \in Nat
        BY <2>1, CoversItself
  <2> QED BY <1>2, <1>4, <1>5, <1>8, <2>3, <2>4 DEF OldAt
<1>9. CASE Level(n) < LevelMax /\ \A s \in Children(n) : Removed(s) /\ s \in leaves /\ marks[s] = -1
  <2>1. n # Beside(e0, face)
        BY <1>5, <1>6, <1>2
  <2>2. PICK s \in Children(n) : s \in Cells /\ Covers(s, Beside(e0, face))
        BY <1>2, <1>4, <1>5, <2>1, ChildCovers
  <2>3. s \in leaves /\ marks[s] = -1 /\ Level(s) = Level(n) + 1 /\ Covers(n, s)
    <3>1. HasFather(s) /\ Father(s) = n /\ Level(s) = Level(n) + 1
          BY <1>2, <1>9, FatherOfChild
    <3> QED BY <1>9, <2>2, <3>1, FatherCovers
  <2>4. e0 \in Neighbors(s)
        BY <1>4, <2>2, <2>3, NeighborsFace
  <2>5. marks[e0] # 1 /\ Level(e0) <= Level(s)
        BY <2>3, <2>4 DEF MarksFollow
  <2> QED BY <1>2, <1>4, <1>5, <2>3, <2>5 DEF OldAt
<1> QED BY <1>2, <1>7, <1>8, <1>9, AdaptedElements DEF MarksBelow

(* An adaption leaves no holes. *)
LEMMA CompleteSteps ==
    ASSUME GridAdapts, IsGrid(leaves), MarksBelow, Complete(leaves)
    PROVE  Complete(leaves')
<1>0. IsGrid(leaves')
      BY AdaptedGrid DEF MarksBelow
<1> DEFINE L == leaves
           M == leaves'
<1>1. L \subseteq Cells /\ M \subseteq Cells
      BY <1>0 DEF IsGrid
<1>2. /\ \A e \in M : \/ e \in L
                      \/ HasFather(e) /\ Father(e) \in L /\ Children(Father(e)) \subseteq M
                      \/ Level(e) < LevelMax /\ Children(e) \subseteq L
      /\ \A e \in L : \/ e \in M
                      \/ HasFather(e) /\ Father(e) \in M
                      \/ Level(e) < LevelMax /\ Children(e) \subseteq M
  <2>1. OneLevel(L, M) /\ OneLevel(M, L)
        BY AdaptedGrid DEF MarksBelow
  <2> QED BY <2>1 DEF OneLevel
<1>3. IsGrid(L) /\ Complete(L)
      OBVIOUS
<1> HIDE DEF L, M
<1> SUFFICES ASSUME NEW a \in Hierarchy(M), a \notin M, NEW c \in Children(a) PROVE c \in Hierarchy(M)
    BY DEF Complete, M
<1>4. PICK e \in M : a \in Cells /\ Covers(a, e)
      BY <1>1, HierarchyCovers
<1>5. a # e /\ e \in Cells
      BY <1>1
<1>6. Level(a) < LevelMax
  <2>1. Level(a) \in 0..LevelMax /\ Level(e) \in 0..LevelMax /\ ~(Level(a) >= Level(e))
        BY <1>4, <1>5, CoversItself, SameLevelCovers
  <2> QED BY <2>1, AdaptiveGridAssumption
<1>7. c \in Cells /\ HasFather(c) /\ Father(c) = a
      BY <1>4, <1>6, FatherOfChild
<1>8. SUFFICES ASSUME c \notin M PROVE c \in Hierarchy(M)
      BY <1>1, HierarchyCovers
<1>9. \E x \in L : Covers(a, x) /\ a # x
  <2>1. CASE e \in L
        BY <1>4, <1>5, <2>1
  <2>2. CASE HasFather(e) /\ Father(e) \in L /\ Children(Father(e)) \subseteq M
    <3>1. Covers(a, Father(e))
          BY <1>4, <1>5, CoversFather
    <3>2. a # Father(e)
          BY <1>8, <2>2
    <3> QED BY <2>2, <3>1, <3>2
  <2>3. CASE Level(e) < LevelMax /\ Children(e) \subseteq L
    <3>1. PICK s \in Children(e) : TRUE
          BY SomeChild
    <3>2. s \in Cells /\ Covers(e, s) /\ Level(s) = Level(e) + 1
          BY <1>5, <2>3, FatherOfChild, FatherCovers
    <3>3. Covers(a, s)
          BY <1>4, <1>5, <3>2, CoversTransitive
    <3>4. a # s
      <4>1. Level(a) <= Level(e) /\ Level(a) \in Nat /\ Level(e) \in Nat
            BY <1>4, <1>5, CoversItself DEF Covers
      <4> QED BY <3>2, <4>1
    <3> QED BY <2>3, <3>3, <3>4
  <2> QED BY <1>2, <2>1, <2>2, <2>3
<1>10. a \in Hierarchy(L) /\ a \notin L
       BY <1>1, <1>3, <1>4, <1>9, HierarchyCovers DEF IsGrid
<1>11. c \in Hierarchy(L)
       BY <1>3, <1>10 DEF Complete
<1>12. PICK x \in L : Covers(c, x) /\ x \in Cells
       BY <1>1, <1>11, HierarchyCovers
<1>13. CASE x \in M
       BY <1>1, <1>7, <1>12, <1>13, HierarchyCovers
<1>14. CASE HasFather(x) /\ Father(x) \in M
  <2>1. c # x
        BY <1>7, <1>14
  <2>2. Covers(c, Father(x))
        BY <1>7, <1>12, <2>1, CoversFather
  <2> QED BY <1>1, <1>7, <1>14, <2>2, HierarchyCovers
<1>15. CASE Level(x) < LevelMax /\ Children(x) \subseteq M
  <2>1. PICK s \in Children(x) : TRUE
        BY SomeChild
  <2>2. s \in M /\ s \in Cells /\ Covers(x, s)
        BY <1>12, <1>15, FatherOfChild, FatherCovers
  <2>3. Covers(c, s)
        BY <1>7, <1>12, <2>2, CoversTransitive
  <2> QED BY <1>1, <1>7, <2>2, <2>3, HierarchyCovers
<1> QED BY <1>2, <1>13, <1>14, <1>15
-----------------------------------------------------------------------------
(* The elements above those of the initial grid, by their coordinates. *)
Inside(a) ==
    /\ a \in Cells /\ Level(a) <= InitialLevel
    /\ \A d \in Dims : a[2][d] < MacroCells[d] * PowerOfTwo[Level(a)]

(* An element is inside if and only if its children are. *)
LEMMA InsideChildren ==
    ASSUME NEW a \in Cells, Level(a) < InitialLevel, NEW c \in Children(a)
    PROVE  /\ c \in Cells /\ HasFather(c) /\ Father(c) = a /\ Level(c) = Level(a) + 1
           /\ Inside(a) <=> Inside(c)
<1>0. /\ LevelMax \in Nat /\ InitialLevel \in 0..LevelMax /\ Level(a) \in Nat
      /\ \A d \in Dims : MacroCells[d] \in Nat
  <2>1. MacroCells \in Seq(Nat) /\ Dims = DOMAIN MacroCells
        BY AdaptiveGridAssumption DEF Dims
  <2> QED BY <2>1, AdaptiveGridAssumption, CoversItself
<1>1. c \in Cells /\ HasFather(c) /\ Father(c) = a /\ Level(c) = Level(a) + 1
      BY <1>0, FatherOfChild
<1>2. /\ PowerOfTwo[Level(c)] = 2 * PowerOfTwo[Level(a)] /\ PowerOfTwo[Level(a)] \in Nat
  <2>1. Level(c) \in 1..LevelMax /\ Level(c) - 1 = Level(a) /\ Level(a) \in 0..LevelMax
        BY <1>0, <1>1
  <2> QED BY <2>1, PowersDouble
<1>3. ASSUME NEW d \in Dims
      PROVE  a[2][d] < MacroCells[d] * PowerOfTwo[Level(a)] <=>
             c[2][d] < MacroCells[d] * PowerOfTwo[Level(c)]
  <2> DEFINE m == MacroCells[d]
             p == PowerOfTwo[Level(a)]
             y == c[2][d]
  <2>1. m \in Nat /\ p \in Nat /\ y \in Nat /\ a[2][d] = y \div 2
    <3>1. y \in Nat /\ Father(c)[2][d] = y \div 2
          BY <1>1, FatherHalves
    <3> QED BY <1>0, <1>1, <1>2, <3>1
  <2>2. m * p \in Nat /\ m * PowerOfTwo[Level(c)] = 2 * (m * p)
    <3>1. \A i, j \in Nat : i * j \in Nat /\ i * (2 * j) = 2 * (i * j)
          OBVIOUS
    <3> HIDE DEF m, p
    <3>2. PowerOfTwo[Level(c)] = 2 * p
          BY <1>2 DEF p
    <3> QED BY <2>1, <3>1, <3>2
  <2> HIDE DEF m, p, y
  <2>3. \A i, q \in Nat : i \div 2 < q <=> i < 2 * q
        OBVIOUS
  <2>4. y \div 2 < m * p <=> y < 2 * (m * p)
        BY <2>1, <2>2, <2>3
  <2> QED BY <2>1, <2>2, <2>4 DEF m, p, y
<1>4. Level(a) <= InitialLevel /\ Level(c) <= InitialLevel
      BY <1>0, <1>1
<1> QED BY <1>1, <1>3, <1>4 DEF Inside

(* A finite set of numbers has a bound. *)
LEMMA FiniteIsBounded ==
    ASSUME NEW S, IsFiniteSet(S), \A x \in S : x \in Nat
    PROVE  \E n \in Nat : S \subseteq 0..n
<1> DEFINE Bad == {T \in SUBSET S : ~\E n \in Nat : T \subseteq 0..n}
<1>1. Bad = {}
  <2> SUFFICES ASSUME Bad # {} PROVE FALSE
      OBVIOUS
  <2>1. Bad \in SUBSET (SUBSET S)
        OBVIOUS
  <2> HIDE DEF Bad
  <2>2. PICK T \in Bad : \A U \in Bad : U \subseteq T => U = T
        BY <2>1, Smallest
  <2>3. T \subseteq S /\ ~\E n \in Nat : T \subseteq 0..n
        BY <2>2 DEF Bad
  <2>4. PICK x \in T : x \in Nat
    <3>1. T # {}
      <4>1. T = {} => T \subseteq 0..0
            OBVIOUS
      <4> QED BY <2>3, <4>1
    <3> QED BY <2>3, <3>1
  <2>5. T \ {x} \notin Bad
        BY <2>2, <2>4
  <2>6. PICK n \in Nat : T \ {x} \subseteq 0..n
        BY <2>3, <2>5 DEF Bad
  <2>7. T \subseteq 0..n + x
    <3>1. n + x >= n /\ n + x >= x /\ n + x \in Nat
          BY <2>4, <2>6
    <3> QED BY <2>4, <2>6, <3>1
  <2>8. n + x \in Nat
        BY <2>4, <2>6
  <2> QED BY <2>3, <2>7, <2>8
<1>2. S \in SUBSET S
      OBVIOUS
<1> QED BY <1>1, <1>2

(* The elements of the initial level that are inside are leaves at the     *)
(* start.                                                                  *)
LEMMA InsideIsInitial ==
    ASSUME NEW a, Inside(a), Level(a) = InitialLevel
    PROVE  a \in ElementsOf(InitialLevel)
<1> DEFINE count(d) == MacroCells[d] * PowerOfTwo[InitialLevel]
           C == {count(d) : d \in Dims}
           m == Max(C)
<1>1. a \in Cells /\ a = <<InitialLevel, a[2]>> /\ a[2] \in [Dims -> Nat]
  <2>1. a \in Cells
        BY DEF Inside
  <2> QED BY <2>1 DEF Cells, Level
<1>2. \A d \in Dims : a[2][d] < count(d)
      BY DEF Inside
<1>3. \A d \in Dims : count(d) \in Nat
  <2>1. PowerOfTwo[InitialLevel] \in Nat
        BY PowersDouble, AdaptiveGridAssumption
  <2>2. MacroCells \in Seq(Nat \ {0})
        BY AdaptiveGridAssumption
  <2>3. \A d \in Dims : MacroCells[d] \in Nat
        BY <2>2 DEF Dims
  <2>4. \A i, j \in Nat : i * j \in Nat
        OBVIOUS
  <2> QED BY <2>1, <2>3, <2>4
<1>4. \A d \in Dims : m \in Nat /\ count(d) <= m
  <2> SUFFICES ASSUME NEW d \in Dims PROVE m \in Nat /\ count(d) <= m
      OBVIOUS
  <2>1. IsFiniteSet(C)
    <3> DEFINE g == [i \in Dims |-> count(i)]
    <3>1. DOMAIN g = Dims /\ C = {g[i] : i \in DOMAIN g}
          OBVIOUS
    <3> HIDE DEF g, C
    <3> QED BY <3>1, DimsAreFinite, FiniteImage
  <2>2. C \subseteq Nat /\ count(d) \in C
        BY <1>3
  <2> HIDE DEF C
  <2>3. PICK n \in Nat : C \subseteq 0..n
        BY <2>1, <2>2, FiniteIsBounded
  <2>4. Max(C) \in C /\ \A y \in C : Max(C) >= y
        BY <2>2, <2>3, MaxOfBounded
  <2> HIDE DEF count
  <2>5. Max(C) \in Nat /\ Max(C) >= count(d) /\ count(d) \in Nat
        BY <2>2, <2>4
  <2> QED BY <2>5
<1> HIDE DEF count, m
<1>5. \A d \in Dims : a[2][d] \in 0..m - 1
  <2> SUFFICES ASSUME NEW d \in Dims PROVE a[2][d] \in 0..m - 1
      OBVIOUS
  <2>1. a[2][d] \in Nat /\ a[2][d] < count(d) /\ count(d) <= m /\ count(d) \in Nat /\ m \in Nat
        BY <1>1, <1>2, <1>3, <1>4
  <2> QED BY <2>1
<1>6. a[2] \in [Dims -> 0..m - 1]
      BY <1>1, <1>5
<1> QED BY <1>1, <1>2, <1>6 DEF ElementsOf, count, m, C

(* The leaves at the start are inside. *)
LEMMA InitialIsInside ==
    ASSUME NEW e \in ElementsOf(InitialLevel)
    PROVE  Inside(e)
<1>1. e \in Cells /\ Level(e) = InitialLevel /\ InitialLevel \in Nat
      BY InitialElements, AdaptiveGridAssumption
<1>2. \A d \in Dims : e[2][d] < MacroCells[d] * PowerOfTwo[InitialLevel]
      BY InitialElements
<1> QED BY <1>1, <1>2 DEF Inside

(* The hierarchy at the start is all that lies inside. *)
LEMMA InitialHierarchy ==
    \A a : a \in Hierarchy(ElementsOf(InitialLevel)) <=> Inside(a)
<1> DEFINE L == ElementsOf(InitialLevel)
           H == Hierarchy(L)
           Bad == {a \in Cells : ~(a \in H <=> Inside(a))}
           D == {LevelMax - Level(a) : a \in Bad}
<1>0. /\ LevelMax \in Nat /\ InitialLevel \in 0..LevelMax
      /\ \A e \in L : e \in Cells /\ Level(e) = InitialLevel /\ Inside(e)
      /\ \A e : Inside(e) /\ Level(e) = InitialLevel => e \in L
      BY AdaptiveGridAssumption, InitialElements, InitialIsInside, InsideIsInitial
<1>1. L \subseteq Cells
      BY <1>0
<1> HIDE DEF L
<1>2. /\ \A a : a \in H <=> \E e \in L : a \in Cells /\ Covers(a, e)
      /\ L \subseteq H /\ H \subseteq Cells
      BY <1>1, HierarchyCovers
<1>3. ASSUME Bad # {} PROVE FALSE
  <2>1. D \in SUBSET Nat /\ D # {}
    <3>1. \A a \in Bad : LevelMax - Level(a) \in Nat
      <4> SUFFICES ASSUME NEW a \in Bad PROVE LevelMax - Level(a) \in Nat
          OBVIOUS
      <4>1. Level(a) \in 0..LevelMax
            BY CoversItself
      <4> QED BY <1>0, <4>1
    <3> QED BY <1>3, <3>1
  <2>2. PICK k \in D : \A j \in D : k <= j
        BY <2>1, Least
  <2>3. PICK a \in Bad : k = LevelMax - Level(a)
        OBVIOUS
  <2>4. a \in Cells /\ ~(a \in H <=> Inside(a)) /\ Level(a) \in 0..LevelMax
        BY CoversItself
  <2>5. \A b \in Bad : Level(b) \in 0..LevelMax /\ LevelMax - Level(a) <= LevelMax - Level(b)
        BY <2>2, <2>3, CoversItself
  <2> HIDE DEF D, H
  <2>6. \A b \in Cells : Level(b) > Level(a) => (b \in H <=> Inside(b))
    <3> SUFFICES ASSUME NEW b \in Cells, Level(b) > Level(a), b \in Bad PROVE FALSE
        OBVIOUS
    <3>1. Level(b) \in 0..LevelMax /\ LevelMax - Level(a) <= LevelMax - Level(b)
          BY <2>5
    <3> QED BY <1>0, <2>4, <3>1
  <2>7. CASE a \in H
    <3>1. PICK e \in L : Covers(a, e)
          BY <1>2, <2>7
    <3>2. e \in Cells /\ Level(e) = InitialLevel /\ a # e
          BY <1>0, <2>4, <2>7
    <3>3. Level(a) < InitialLevel
      <4>1. ~(Level(a) >= Level(e))
            BY <2>4, <3>1, <3>2, SameLevelCovers
      <4> QED BY <1>0, <2>4, <3>2, <4>1
    <3>4. PICK s \in Children(a) : s \in Cells /\ Covers(s, e)
          BY <2>4, <3>1, <3>2, ChildCovers
    <3>5. s \in H
          BY <1>2, <3>4
    <3>6. Level(s) = Level(a) + 1 /\ (Inside(a) <=> Inside(s))
          BY <2>4, <3>3, InsideChildren
    <3>7. Inside(s)
          BY <2>4, <2>6, <3>4, <3>5, <3>6
    <3> QED BY <2>4, <2>7, <3>6, <3>7
  <2>8. CASE a \notin H
    <3>1. Inside(a) /\ Level(a) <= InitialLevel
          BY <2>4, <2>8 DEF Inside
    <3>2. Level(a) < InitialLevel
      <4>1. Level(a) # InitialLevel
            BY <1>0, <1>2, <2>8, <3>1
      <4> QED BY <1>0, <2>4, <3>1, <4>1
    <3>3. PICK s \in Children(a) : TRUE
          BY SomeChild
    <3>4. s \in Cells /\ HasFather(s) /\ Father(s) = a /\ Level(s) = Level(a) + 1 /\ Inside(s)
          BY <2>4, <3>1, <3>2, InsideChildren
    <3>5. s \in H
          BY <2>4, <2>6, <3>4
    <3>6. PICK e \in L : Covers(s, e)
          BY <1>2, <3>5
    <3>7. Covers(a, e)
          BY <1>0, <2>4, <3>4, <3>6, FatherCovers, CoversTransitive
    <3> QED BY <1>2, <2>4, <2>8, <3>7
  <2> QED BY <2>7, <2>8
<1>4. \A a : Inside(a) => a \in Cells
      BY DEF Inside
<1> QED BY <1>2, <1>3, <1>4 DEF L

(* The grid at the start has no holes and only one level. *)
LEMMA InitialRatio ==
    ASSUME leaves = ElementsOf(InitialLevel)
    PROVE  Complete(leaves) /\ TwoToOne
<1> DEFINE L == ElementsOf(InitialLevel)
<1>0. /\ LevelMax \in Nat /\ InitialLevel \in 0..LevelMax
      /\ \A e \in L : e \in Cells /\ Level(e) = InitialLevel
      /\ \A e : Inside(e) /\ Level(e) = InitialLevel => e \in L
      /\ \A a : a \in Hierarchy(L) <=> Inside(a)
      BY AdaptiveGridAssumption, InitialElements, InsideIsInitial, InitialHierarchy
<1> HIDE DEF L
<1>1. Complete(L)
  <2> SUFFICES ASSUME NEW a \in Hierarchy(L), a \notin L, NEW c \in Children(a) PROVE c \in Hierarchy(L)
      BY DEF Complete
  <2>1. Inside(a)
        BY <1>0
  <2>2. a \in Cells /\ Level(a) <= InitialLevel /\ Level(a) \in Nat
        BY <2>1, CoversItself DEF Inside
  <2>3. Level(a) < InitialLevel
    <3>1. Level(a) # InitialLevel
          BY <1>0, <2>1
    <3> QED BY <1>0, <2>2, <3>1
  <2>4. Inside(c)
        BY <2>1, <2>2, <2>3, InsideChildren
  <2> QED BY <1>0, <2>4
<1>2. TwoToOne
  <2>1. \A e \in leaves : Level(e) = InitialLevel
        BY <1>0 DEF L
  <2>2. \A e : Neighbors(e) \subseteq leaves
        BY DEF Neighbors, Outside
  <2> QED BY <1>0, <2>1, <2>2 DEF TwoToOne
<1> QED BY <1>1, <1>2 DEF L
-----------------------------------------------------------------------------
(* The inductive invariant of the ratio. *)
RatioInv ==
    /\ IsGrid(leaves) /\ Complete(leaves) /\ TwoToOne
    /\ phase \in {"marked", "stored"} => MarksFollow

(* Every step of the sequential model keeps the invariant. *)
LEMMA RatioNext ==
    ASSUME Len(MacroCells) <= 2, GridInv, RatioInv, [AdaptNext]_adaptVars
    PROVE  RatioInv'
<1>0. IsGrid(leaves) /\ Complete(leaves) /\ TwoToOne /\ MarksBelow
      BY DEF GridInv, RatioInv, MarksBelow
<1>1. ASSUME UNCHANGED leaves, (phase' \in {"marked", "stored"} => MarksFollow') PROVE RatioInv'
  <2>1. \A e : Neighbors(e)' = Neighbors(e)
        BY <1>1 DEF Neighbors, Outside
  <2>2. TwoToOne'
        BY <1>0, <1>1, <2>1 DEF TwoToOne
  <2> QED BY <1>0, <1>1, <2>2 DEF RatioInv
<1>2. ASSUME NEW refine \in SUBSET leaves, NEW coarsen, Mark(refine, coarsen) PROVE RatioInv'
  <2>1. MarksFollow'
        BY <1>0, <1>2, MarkFollows
  <2>2. UNCHANGED leaves
        BY <1>2 DEF Mark
  <2> QED BY <1>1, <2>1, <2>2
<1>3. CASE InitRound
  <2>1. PICK verdict \in Verdicts : Mark(InitRefine(verdict), InitCoarsen(verdict))
        BY <1>3 DEF InitRound
  <2>2. InitRefine(verdict) \in SUBSET leaves
        BY VerdictsAreLeaves DEF InitRefine, RefineCell, At
  <2> QED BY <1>2, <2>1, <2>2
<1>4. CASE PreTimeStep
  <2>1. PICK verdict \in Verdicts : Mark(verdict[1], verdict[2])
        BY <1>4 DEF PreTimeStep
  <2> QED BY <1>2, <2>1, VerdictsAreLeaves
<1>5. CASE EndInit \/ EndRound \/ SkipAdaption \/ TimeStep \/ ReconstructPrimVars
  <2>1. UNCHANGED leaves /\ phase' \in {"idle", "done"}
        BY <1>5 DEF EndInit, EndRound, SkipAdaption, TimeStep, ReconstructPrimVars, gridVars
  <2> QED BY <1>1, <2>1
<1>6. CASE StorePrimVars \/ UNCHANGED adaptVars
  <2>1. UNCHANGED <<leaves, marks>> /\ (phase' \in {"marked", "stored"} => phase \in {"marked", "stored"})
        BY <1>6 DEF StorePrimVars, adaptVars, gridVars
  <2>2. MarksFollow => MarksFollow'
    <3>1. \A e : Neighbors(e)' = Neighbors(e)
          BY <2>1 DEF Neighbors, Outside
    <3> QED BY <2>1, <3>1 DEF MarksFollow
  <2> QED BY <1>1, <2>1, <2>2 DEF RatioInv
<1>7. CASE AdaptTheGrid
  <2>1. GridAdapts /\ phase = "stored" /\ phase' = "adapted"
        BY <1>7 DEF AdaptTheGrid
  <2>2. MarksFollow
        BY <2>1 DEF RatioInv
  <2>3. IsGrid(leaves') /\ Complete(leaves') /\ TwoToOne'
        BY <1>0, <2>1, <2>2, AdaptedGrid, CompleteSteps, RatioSteps DEF MarksBelow
  <2> QED BY <2>1, <2>3 DEF RatioInv
<1> QED BY <1>3, <1>4, <1>5, <1>6, <1>7 DEF AdaptNext

(* Sequential model: for grids of one or two directions, every macro grid, *)
(* all levels and whatever the indicators want, no two neighbors of the    *)
(* leaf grid ever differ by more than a level: the counter of              *)
(* checkNeighborsRefine_ (gridadapt.hh:350-386), which also goes up with   *)
(* the siblings, never ends the recursion too early there, and             *)
(* markElements() removes no cell beside a finer one or one that is        *)
(* refined.                                                                *)
THEOREM RatioStays == Len(MacroCells) <= 2 => (Spec => []RatioKept)
<1> SUFFICES ASSUME Len(MacroCells) <= 2 PROVE Spec => []RatioKept
    OBVIOUS
<1> DEFINE Inv == model = "sequential" => GridInv /\ RatioInv
<1>1. Init => Inv
  <2> SUFFICES ASSUME Init PROVE GridInv /\ RatioInv
      OBVIOUS
  <2>1. AdaptInit /\ phase = "idle" /\ leaves = ElementsOf(InitialLevel)
        BY DEF Init, AdaptInit, InitialGrid
  <2> QED BY <2>1, GridInitInv, InitialIsGrid, InitialRatio DEF RatioInv
<1>2. Inv /\ [Next]_allVars => Inv'
  <2> SUFFICES ASSUME Inv, [Next]_allVars, model' = "sequential" PROVE GridInv' /\ RatioInv'
      OBVIOUS
  <2>1. model = "sequential" /\ [AdaptNext]_adaptVars
        BY DEF Next, allVars
  <2> QED BY <2>1, GridNextInv, RatioNext
<1>3. Inv => RatioKept
      BY DEF RatioKept, RatioEnsured, RatioInv
<1> HIDE DEF Inv
<1> QED BY <1>1, <1>2, <1>3, PTL DEF Spec
=============================================================================
