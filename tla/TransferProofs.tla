--------------------------- MODULE TransferProofs ---------------------------
(***************************************************************************)
(* Proofs about the transfer of the data between two grids, for every grid *)
(* of cubes in any dimension, all levels and whatever the indicators want: *)
(* what the sequential and the implicit model hold in an element is the    *)
(* same before and after an adaption.                                      *)
(*                                                                         *)
(* The argument: a step of the grid leads to leaves that differ from those *)
(* before by one level, so that below each of the larger elements of both  *)
(* grids one of them has that element alone and the other one its          *)
(* children.  Over these larger elements the amounts are summed in groups. *)
(* The means are divisions; that they leave no remainder is kept as part   *)
(* of the invariant, TransferInv: a value can be divided as often as it    *)
(* may still be, until the leaves around it hold the same.                 *)
(***************************************************************************)
EXTENDS AdaptionProofs

(* Ancestors. *)
LEMMA AncestorCells ==
    ASSUME NEW e \in Cells, NEW k \in 0..Level(e)
    PROVE  /\ Ancestor(e, k) \in Cells /\ Level(Ancestor(e, k)) = k
           /\ Ancestor(e, Level(e)) = e
<1>0. LevelMax \in Nat /\ Level(e) \in 0..LevelMax /\ e[2] \in [Dims -> Nat]
      /\ e = <<Level(e), e[2]>>
      BY AdaptiveGridAssumption DEF Cells, Level
<1>1. \A n \in 0..LevelMax : PowerOfTwo[n] \in Nat \ {0}
      BY PowersDouble
<1>2. \A a \in Nat : \A b \in Nat \ {0} : a \div b \in Nat
      OBVIOUS
<1> DEFINE b == PowerOfTwo[Level(e) - k]
           x == [d \in Dims |-> e[2][d] \div b]
<1>3. b \in Nat \ {0}
      BY <1>0, <1>1
<1> HIDE DEF b
<1>4. x \in [Dims -> Nat]
      BY <1>0, <1>2, <1>3
<1>5. Ancestor(e, k) = <<k, x>>
      BY DEF Ancestor, b
<1>6. k \in 0..LevelMax
      BY <1>0
<1>7. Ancestor(e, Level(e)) = e
  <2>1. Level(e) - Level(e) = 0
        BY <1>0
  <2>2. \A i \in Nat : i \div 1 = i
        OBVIOUS
  <2>3. [d \in Dims |-> e[2][d] \div 1] = e[2]
        BY <1>0, <2>2
  <2> QED BY <1>0, <2>1, <2>3, PowersDouble DEF Ancestor
<1> HIDE DEF x
<1> QED BY <1>4, <1>5, <1>6, <1>7 DEF Cells, Level

(* Ancestors follow from each other level by level. *)
LEMMA AncestorStep ==
    ASSUME NEW e \in Cells, NEW k \in Nat, k < Level(e)
    PROVE  Ancestor(e, k) = Father(Ancestor(e, k + 1))
<1>0. LevelMax \in Nat /\ Level(e) \in 0..LevelMax /\ e[2] \in [Dims -> Nat]
      BY AdaptiveGridAssumption DEF Cells, Level
<1> DEFINE n == Level(e) - k
           b == PowerOfTwo[n - 1]
           x == [d \in Dims |-> e[2][d] \div b]
<1>1. n \in 1..LevelMax /\ n - 1 \in 0..LevelMax /\ Level(e) - (k + 1) = n - 1
      BY <1>0
<1>2. b \in Nat \ {0} /\ PowerOfTwo[n] = 2 * b
      BY <1>1, PowersDouble
<1>3. PowerOfTwo[1] = 2
  <2>1. 1 \in 1..LevelMax /\ 1 - 1 = 0
    <3> HIDE DEF n
    <3> QED BY <1>0, <1>1
  <2> QED BY <2>1, PowersDouble
<1>4. \A d \in Dims : /\ e[2][d] \div b \in Nat
                       /\ e[2][d] \div (2 * b) = (e[2][d] \div b) \div 2
  <2> SUFFICES ASSUME NEW d \in Dims
               PROVE  /\ e[2][d] \div b \in Nat
                      /\ e[2][d] \div (2 * b) = (e[2][d] \div b) \div 2
      OBVIOUS
  <2>1. e[2][d] \in Nat
        BY <1>0
  <2> HIDE DEF b
  <2> QED BY <1>2, <2>1, HalfOfQuotient
<1> HIDE DEF b
<1>5. Ancestor(e, k + 1) = <<k + 1, x>>
  <2>1. PowerOfTwo[Level(e) - (k + 1)] = b
        BY <1>0, <1>1 DEF b
  <2> QED BY <2>1 DEF Ancestor
<1>6. Ancestor(e, k) = <<k, [d \in Dims |-> e[2][d] \div (2 * b)]>>
  <2>1. PowerOfTwo[Level(e) - k] = 2 * b
        BY <1>0, <1>2
  <2> QED BY <2>1 DEF Ancestor
<1>7. [d \in Dims |-> e[2][d] \div (2 * b)] = [d \in Dims |-> x[d] \div 2]
      BY <1>4
<1>8. Father(<<k + 1, x>>) = <<k, [d \in Dims |-> x[d] \div 2]>>
  <2> HIDE DEF x
  <2>1. Level(<<k + 1, x>>) = k + 1 /\ (k + 1) - 1 = k /\ (k + 1) - k = 1
        BY DEF Level
  <2> QED BY <1>3, <2>1 DEF Father, Ancestor
<1> QED BY <1>5, <1>6, <1>7, <1>8

(* The children of an element have it for their father. *)
LEMMA FatherOfChild ==
    ASSUME NEW e \in Cells, Level(e) < LevelMax, NEW s \in Children(e)
    PROVE  s \in Cells /\ Level(s) = Level(e) + 1 /\ HasFather(s) /\ Father(s) = e
<1>1. PICK o \in [Dims -> {0, 1}] : s = <<Level(e) + 1, [d \in Dims |-> 2 * e[2][d] + o[d]]>>
      BY DEF Children
<1>2. s \in Cells /\ Level(s) = Level(e) + 1
      BY ChildCells
<1>3. LevelMax \in Nat /\ Level(e) \in 0..LevelMax /\ e[2] \in [Dims -> Nat]
      /\ e = <<Level(e), e[2]>>
      BY AdaptiveGridAssumption DEF Cells, Level
<1>4. PowerOfTwo[1] = 2
      BY <1>3, PowersDouble
<1>5. Father(s) = <<Level(e), [d \in Dims |-> s[2][d] \div 2]>>
  <2>1. Level(s) - 1 = Level(e) /\ Level(s) - (Level(s) - 1) = 1
        BY <1>2, <1>3
  <2> QED BY <1>4, <2>1 DEF Father, Ancestor
<1>6. \A d \in Dims : s[2][d] \div 2 = e[2][d]
  <2> SUFFICES ASSUME NEW d \in Dims PROVE s[2][d] \div 2 = e[2][d]
      OBVIOUS
  <2>1. s[2][d] = 2 * e[2][d] + o[d] /\ e[2][d] \in Nat /\ o[d] \in {0, 1}
        BY <1>1, <1>3
  <2>2. \A i \in Nat : \A j \in {0, 1} : (2 * i + j) \div 2 = i
        OBVIOUS
  <2> QED BY <2>1, <2>2
<1>7. [d \in Dims |-> s[2][d] \div 2] = e[2]
      BY <1>3, <1>6
<1> QED BY <1>2, <1>3, <1>5, <1>7 DEF HasFather

(* An element is one of the children of its father. *)
LEMMA ChildOfFather ==
    ASSUME NEW s \in Cells, HasFather(s)
    PROVE  s \in Children(Father(s))
<1> DEFINE l == Level(s)
           x == s[2]
           o == [d \in Dims |-> x[d] % 2]
           y == [d \in Dims |-> x[d] \div 2]
<1>1. l \in 1..LevelMax /\ x \in [Dims -> Nat] /\ s = <<l, x>> /\ LevelMax \in Nat
      BY AdaptiveGridAssumption DEF Cells, HasFather, Level
<1>2. PowerOfTwo[1] = 2
      BY <1>1, PowersDouble
<1>3. Father(s) = <<l - 1, y>>
  <2>1. Level(s) - (Level(s) - 1) = 1
        BY <1>1
  <2> QED BY <1>2, <2>1 DEF Father, Ancestor
<1>4. \A i \in Nat : i % 2 \in {0, 1} /\ 2 * (i \div 2) + (i % 2) = i
      OBVIOUS
<1> HIDE DEF l, x
<1>5. o \in [Dims -> {0, 1}]
      BY <1>1, <1>4
<1>6. [d \in Dims |-> 2 * y[d] + o[d]] = x
  <2>1. \A d \in Dims : 2 * y[d] + o[d] = x[d]
        BY <1>1, <1>4
  <2> HIDE DEF y, o
  <2> QED BY <1>1, <2>1
<1>7. Level(Father(s)) + 1 = l /\ Father(s)[2] = y
      BY <1>1, <1>3 DEF Level
<1> HIDE DEF y, o
<1> QED BY <1>1, <1>5, <1>6, <1>7 DEF Children

(* The ancestor of an ancestor is one of the element itself. *)
LEMMA AncestorOfAncestor ==
    ASSUME NEW e \in Cells, NEW k \in 0..Level(e), NEW j \in 0..k
    PROVE  Ancestor(Ancestor(e, k), j) = Ancestor(e, j)
<1> DEFINE a == Ancestor(e, k)
           Wrong == {n \in 0..k : Ancestor(a, k - n) # Ancestor(e, k - n)}
<1>0. Level(e) \in Nat /\ k \in Nat
      BY DEF Cells, Level
<1>1. a \in Cells /\ Level(a) = k /\ Ancestor(a, k) = a
  <2>1. Ancestor(e, k) \in Cells /\ Level(Ancestor(e, k)) = k
        BY AncestorCells
  <2>2. k \in 0..Level(Ancestor(e, k))
        BY <1>0, <2>1
  <2> QED BY <2>1, <2>2, AncestorCells
<1> HIDE DEF a
<1>2. Wrong = {}
  <2> SUFFICES ASSUME Wrong # {} PROVE FALSE
      OBVIOUS
  <2>1. Wrong \in SUBSET Nat
        OBVIOUS
  <2> HIDE DEF Wrong
  <2>2. PICK n \in Wrong : \A m \in Wrong : n <= m
        BY <2>1, Least
  <2>3. n \in 0..k /\ Ancestor(a, k - n) # Ancestor(e, k - n)
        BY <2>2 DEF Wrong
  <2>4. n # 0
        BY <1>0, <1>1, <2>3 DEF a
  <2>5. n - 1 \in 0..k /\ n - 1 \notin Wrong
        BY <1>0, <2>1, <2>2, <2>3, <2>4
  <2>6. Ancestor(a, k - (n - 1)) = Ancestor(e, k - (n - 1))
        BY <2>5 DEF Wrong
  <2>7. k - n \in Nat /\ k - n < Level(a) /\ k - n < Level(e) /\ k - (n - 1) = (k - n) + 1
        BY <1>0, <1>1, <2>3, <2>4
  <2> QED BY <1>1, <2>3, <2>6, <2>7, AncestorStep
<1>3. k - j \in 0..k /\ k - (k - j) = j
      BY <1>0
<1> QED BY <1>2, <1>3 DEF a

(* Elements that cover others. *)
LEMMA CoversItself ==
    ASSUME NEW e \in Cells
    PROVE  Covers(e, e) /\ Level(e) \in 0..LevelMax
<1>1. Level(e) \in 0..LevelMax
      BY DEF Cells, Level
<1>2. Level(e) \in 0..Level(e)
      BY <1>1
<1> QED BY <1>1, <1>2, AncestorCells DEF Covers

(* Covering is transitive. *)
LEMMA CoversTransitive ==
    ASSUME NEW a \in Cells, NEW b \in Cells, NEW e \in Cells, Covers(a, b), Covers(b, e)
    PROVE  Covers(a, e)
<1>1. /\ Level(a) \in Nat /\ Level(b) \in Nat /\ Level(e) \in Nat
      /\ Level(a) <= Level(b) /\ Level(b) <= Level(e)
      /\ Ancestor(b, Level(a)) = a /\ Ancestor(e, Level(b)) = b
      BY CoversItself DEF Covers
<1>2. Level(b) \in 0..Level(e) /\ Level(a) \in 0..Level(b)
      BY <1>1
<1> QED BY <1>1, <1>2, AncestorOfAncestor DEF Covers

(* Of two elements that cover a third one, the larger covers the other. *)
LEMMA CoversBetween ==
    ASSUME NEW a \in Cells, NEW b \in Cells, NEW e \in Cells, Covers(a, e), Covers(b, e),
           Level(a) <= Level(b)
    PROVE  Covers(a, b)
<1>1. /\ Level(a) \in Nat /\ Level(b) \in Nat /\ Level(e) \in Nat /\ Level(b) <= Level(e)
      /\ Ancestor(e, Level(a)) = a /\ Ancestor(e, Level(b)) = b
      BY CoversItself DEF Covers
<1>2. Level(b) \in 0..Level(e) /\ Level(a) \in 0..Level(b)
      BY <1>1
<1> QED BY <1>1, <1>2, AncestorOfAncestor DEF Covers

(* A father covers its children. *)
LEMMA FatherCovers ==
    ASSUME NEW s \in Cells, HasFather(s)
    PROVE  /\ Father(s) \in Cells /\ Level(Father(s)) = Level(s) - 1
           /\ Covers(Father(s), s)
<1>1. Father(s) \in Cells /\ Level(Father(s)) = Level(s) - 1
      BY FatherCells
<1>2. Level(s) \in Nat
      BY CoversItself
<1> QED BY <1>1, <1>2 DEF Covers, Father

(* An element covers no larger one, and none of its own size but itself. *)
LEMMA SameLevelCovers ==
    ASSUME NEW a \in Cells, NEW e \in Cells, Covers(a, e), Level(a) >= Level(e)
    PROVE  a = e
<1>1. Level(a) = Level(e) /\ Level(e) \in 0..Level(e)
      BY CoversItself DEF Covers
<1> QED BY <1>1, AncestorCells DEF Covers

(* What covers an element and is not the element covers its father. *)
LEMMA CoversFather ==
    ASSUME NEW a \in Cells, NEW e \in Cells, Covers(a, e), a # e
    PROVE  HasFather(e) /\ Covers(a, Father(e))
<1>1. Level(a) \in Nat /\ Level(e) \in Nat /\ Level(a) <= Level(e)
      BY CoversItself DEF Covers
<1>2. Level(a) < Level(e)
      BY <1>1, SameLevelCovers
<1>3. HasFather(e)
      BY <1>1, <1>2 DEF HasFather
<1>4. Father(e) \in Cells /\ Level(Father(e)) = Level(e) - 1 /\ Covers(Father(e), e)
      BY <1>3, FatherCovers
<1> QED BY <1>1, <1>2, <1>3, <1>4, CoversBetween

(* Some child of e covers what e covers strictly. *)
LEMMA ChildCovers ==
    ASSUME NEW a \in Cells, NEW e \in Cells, Covers(a, e), a # e
    PROVE  \E s \in Children(a) : s \in Cells /\ Covers(s, e)
<1>1. Level(a) \in Nat /\ Level(e) \in 0..LevelMax /\ Level(a) <= Level(e) /\ LevelMax \in Nat
      /\ Ancestor(e, Level(a)) = a
      BY CoversItself, AdaptiveGridAssumption DEF Covers
<1>2. Level(a) < Level(e)
      BY <1>1, SameLevelCovers
<1> DEFINE s == Ancestor(e, Level(a) + 1)
<1>3. Level(a) + 1 \in 0..Level(e)
      BY <1>1, <1>2
<1>4. s \in Cells /\ Level(s) = Level(a) + 1
      BY <1>3, AncestorCells
<1>5. Covers(s, e)
      BY <1>3, <1>4 DEF Covers
<1>6. Father(s) = a
      BY <1>1, <1>2, AncestorStep
<1> HIDE DEF s
<1>7. s \in Children(a)
      BY <1>1, <1>4, <1>6, ChildOfFather DEF HasFather
<1> QED BY <1>4, <1>5, <1>7

(* The hierarchy of some elements are the elements that cover them. *)
LEMMA HierarchyCovers ==
    ASSUME NEW L, L \subseteq Cells
    PROVE  /\ \A a : a \in Hierarchy(L) <=> \E e \in L : a \in Cells /\ Covers(a, e)
           /\ L \subseteq Hierarchy(L) /\ Hierarchy(L) \subseteq Cells
<1>1. ASSUME NEW a \in Hierarchy(L) PROVE \E e \in L : a \in Cells /\ Covers(a, e)
  <2>0. PICK e \in L : a \in {Ancestor(e, k) : k \in 0..Level(e)}
        BY DEF Hierarchy
  <2>1. PICK k \in 0..Level(e) : a = Ancestor(e, k)
        BY <2>0
  <2>2. e \in Cells /\ Level(e) \in Nat
        BY CoversItself
  <2>3. a \in Cells /\ Level(a) = k
        BY <2>1, <2>2, AncestorCells
  <2> QED BY <2>1, <2>2, <2>3 DEF Covers
<1>2. ASSUME NEW e \in L, NEW a \in Cells, Covers(a, e) PROVE a \in Hierarchy(L)
  <2>1. Level(a) \in 0..Level(e) /\ a = Ancestor(e, Level(a))
        BY <1>2, CoversItself DEF Covers
  <2> QED BY <2>1 DEF Hierarchy
<1>3. \A e \in L : e \in Cells /\ Covers(e, e)
      BY CoversItself
<1> QED BY <1>1, <1>2, <1>3
-----------------------------------------------------------------------------
(* Counting.  The image of a finite set is finite. *)
LEMMA FiniteImage ==
    ASSUME NEW f, IsFiniteSet(DOMAIN f)
    PROVE  IsFiniteSet({f[x] : x \in DOMAIN f})
<1> DEFINE R == {f[x] : x \in DOMAIN f}
           g == [x \in DOMAIN f |-> f[x]]
<1>1. g \in Surjection(DOMAIN f, R)
  <2>1. g \in [DOMAIN f -> R]
        OBVIOUS
  <2>2. \A t \in R : \E x \in DOMAIN f : g[x] = t
        OBVIOUS
  <2> HIDE DEF g, R
  <2> QED BY <2>1, <2>2 DEF Surjection
<1> HIDE DEF g, R
<1>2. IsFiniteSet(R)
      BY <1>1, FS_Surjection
<1> QED BY <1>2 DEF R

(* There are finitely many directions. *)
LEMMA DimsAreFinite ==
    /\ IsFiniteSet(Dims) /\ Dims = 1..Len(MacroCells)
    /\ Cardinality(Dims) = Len(MacroCells)
<1>1. MacroCells \in Seq(Nat \ {0})
      BY AdaptiveGridAssumption
<1>2. Len(MacroCells) \in Nat /\ Dims = 1..Len(MacroCells)
      BY <1>1 DEF Dims
<1>3. \A n \in Nat : IsFiniteSet(1..n) /\ Cardinality(1..n) = n
  <2> SUFFICES ASSUME NEW n \in Nat PROVE IsFiniteSet(1..n) /\ Cardinality(1..n) = n
      OBVIOUS
  <2> QED BY FS_Interval
<1> QED BY <1>2, <1>3

(* The children of an element: one for every set of directions in which    *)
(* they are the farther one.                                               *)
LEMMA ChildrenCount ==
    ASSUME NEW e \in Cells
    PROVE  IsFiniteSet(Children(e)) /\ Cardinality(Children(e)) = NumChildren
<1> DEFINE at(D) == <<Level(e) + 1, [d \in Dims |-> 2 * e[2][d] + IF d \in D THEN 1 ELSE 0]>>
           f == [D \in SUBSET Dims |-> at(D)]
<1>0. e[2] \in [Dims -> Nat]
      BY DEF Cells
<1>1. ASSUME NEW D \in SUBSET Dims PROVE at(D) \in Children(e)
  <2> DEFINE o == [d \in Dims |-> IF d \in D THEN 1 ELSE 0]
  <2>1. o \in [Dims -> {0, 1}]
        OBVIOUS
  <2>2. at(D) = <<Level(e) + 1, [d \in Dims |-> 2 * e[2][d] + o[d]]>>
        OBVIOUS
  <2> HIDE DEF o, at
  <2> QED BY <2>1, <2>2 DEF Children
<1>2. ASSUME NEW s \in Children(e) PROVE \E D \in SUBSET Dims : at(D) = s
  <2>1. PICK o \in [Dims -> {0, 1}] : s = <<Level(e) + 1, [d \in Dims |-> 2 * e[2][d] + o[d]]>>
        BY DEF Children
  <2> DEFINE D == {d \in Dims : o[d] = 1}
  <2>2. \A d \in Dims : o[d] = IF d \in D THEN 1 ELSE 0
        OBVIOUS
  <2> HIDE DEF D
  <2>3. at(D) = s
        BY <2>1, <2>2
  <2> QED BY <2>3 DEF D
<1>3. ASSUME NEW D \in SUBSET Dims, NEW E \in SUBSET Dims, at(D) = at(E) PROVE D = E
  <2>1. ASSUME NEW d \in Dims PROVE d \in D <=> d \in E
    <3>1. 2 * e[2][d] + (IF d \in D THEN 1 ELSE 0) = 2 * e[2][d] + (IF d \in E THEN 1 ELSE 0)
      <4>1. at(D)[2][d] = at(E)[2][d]
            BY <1>3
      <4> QED BY <4>1
    <3>2. e[2][d] \in Nat
          BY <1>0
    <3>3. CASE d \in D
          BY <3>1, <3>2, <3>3
    <3>4. CASE d \notin D
          BY <3>1, <3>2, <3>4
    <3> QED BY <3>3, <3>4
  <2> QED BY <2>1
<1> HIDE DEF at
<1>4. f \in Surjection(SUBSET Dims, Children(e)) /\ f \in Injection(SUBSET Dims, Children(e))
  <2>1. f \in [SUBSET Dims -> Children(e)]
        BY <1>1
  <2>2. \A s \in Children(e) : \E D \in SUBSET Dims : f[D] = s
        BY <1>2
  <2>3. \A D, E \in SUBSET Dims : f[D] = f[E] => D = E
        BY <1>3
  <2> HIDE DEF f
  <2>4. f \in Surjection(SUBSET Dims, Children(e))
        BY <2>1, <2>2, Zenon DEF Surjection
  <2>5. f \in Injection(SUBSET Dims, Children(e))
    <3>1. DOMAIN f = SUBSET Dims
          BY <2>1
    <3> QED BY <2>1, <2>3, <3>1, Zenon DEF Injection, IsInjective
  <2> QED BY <2>4, <2>5
<1>5. IsFiniteSet(SUBSET Dims) /\ Cardinality(SUBSET Dims) = 2^Len(MacroCells)
      BY DimsAreFinite, FS_SUBSET
<1> HIDE DEF f
<1>6. IsFiniteSet(Children(e)) /\ Cardinality(Children(e)) = Cardinality(SUBSET Dims)
      BY <1>4, <1>5, FS_Surjection
<1> QED BY <1>5, <1>6 DEF NumChildren

(* An element has children at all. *)
LEMMA SeveralChildren == NumChildren \in Nat \ {0}
<1>1. IsFiniteSet(SUBSET Dims) /\ Cardinality(SUBSET Dims) = NumChildren
      BY DimsAreFinite, FS_SUBSET DEF NumChildren
<1>2. {} \in SUBSET Dims
      OBVIOUS
<1> QED BY <1>1, <1>2, FS_CardinalityType, FS_EmptySet

(* The recursive function Descendants exists, and multiplies level by      *)
(* level.                                                                  *)
LEMMA DescendantsMultiply ==
    /\ \A n \in 0..LevelMax : Descendants[n] \in Nat \ {0}
    /\ Descendants[0] = 1
    /\ \A n \in 1..LevelMax : Descendants[n] = NumChildren * Descendants[n - 1]
<1>0. LevelMax \in Nat /\ NumChildren \in Nat \ {0}
      BY AdaptiveGridAssumption, SeveralChildren
<1>1. \A n \in 0..LevelMax : Descendants[n] = IF n = 0 THEN 1 ELSE NumChildren * Descendants[n - 1]
  <2>1. Descendants = [n \in 0..LevelMax |-> IF n = 0 THEN 1 ELSE NumChildren * Descendants[n - 1]]
    <3>1. \E f : f = [n \in 0..LevelMax |-> IF n = 0 THEN 1 ELSE NumChildren * f[n - 1]]
          BY <1>0, PowersExist
    <3> QED BY <3>1, Zenon DEF Descendants
  <2> QED BY <2>1
<1> DEFINE Wrong == {n \in 0..LevelMax : Descendants[n] \notin Nat \ {0}}
<1>2. ASSUME Wrong # {} PROVE FALSE
  <2>0. Wrong \in SUBSET Nat
        BY <1>0
  <2> HIDE DEF Wrong
  <2>1. PICK n \in Wrong : \A m \in Wrong : n <= m
        BY <1>2, <2>0, Least
  <2>2. n \in 0..LevelMax /\ Descendants[n] \notin Nat \ {0}
        BY <2>1 DEF Wrong
  <2>3. n # 0
        BY <1>1, <2>2
  <2>4. n - 1 \notin Wrong /\ n - 1 \in 0..LevelMax
        BY <1>0, <2>0, <2>1, <2>2, <2>3
  <2>5. Descendants[n - 1] \in Nat \ {0}
        BY <2>4 DEF Wrong
  <2>6. Descendants[n] = NumChildren * Descendants[n - 1]
        BY <1>1, <2>2, <2>3
  <2>7. \A a, b \in Nat \ {0} : a * b \in Nat \ {0}
        OBVIOUS
  <2> QED BY <1>0, <2>2, <2>5, <2>6, <2>7
<1> QED BY <1>0, <1>1, <1>2

(* A father is as large as its children together. *)
LEMMA VolumeOfFather ==
    ASSUME NEW e \in Cells, Level(e) < LevelMax, NEW s \in Children(e)
    PROVE  /\ Volume(e) = NumChildren * Volume(s)
           /\ Volume(e) \in Nat \ {0} /\ Volume(s) \in Nat \ {0}
<1>1. LevelMax \in Nat /\ Level(e) \in 0..LevelMax /\ Level(s) = Level(e) + 1
      BY AdaptiveGridAssumption, CoversItself, FatherOfChild
<1>2. /\ LevelMax - Level(e) \in 1..LevelMax /\ LevelMax - Level(s) \in 0..LevelMax
      /\ (LevelMax - Level(e)) - 1 = LevelMax - Level(s)
      BY <1>1
<1>3. LevelMax - Level(e) \in 0..LevelMax
      BY <1>1
<1> QED BY <1>2, <1>3, DescendantsMultiply DEF Volume

(* Volumes are positive. *)
LEMMA VolumeIsNat ==
    ASSUME NEW e \in Cells
    PROVE  Volume(e) \in Nat \ {0}
<1>1. LevelMax \in Nat /\ Level(e) \in 0..LevelMax
      BY AdaptiveGridAssumption, CoversItself
<1>2. LevelMax - Level(e) \in 0..LevelMax
      BY <1>1
<1> QED BY <1>2, DescendantsMultiply DEF Volume

(* Multiples of the number of descendants: v is divisible k times by the   *)
(* number of children.                                                     *)
Divisible(k, v) == \E m \in Int : v = Descendants[k] * m

(* What can be divided often can be divided less often. *)
LEMMA DivisibleLess ==
    ASSUME NEW k \in 0..LevelMax, NEW j \in 0..k, NEW v, Divisible(k, v)
    PROVE  Divisible(j, v)
<1>0. LevelMax \in Nat /\ k \in Nat /\ NumChildren \in Nat
      BY AdaptiveGridAssumption, SeveralChildren
<1> DEFINE Wrong == {n \in 0..k : ~Divisible(k - n, v)}
<1>1. Wrong = {}
  <2> SUFFICES ASSUME Wrong # {} PROVE FALSE
      OBVIOUS
  <2>1. Wrong \in SUBSET Nat
        OBVIOUS
  <2> HIDE DEF Wrong
  <2>2. PICK n \in Wrong : \A m \in Wrong : n <= m
        BY <2>1, Least
  <2>3. n \in 0..k /\ ~Divisible(k - n, v)
        BY <2>2 DEF Wrong
  <2>4. n # 0
    <3>1. k - 0 = k
          BY <1>0
    <3> QED BY <2>3, <3>1
  <2>5. n - 1 \in 0..k /\ n - 1 \notin Wrong
        BY <1>0, <2>1, <2>2, <2>3, <2>4
  <2> DEFINE i == k - n
  <2>6. k - (n - 1) = i + 1 /\ i \in 0..LevelMax /\ i + 1 \in 1..LevelMax /\ (i + 1) - 1 = i
        BY <1>0, <2>3, <2>4
  <2>7. PICK m \in Int : v = Descendants[i + 1] * m
        BY <2>5, <2>6 DEF Wrong, Divisible
  <2> HIDE DEF i
  <2>8. Descendants[i + 1] = NumChildren * Descendants[i] /\ Descendants[i] \in Int
        BY <2>6, DescendantsMultiply
  <2>9. \A a, b, c \in Int : (a * b) * c = b * (a * c) /\ a * c \in Int
        OBVIOUS
  <2>10. v = Descendants[i] * (NumChildren * m) /\ NumChildren * m \in Int
        BY <1>0, <2>7, <2>8, <2>9
  <2> QED BY <2>3, <2>10 DEF Divisible, i
<1>2. k - j \in 0..k /\ k - (k - j) = j
      BY <1>0
<1> QED BY <1>1, <1>2
-----------------------------------------------------------------------------
(* The leaves of a grid are finitely many and do not cover each other. *)
IsGrid(L) ==
    /\ L \subseteq Cells /\ IsFiniteSet(L)
    /\ \A a, e \in L : Covers(a, e) => a = e

(* An element of M is one of L, or one of the children of one, or has its  *)
(* children in L.                                                          *)
OneLevel(L, M) ==
    \A e \in M : \/ e \in L
                 \/ HasFather(e) /\ Father(e) \in L /\ Children(Father(e)) \subseteq M
                 \/ Level(e) < LevelMax /\ Children(e) \subseteq L

(* The value that the transfer from the leaves of v gives to e. *)
Moved(v, e) ==
    IF e \in DOMAIN v THEN v[e]
    ELSE IF HasFather(e) /\ Father(e) \in DOMAIN v THEN v[Father(e)]
    ELSE SumFunctionOnSet(v, Children(e)) \div NumChildren

(* All leaves in a hold the same. *)
Even(v, a) == \A x, y \in DOMAIN v : Covers(a, x) /\ Covers(a, y) => v[x] = v[y]

(* The means are exact: a value can be divided as often as it may have to  *)
(* be until the leaves around it hold the same.                            *)
Exact(v) ==
    \A e \in DOMAIN v : \A k \in 1..Level(e) :
        Even(v, Ancestor(e, k - 1)) \/ Divisible(k, v[e])

(* Multiples divide without a remainder. *)
LEMMA ExactQuotient ==
    ASSUME NEW n \in Nat \ {0}, NEW m \in Int
    PROVE  (n * m) \div n = m
OBVIOUS

(* Equal multiples are multiples of equals. *)
LEMMA Cancels ==
    ASSUME NEW n \in Nat \ {0}, NEW a \in Int, NEW b \in Int, n * a = n * b
    PROVE  a = b
<1>1. (n * a) \div n = a /\ (n * b) \div n = b
      BY ExactQuotient
<1> QED BY <1>1

(* The mean over the children of an element is exact, and it is the value  *)
(* of each of them where these are alike.                                  *)
LEMMA MeanIsExact ==
    ASSUME NEW v, NEW e \in Cells, Level(e) < LevelMax, Children(e) \subseteq DOMAIN v,
           \A s \in Children(e) : v[s] \in Int, Exact(v)
    PROVE  \E m \in Int :
              /\ SumFunctionOnSet(v, Children(e)) = NumChildren * m
              /\ Even(v, e) => \A s \in Children(e) : v[s] = m
              /\ ~Even(v, e) => Divisible(Level(e), m)
<1>0. /\ LevelMax \in Nat /\ Level(e) \in 0..LevelMax /\ NumChildren \in Nat \ {0}
      /\ IsFiniteSet(Children(e)) /\ Cardinality(Children(e)) = NumChildren
      /\ \A s \in Children(e) : s \in Cells /\ HasFather(s) /\ Father(s) = e /\ Level(s) = Level(e) + 1
      BY AdaptiveGridAssumption, CoversItself, SeveralChildren, ChildrenCount, FatherOfChild
<1>1. CASE Even(v, e)
  <2>1. PICK s \in Children(e) : TRUE
        BY SomeChild
  <2>2. \A t \in Children(e) : Covers(e, t)
        BY <1>0, FatherCovers
  <2>3. \A t \in Children(e) : v[t] = v[s]
        BY <1>1, <2>1, <2>2 DEF Even
  <2> DEFINE one == [t \in Children(e) |-> 1]
  <2>4. SumFunctionOnSet(one, Children(e)) = NumChildren
        BY <1>0, SumOfOnes
  <2>5. \A t \in Children(e) : one[t] \in Int /\ v[t] = v[s] * one[t]
    <3> SUFFICES ASSUME NEW t \in Children(e) PROVE one[t] \in Int /\ v[t] = v[s] * one[t]
        OBVIOUS
    <3>1. v[t] = v[s] /\ v[s] \in Int /\ one[t] = 1
          BY <2>1, <2>3
    <3>2. \A i \in Int : i * 1 = i
          OBVIOUS
    <3> HIDE DEF one
    <3> QED BY <3>1, <3>2
  <2> HIDE DEF one
  <2>6. SumFunctionOnSet(v, Children(e)) = v[s] * NumChildren /\ v[s] \in Int
        BY <1>0, <2>1, <2>4, <2>5, SumOfMultiples
  <2>7. \A i, j \in Int : i * j = j * i
        OBVIOUS
  <2>8. SumFunctionOnSet(v, Children(e)) = NumChildren * v[s]
        BY <1>0, <2>6, <2>7
  <2> QED BY <1>1, <2>3, <2>6, <2>8
<1>2. CASE ~Even(v, e)
  <2> DEFINE l == Level(e) + 1
             part == [s \in Children(e) |-> CHOOSE m \in Int : v[s] = Descendants[l] * m]
  <2>1. ASSUME NEW s \in Children(e) PROVE part[s] \in Int /\ v[s] = Descendants[l] * part[s]
    <3>1. l \in 1..Level(s) /\ l - 1 = Level(s) - 1
          BY <1>0
    <3>2. Ancestor(s, l - 1) = e
          BY <1>0, <3>1 DEF Father
    <3>3. Divisible(l, v[s])
          BY <1>2, <3>1, <3>2 DEF Exact
    <3> QED BY <3>3 DEF Divisible
  <2>2. l \in 1..LevelMax /\ l - 1 = Level(e) /\ l \in 0..LevelMax /\ Level(e) \in 0..LevelMax
        BY <1>0
  <2> HIDE DEF l, part
  <2>3. Descendants[l] = NumChildren * Descendants[Level(e)] /\ Descendants[Level(e)] \in Int
        /\ Descendants[l] \in Int
        BY <2>2, DescendantsMultiply
  <2> DEFINE m == SumFunctionOnSet(part, Children(e))
  <2>4. m \in Int /\ SumFunctionOnSet(v, Children(e)) = Descendants[l] * m
        BY <1>0, <2>1, <2>3, SumIsInt, SumOfMultiples
  <2> HIDE DEF m
  <2>5. \A a, b, c \in Int : (a * b) * c = a * (b * c) /\ b * c \in Int
        OBVIOUS
  <2>6. SumFunctionOnSet(v, Children(e)) = NumChildren * (Descendants[Level(e)] * m)
        /\ Descendants[Level(e)] * m \in Int
        BY <1>0, <2>3, <2>4, <2>5
  <2>7. Divisible(Level(e), Descendants[Level(e)] * m)
        BY <2>4 DEF Divisible
  <2> QED BY <1>2, <2>6, <2>7
<1> QED BY <1>1, <1>2

(* What the children hold in the units of the smallest elements. *)
LEMMA AmountOfChildren ==
    ASSUME NEW e \in Cells, Level(e) < LevelMax, NEW v, NEW f, NEW m \in Int,
           \A s \in Children(e) : v[s] \in Int /\ f[s] = Volume(s) * v[s],
           SumFunctionOnSet(v, Children(e)) = NumChildren * m
    PROVE  SumFunctionOnSet(f, Children(e)) = Volume(e) * m
<1>1. PICK s \in Children(e) : TRUE
      BY SomeChild
<1>2. \A t \in Children(e) : Volume(t) = Volume(s)
  <2> SUFFICES ASSUME NEW t \in Children(e) PROVE Volume(t) = Volume(s)
      OBVIOUS
  <2>1. Level(t) = Level(s)
        BY <1>1, FatherOfChild
  <2> QED BY <2>1 DEF Volume
<1>3. Volume(e) = NumChildren * Volume(s) /\ Volume(s) \in Int
      BY <1>1, VolumeOfFather
<1>4. IsFiniteSet(Children(e)) /\ NumChildren \in Int
      BY ChildrenCount, SeveralChildren
<1>5. SumFunctionOnSet(f, Children(e)) = Volume(s) * SumFunctionOnSet(v, Children(e))
      BY <1>2, <1>3, <1>4, SumOfMultiples
<1>6. \A a, b, c \in Int : a * (b * c) = (b * a) * c
      OBVIOUS
<1> QED BY <1>3, <1>4, <1>5, <1>6

(* The sum over one element. *)
LEMMA AmountOfOne ==
    ASSUME NEW f, NEW b, f[b] \in Int
    PROVE  SumFunctionOnSet(f, {b}) = f[b]
<1>1. IsFiniteSet({b}) /\ IsFiniteSet({})
      BY FS_Singleton, FS_EmptySet
<1>2. SumFunctionOnSet(f, {b}) = f[b] + SumFunctionOnSet(f, {b} \ {b})
      BY <1>1, SumTakesOut
<1>3. {b} \ {b} = {}
      OBVIOUS
<1>4. SumFunctionOnSet(f, {}) = 0
      BY <1>1, SumOfSet
<1> QED BY <1>2, <1>3, <1>4

(* No leaf lies above another one. *)
LEMMA NeverAbove ==
    ASSUME NEW L, IsGrid(L), NEW e \in L, HasFather(e)
    PROVE  Father(e) \notin L
<1>1. e \in Cells
      BY DEF IsGrid
<1>2. /\ Father(e) \in Cells /\ Level(Father(e)) = Level(e) - 1 /\ Covers(Father(e), e)
      /\ Level(e) \in Int
      BY <1>1, FatherCovers, CoversItself
<1>3. Father(e) # e
      BY <1>2
<1> QED BY <1>2, <1>3 DEF IsGrid

(* The larger elements of two grids that a step of adaption leads from one *)
(* to the other: U is the union of both.                                   *)
Top(U, e) == IF HasFather(e) /\ Father(e) \in U THEN Father(e) ELSE e

(* The larger element is one of the two grids, and is its own. *)
LEMMA TopOfTop ==
    ASSUME NEW L, NEW M, IsGrid(L), IsGrid(M), NEW e \in L \cup M
    PROVE  /\ Top(L \cup M, e) \in L \cup M
           /\ Top(L \cup M, Top(L \cup M, e)) = Top(L \cup M, e)
<1> DEFINE U == L \cup M
           b == Top(U, e)
           c == Father(b)
<1>0. U \subseteq Cells
      BY DEF IsGrid
<1>1. b \in U
      BY DEF Top
<1>2. ASSUME HasFather(b), c \in U, HasFather(e), b = Father(e) PROVE FALSE
  <2>0. b \in Cells /\ e \in Cells /\ c \in Cells
        BY <1>0, <1>1, <1>2
  <2> HIDE DEF b
  <2>1. /\ Level(c) = Level(b) - 1 /\ Covers(c, b) /\ Level(b) = Level(e) - 1 /\ Covers(b, e)
        /\ Level(e) \in Int /\ Level(b) \in Int
        BY <2>0, <1>2, FatherCovers, CoversItself
  <2>2. Covers(c, e)
        BY <2>0, <2>1, CoversTransitive
  <2>3. c # b /\ c # e /\ b # e
        BY <2>1
  <2>4. \A x, y \in L : Covers(x, y) => x = y
        BY DEF IsGrid
  <2>5. \A x, y \in M : Covers(x, y) => x = y
        BY DEF IsGrid
  <2> HIDE DEF c
  <2> QED BY <1>1, <1>2, <2>1, <2>2, <2>3, <2>4, <2>5
<1>3. CASE b = e
      BY <1>1, <1>3 DEF Top
<1>4. CASE b # e
  <2>1. HasFather(e) /\ b = Father(e)
        BY <1>4 DEF Top
  <2>2. ~(HasFather(b) /\ c \in U)
        BY <1>2, <2>1
  <2> HIDE DEF b
  <2>3. Top(U, b) = b
        BY <2>2 DEF Top
  <2> QED BY <1>1, <2>3 DEF b
<1> QED BY <1>3, <1>4

(* Below a larger element a grid has that element alone, or its children. *)
LEMMA BelowTop ==
    ASSUME NEW L, NEW M, IsGrid(L), IsGrid(M), OneLevel(L, M),
           NEW b \in L \cup M, Top(L \cup M, b) = b
    PROVE  /\ b \in L => {e \in L : Top(L \cup M, e) = b} = {b}
           /\ b \notin L => /\ b \in M /\ Level(b) < LevelMax /\ Children(b) \subseteq L
                            /\ {e \in L : Top(L \cup M, e) = b} = Children(b)
<1> DEFINE U == L \cup M
<1>0. L \subseteq Cells /\ b \in Cells
      BY DEF IsGrid
<1>1. ~(HasFather(b) /\ Father(b) \in U)
  <2> SUFFICES ASSUME HasFather(b), Father(b) \in U PROVE FALSE
      OBVIOUS
  <2>1. Father(b) = b
        BY DEF Top
  <2>2. Level(Father(b)) = Level(b) - 1 /\ Level(b) \in Int
        BY <1>0, FatherCovers, CoversItself
  <2> QED BY <2>1, <2>2
<1>2. CASE b \in L
  <2>1. ASSUME NEW e \in L, Top(U, e) = b PROVE e = b
    <3>1. CASE HasFather(e) /\ Father(e) \in U
      <4>1. Father(e) = b
            BY <2>1, <3>1 DEF Top
      <4> QED BY <1>2, <3>1, <4>1, NeverAbove
    <3>2. CASE ~(HasFather(e) /\ Father(e) \in U)
          BY <2>1, <3>2 DEF Top
    <3> QED BY <3>1, <3>2
  <2> QED BY <1>2, <2>1
<1>3. CASE b \notin L
  <2>1. b \in M
        BY <1>3
  <2>2. Level(b) < LevelMax /\ Children(b) \subseteq L
        BY <1>1, <1>3, <2>1 DEF OneLevel
  <2>3. ASSUME NEW e \in L, Top(U, e) = b PROVE e \in Children(b)
    <3>1. HasFather(e) /\ Father(e) = b
          BY <1>3, <2>3 DEF Top
    <3> QED BY <1>0, <3>1, ChildOfFather
  <2>4. ASSUME NEW s \in Children(b) PROVE s \in L /\ Top(U, s) = b
    <3>1. HasFather(s) /\ Father(s) = b
          BY <1>0, <2>2, FatherOfChild
    <3> QED BY <2>1, <2>2, <3>1 DEF Top
  <2>5. {e \in L : Top(U, e) = b} = Children(b)
        BY <2>3, <2>4
  <2> QED BY <1>3, <2>1, <2>2, <2>5
<1> QED BY <1>2, <1>3

(* An element of the hierarchy of one grid covers an element of the other  *)
(* if and only if it covers the larger one of both grids.                  *)
LEMMA CoversTop ==
    ASSUME NEW L, NEW M, IsGrid(L), IsGrid(M), NEW a \in Hierarchy(M), NEW e \in L
    PROVE  Covers(a, e) <=> Covers(a, Top(L \cup M, e))
<1> DEFINE U == L \cup M
<1>0. L \subseteq Cells /\ M \subseteq Cells /\ e \in Cells
      BY DEF IsGrid
<1>1. a \in Cells /\ \E x \in M : Covers(a, x)
      BY <1>0, HierarchyCovers
<1>2. CASE HasFather(e) /\ Father(e) \in U
  <2> DEFINE b == Father(e)
  <2>1. Top(U, e) = b
        BY <1>2 DEF Top
  <2>2. b \in Cells /\ Level(b) = Level(e) - 1 /\ Covers(b, e) /\ Level(e) \in Int
        BY <1>0, <1>2, FatherCovers, CoversItself
  <2>3. b \in M
        BY <1>2, NeverAbove
  <2>4. ASSUME Covers(a, e), a = e PROVE FALSE
    <3>1. PICK x \in M : Covers(e, x)
          BY <1>1, <2>4
    <3>2. Covers(b, x) /\ x \in Cells
          BY <1>0, <2>2, <3>1, CoversTransitive
    <3>3. b = x
          BY <2>3, <3>1, <3>2 DEF IsGrid
    <3>4. Level(e) <= Level(b)
          BY <3>1, <3>3 DEF Covers
    <3> QED BY <2>2, <3>4
  <2> HIDE DEF b
  <2>5. Covers(a, e) => Covers(a, b)
        BY <1>0, <1>1, <2>4, CoversFather DEF b
  <2>6. Covers(a, b) => Covers(a, e)
        BY <1>0, <1>1, <2>2, CoversTransitive
  <2> QED BY <2>1, <2>5, <2>6
<1>3. CASE ~(HasFather(e) /\ Father(e) \in U)
      BY <1>3 DEF Top
<1> QED BY <1>2, <1>3

(* What elements hold, by element. *)
Held(v) == [e \in DOMAIN v |-> Volume(e) * v[e]]

(* What an element holds is a number. *)
LEMMA HeldIsInt ==
    ASSUME NEW v, DOMAIN v \subseteq Cells, \A e \in DOMAIN v : v[e] \in Int
    PROVE  \A e \in DOMAIN v : Held(v)[e] \in Int /\ Held(v)[e] = Volume(e) * v[e]
<1> SUFFICES ASSUME NEW e \in DOMAIN v
             PROVE  Held(v)[e] \in Int /\ Held(v)[e] = Volume(e) * v[e]
    OBVIOUS
<1>1. Volume(e) \in Int /\ v[e] \in Int
      BY VolumeIsNat
<1>2. \A i, j \in Int : i * j \in Int
      OBVIOUS
<1> QED BY <1>1, <1>2 DEF Held

(* The three ways in which the transfer gives a value: an element that     *)
(* stays keeps its own, a child gets its father's, a father gets the mean  *)
(* of its children.                                                        *)
LEMMA MovedValues ==
    ASSUME NEW v, NEW M, IsGrid(DOMAIN v), IsGrid(M), OneLevel(DOMAIN v, M),
           \A e \in DOMAIN v : v[e] \in Int, Exact(v), NEW e \in M
    PROVE  /\ Moved(v, e) \in Int
           /\ e \in DOMAIN v => Moved(v, e) = v[e]
           /\ HasFather(e) /\ Father(e) \in DOMAIN v => Moved(v, e) = v[Father(e)]
           /\ e \notin DOMAIN v /\ ~(HasFather(e) /\ Father(e) \in DOMAIN v) =>
                 /\ Level(e) < LevelMax /\ Children(e) \subseteq DOMAIN v
                 /\ SumFunctionOnSet(v, Children(e)) = NumChildren * Moved(v, e)
                 /\ Even(v, e) => \A s \in Children(e) : v[s] = Moved(v, e)
                 /\ ~Even(v, e) => Divisible(Level(e), Moved(v, e))
<1>1. e \in Cells
      BY DEF IsGrid
<1>2. CASE e \in DOMAIN v
  <2>1. HasFather(e) => Father(e) \notin DOMAIN v
        BY <1>2, NeverAbove
  <2> QED BY <1>2, <2>1 DEF Moved
<1>3. CASE e \notin DOMAIN v /\ HasFather(e) /\ Father(e) \in DOMAIN v
      BY <1>3 DEF Moved
<1>4. CASE e \notin DOMAIN v /\ ~(HasFather(e) /\ Father(e) \in DOMAIN v)
  <2>1. Level(e) < LevelMax /\ Children(e) \subseteq DOMAIN v
        BY <1>4 DEF OneLevel
  <2>2. \A s \in Children(e) : v[s] \in Int
        BY <2>1
  <2>3. PICK m \in Int :
              /\ SumFunctionOnSet(v, Children(e)) = NumChildren * m
              /\ Even(v, e) => \A s \in Children(e) : v[s] = m
              /\ ~Even(v, e) => Divisible(Level(e), m)
        BY <1>1, <2>1, <2>2, MeanIsExact
  <2>4. Moved(v, e) = m
        BY <1>4, <2>3, SeveralChildren, ExactQuotient DEF Moved
  <2> QED BY <1>4, <2>1, <2>3, <2>4
<1> QED BY <1>2, <1>3, <1>4
-----------------------------------------------------------------------------
(* The sum of one value. *)
LEMMA SumOfSame ==
    ASSUME NEW S, IsFiniteSet(S), NEW c \in Int, NEW f, \A x \in S : f[x] = c
    PROVE  SumFunctionOnSet(f, S) = Cardinality(S) * c
<1> DEFINE one == [x \in S |-> 1]
<1>1. SumFunctionOnSet(one, S) = Cardinality(S)
      BY SumOfOnes
<1>2. \A x \in S : one[x] \in Int /\ f[x] = c * one[x]
  <2> SUFFICES ASSUME NEW x \in S PROVE one[x] \in Int /\ f[x] = c * one[x]
      OBVIOUS
  <2>1. f[x] = c /\ one[x] = 1
        OBVIOUS
  <2>2. \A i \in Int : i * 1 = i
        OBVIOUS
  <2> HIDE DEF one
  <2> QED BY <2>1, <2>2
<1> HIDE DEF one
<1>3. SumFunctionOnSet(f, S) = c * Cardinality(S)
      BY <1>1, <1>2, SumOfMultiples
<1>4. Cardinality(S) \in Int
      BY FS_CardinalityType
<1>5. \A i, j \in Int : i * j = j * i
      OBVIOUS
<1> QED BY <1>3, <1>4, <1>5

(* w is what the transfer makes of v. *)
IsMoved(v, w) ==
    /\ IsGrid(DOMAIN v) /\ IsGrid(DOMAIN w)
    /\ OneLevel(DOMAIN v, DOMAIN w) /\ OneLevel(DOMAIN w, DOMAIN v)
    /\ \A e \in DOMAIN v : v[e] \in Int
    /\ Exact(v)
    /\ \A e \in DOMAIN w : w[e] = Moved(v, e)

(* The larger elements inside a, and the elements of a grid under one. *)
Tops(U, a) == {b \in U : Top(U, b) = b /\ Covers(a, b)}
Under(L, U, b) == {e \in L : Top(U, e) = b}

(* Below every larger element the amount is the same. *)
LEMMA BlockAmount ==
    ASSUME NEW v, NEW w, IsMoved(v, w),
           NEW b \in DOMAIN v \cup DOMAIN w, Top(DOMAIN v \cup DOMAIN w, b) = b
    PROVE  SumFunctionOnSet(Held(v), Under(DOMAIN v, DOMAIN v \cup DOMAIN w, b))
         = SumFunctionOnSet(Held(w), Under(DOMAIN w, DOMAIN v \cup DOMAIN w, b))
<1> DEFINE L == DOMAIN v
           M == DOMAIN w
           U == L \cup M
           inL == Under(L, U, b)
           inM == Under(M, U, b)
<1>0. /\ IsGrid(L) /\ IsGrid(M) /\ OneLevel(L, M) /\ OneLevel(M, L) /\ Exact(v)
      /\ \A e \in L : v[e] \in Int
      /\ L \subseteq Cells /\ M \subseteq Cells /\ b \in Cells
      BY DEF IsMoved, IsGrid
<1>1. \A e \in M : w[e] = Moved(v, e) /\ w[e] \in Int
      BY <1>0, MovedValues DEF IsMoved
<1>2. /\ \A e \in L : Held(v)[e] \in Int /\ Held(v)[e] = Volume(e) * v[e]
      /\ \A e \in M : Held(w)[e] \in Int /\ Held(w)[e] = Volume(e) * w[e]
      BY <1>0, <1>1, HeldIsInt
<1>3. /\ b \in L => inL = {b}
      /\ b \notin L => /\ b \in M /\ Level(b) < LevelMax /\ Children(b) \subseteq L
                       /\ inL = Children(b)
      BY <1>0, BelowTop DEF Under
<1>4. /\ b \in M => inM = {b}
      /\ b \notin M => /\ b \in L /\ Level(b) < LevelMax /\ Children(b) \subseteq M
                       /\ inM = Children(b)
  <2>1. M \cup L = U
        OBVIOUS
  <2>2. Top(M \cup L, b) = b /\ b \in M \cup L
        BY <2>1
  <2> HIDE DEF U
  <2> QED BY <1>0, <2>1, <2>2, BelowTop DEF Under
<1> SUFFICES SumFunctionOnSet(Held(v), inL) = SumFunctionOnSet(Held(w), inM)
    OBVIOUS
<1> HIDE DEF inL, inM, U
<1>5. b \in L => SumFunctionOnSet(Held(v), inL) = Volume(b) * v[b]
      BY <1>2, <1>3, AmountOfOne
<1>6. b \in M => SumFunctionOnSet(Held(w), inM) = Volume(b) * w[b]
      BY <1>2, <1>4, AmountOfOne
<1>7. CASE b \in L /\ b \in M
  <2>1. w[b] = v[b]
        BY <1>0, <1>1, <1>7, MovedValues
  <2> QED BY <1>5, <1>6, <1>7, <2>1
<1>8. CASE b \in L /\ b \notin M
  <2>1. \A s \in Children(b) : s \in M /\ HasFather(s) /\ Father(s) = b
        BY <1>0, <1>4, <1>8, FatherOfChild
  <2>2. \A s \in Children(b) : w[s] = v[b]
        BY <1>0, <1>1, <1>8, <2>1, MovedValues
  <2>3. SumFunctionOnSet(w, Children(b)) = NumChildren * v[b]
        BY <1>0, <1>8, <2>2, ChildrenCount, SumOfSame
  <2>4. SumFunctionOnSet(Held(w), Children(b)) = Volume(b) * v[b]
        BY <1>0, <1>1, <1>2, <1>4, <1>8, <2>1, <2>3, AmountOfChildren
  <2> QED BY <1>4, <1>5, <1>8, <2>4
<1>9. CASE b \notin L
  <2>1. ~(HasFather(b) /\ Father(b) \in L)
    <3> SUFFICES ASSUME HasFather(b), Father(b) \in L PROVE FALSE
        OBVIOUS
    <3>1. Father(b) = b
          BY DEF Top, U
    <3> QED BY <1>9, <3>1
  <2>2. b \in M /\ SumFunctionOnSet(v, Children(b)) = NumChildren * w[b] /\ w[b] \in Int
        BY <1>0, <1>1, <1>3, <1>9, <2>1, MovedValues
  <2>3. SumFunctionOnSet(Held(v), Children(b)) = Volume(b) * w[b]
        BY <1>0, <1>2, <1>3, <1>9, <2>2, AmountOfChildren
  <2> QED BY <1>3, <1>6, <1>9, <2>2, <2>3
<1> QED BY <1>3, <1>7, <1>8, <1>9

(* The amounts in groups by larger elements. *)
Blocks(f, L, h, G, U) ==
    /\ \A e \in L : f[e] \in Int
    /\ \A b \in G : h[b] = SumFunctionOnSet(f, Under(L, U, b))

(* The amount in an element is the sum over the larger elements that it    *)
(* covers.                                                                 *)
LEMMA AmountInGroups ==
    ASSUME NEW L, NEW M, IsGrid(L), IsGrid(M), NEW a \in Hierarchy(M),
           NEW f, NEW h, Blocks(f, L, h, Tops(L \cup M, a), L \cup M)
    PROVE  SumFunctionOnSet(f, {e \in L : Covers(a, e)}) = SumFunctionOnSet(h, Tops(L \cup M, a))
<1> DEFINE U == L \cup M
           S == {e \in L : Covers(a, e)}
           G == Tops(U, a)
           g == [e \in L |-> Top(U, e)]
<1>1. IsFiniteSet(L) /\ IsFiniteSet(U)
      BY FS_Union DEF IsGrid
<1>2. IsFiniteSet(S) /\ IsFiniteSet(G)
  <2>1. S \subseteq L /\ G \subseteq U
        BY DEF Tops
  <2> HIDE DEF S, G, U
  <2> QED BY <1>1, <2>1, FS_Subset
<1>3. \A e \in L : /\ Covers(a, e) <=> Covers(a, Top(U, e))
                   /\ Top(U, e) \in U /\ Top(U, Top(U, e)) = Top(U, e)
      BY CoversTop, TopOfTop
<1>4. (\A e \in S : g[e] \in G) /\ (\A e \in S : f[e] \in Int)
      BY <1>3 DEF Tops, Blocks
<1>5. \A b \in G : {e \in S : g[e] = b} = Under(L, U, b)
  <2> SUFFICES ASSUME NEW b \in G PROVE {e \in S : g[e] = b} = Under(L, U, b)
      OBVIOUS
  <2>1. Covers(a, b)
        BY DEF Tops
  <2> HIDE DEF G, U
  <2>2. \A e : e \in {x \in S : g[x] = b} <=> e \in Under(L, U, b)
        BY <1>3, <2>1 DEF Under
  <2> QED BY <2>2
<1>6. \A b \in G : h[b] = SumFunctionOnSet(f, {e \in S : g[e] = b})
  <2>1. \A b \in G : h[b] = SumFunctionOnSet(f, Under(L, U, b))
        BY DEF Blocks
  <2> HIDE DEF S, G, U, g
  <2> SUFFICES ASSUME NEW b \in G PROVE h[b] = SumFunctionOnSet(f, {e \in S : g[e] = b})
      OBVIOUS
  <2> QED BY <1>5, <2>1, Zenon
<1> HIDE DEF S, G, U, g
<1>7. Grouped(f, S, g, G, h)
      BY <1>4, <1>6 DEF Grouped
<1>8. SumFunctionOnSet(f, S) = SumFunctionOnSet(h, G)
      BY <1>2, <1>7, SumInGroups
<1> QED BY <1>8 DEF S, G, U

(* The transfer changes the amount in no element of both grids. *)
LEMMA MovedAmounts ==
    ASSUME NEW v, NEW w, IsMoved(v, w)
    PROVE  SameAmounts(v, w)
<1> DEFINE L == DOMAIN v
           M == DOMAIN w
           U == L \cup M
<1>0. /\ IsGrid(L) /\ IsGrid(M) /\ OneLevel(L, M) /\ Exact(v) /\ \A e \in L : v[e] \in Int
      /\ L \subseteq Cells /\ M \subseteq Cells
      BY DEF IsMoved, IsGrid
<1>1. \A e \in M : w[e] \in Int
      BY <1>0, MovedValues DEF IsMoved
<1>2. /\ \A e \in L : Held(v)[e] \in Int
      /\ \A e \in M : Held(w)[e] \in Int
      BY <1>0, <1>1, HeldIsInt
<1> SUFFICES ASSUME NEW a \in Hierarchy(L) \cap Hierarchy(M)
             PROVE  Amount(v, a) = Amount(w, a)
    BY DEF SameAmounts
<1> DEFINE h == [b \in Tops(U, a) |-> SumFunctionOnSet(Held(v), Under(L, U, b))]
<1>3. \A b \in Tops(U, a) : h[b] = SumFunctionOnSet(Held(v), Under(L, U, b))
      OBVIOUS
<1> HIDE DEF h
<1>4. \A b \in Tops(U, a) : h[b] = SumFunctionOnSet(Held(w), Under(M, U, b))
  <2> SUFFICES ASSUME NEW b \in Tops(U, a)
               PROVE  h[b] = SumFunctionOnSet(Held(w), Under(M, U, b))
      OBVIOUS
  <2>1. b \in U /\ Top(U, b) = b
        BY DEF Tops
  <2> QED BY <1>3, <2>1, BlockAmount
<1>5. SumFunctionOnSet(Held(v), {e \in L : Covers(a, e)}) = SumFunctionOnSet(h, Tops(U, a))
  <2>1. Blocks(Held(v), L, h, Tops(U, a), U)
        BY <1>2, <1>3 DEF Blocks
  <2> QED BY <1>0, <2>1, AmountInGroups
<1>6. SumFunctionOnSet(Held(w), {e \in M : Covers(a, e)}) = SumFunctionOnSet(h, Tops(U, a))
  <2>1. M \cup L = U
        OBVIOUS
  <2>2. \A b \in Tops(M \cup L, a) : h[b] = SumFunctionOnSet(Held(w), Under(M, M \cup L, b))
        BY <1>4, <2>1
  <2>3. SumFunctionOnSet(Held(w), {e \in M : Covers(a, e)}) = SumFunctionOnSet(h, Tops(M \cup L, a))
    <3>1. Blocks(Held(w), M, h, Tops(M \cup L, a), M \cup L)
          BY <1>2, <2>2 DEF Blocks
    <3> QED BY <1>0, <3>1, AmountInGroups
  <2> QED BY <2>1, <2>3
<1> QED BY <1>5, <1>6 DEF Amount, Held

(* Where the leaves held the same they do so after the transfer. *)
LEMMA EvenMoved ==
    ASSUME NEW v, NEW w, IsMoved(v, w), NEW a \in Cells, Even(v, a)
    PROVE  Even(w, a)
<1> DEFINE L == DOMAIN v
           M == DOMAIN w
<1>0. /\ IsGrid(L) /\ IsGrid(M) /\ OneLevel(L, M) /\ Exact(v) /\ \A e \in L : v[e] \in Int
      /\ L \subseteq Cells /\ M \subseteq Cells
      /\ \A e \in M : w[e] = Moved(v, e)
      BY DEF IsMoved, IsGrid
<1>1. CASE a \in M
  <2>1. \A x \in M : Covers(a, x) => a = x
        BY <1>0, <1>1 DEF IsGrid
  <2> QED BY <2>1 DEF Even
<1>2. CASE a \notin M
  <2>1. ASSUME NEW x \in M, Covers(a, x) PROVE \E y \in L : Covers(a, y) /\ w[x] = v[y]
    <3>0. x \in Cells
          BY <1>0
    <3>1. CASE x \in L
      <4>1. w[x] = v[x]
            BY <1>0, <3>1, MovedValues
      <4> QED BY <2>1, <3>1, <4>1
    <3>2. CASE HasFather(x) /\ Father(x) \in L
      <4>1. w[x] = v[Father(x)]
            BY <1>0, <3>2, MovedValues
      <4>2. Covers(a, Father(x))
            BY <1>2, <2>1, <3>0, CoversFather
      <4> QED BY <3>2, <4>1, <4>2
    <3>3. CASE x \notin L /\ ~(HasFather(x) /\ Father(x) \in L)
      <4>1. /\ Level(x) < LevelMax /\ Children(x) \subseteq L
            /\ Even(v, x) => \A s \in Children(x) : v[s] = w[x]
            BY <1>0, <3>3, MovedValues
      <4>2. Even(v, x)
        <5> SUFFICES ASSUME NEW y \in L, NEW z \in L, Covers(x, y), Covers(x, z)
                     PROVE  v[y] = v[z]
            BY DEF Even
        <5>1. Covers(a, y) /\ Covers(a, z)
              BY <1>0, <2>1, <3>0, CoversTransitive
        <5> QED BY <5>1 DEF Even
      <4>3. PICK s \in Children(x) : TRUE
            BY SomeChild
      <4>4. s \in Cells /\ HasFather(s) /\ Father(s) = x
            BY <3>0, <4>1, <4>3, FatherOfChild
      <4>5. Covers(x, s)
            BY <4>4, FatherCovers
      <4>6. Covers(a, s)
            BY <2>1, <3>0, <4>4, <4>5, CoversTransitive
      <4> QED BY <4>1, <4>2, <4>3, <4>6
    <3> QED BY <3>1, <3>2, <3>3
  <2> SUFFICES ASSUME NEW x \in M, NEW z \in M, Covers(a, x), Covers(a, z) PROVE w[x] = w[z]
      BY DEF Even
  <2>2. PICK y \in L : Covers(a, y) /\ w[x] = v[y]
        BY <2>1
  <2>3. PICK u \in L : Covers(a, u) /\ w[z] = v[u]
        BY <2>1
  <2> QED BY <2>2, <2>3 DEF Even
<1> QED BY <1>1, <1>2

(* The leaves of a refined element hold what it held. *)
LEMMA EvenBelow ==
    ASSUME NEW v, NEW w, IsMoved(v, w), NEW r \in DOMAIN v, r \notin DOMAIN w
    PROVE  Even(w, r)
<1> DEFINE L == DOMAIN v
           M == DOMAIN w
<1>0. /\ IsGrid(L) /\ IsGrid(M) /\ OneLevel(L, M) /\ Exact(v) /\ \A e \in L : v[e] \in Int
      /\ L \subseteq Cells /\ M \subseteq Cells /\ r \in Cells
      /\ \A e \in M : w[e] = Moved(v, e)
      /\ \A x \in L : Covers(r, x) => r = x
      BY DEF IsMoved, IsGrid
<1>1. ASSUME NEW x \in M, Covers(r, x) PROVE w[x] = v[r]
  <2>0. x \in Cells /\ x # r
        BY <1>0
  <2>1. x \notin L
        BY <1>0, <1>1, <2>0
  <2>2. HasFather(x) /\ Covers(r, Father(x)) /\ Father(x) \in Cells
        BY <1>0, <1>1, <2>0, CoversFather, FatherCovers
  <2>3. CASE Father(x) \in L
    <3>1. Father(x) = r
          BY <1>0, <2>2, <2>3
    <3> QED BY <1>0, <2>2, <2>3, <3>1, MovedValues
  <2>4. CASE Father(x) \notin L
    <3>1. Level(x) < LevelMax /\ Children(x) \subseteq L
          BY <1>0, <2>1, <2>4, MovedValues
    <3>2. PICK s \in Children(x) : TRUE
          BY SomeChild
    <3>3. s \in Cells /\ HasFather(s) /\ Father(s) = x /\ Level(s) = Level(x) + 1
          BY <2>0, <3>1, <3>2, FatherOfChild
    <3>4. Covers(r, s)
          BY <1>0, <1>1, <2>0, <3>3, FatherCovers, CoversTransitive
    <3>5. r = s
          BY <1>0, <3>1, <3>2, <3>4
    <3>6. Level(r) <= Level(x) /\ Level(x) \in Int
          BY <1>1, <2>0, CoversItself DEF Covers
    <3> QED BY <3>3, <3>5, <3>6
  <2> QED BY <2>3, <2>4
<1> QED BY <1>1 DEF Even

(* Means remain exact. *)
LEMMA ExactMoved ==
    ASSUME NEW v, NEW w, IsMoved(v, w)
    PROVE  Exact(w) /\ \A e \in DOMAIN w : w[e] \in Int
<1> DEFINE L == DOMAIN v
           M == DOMAIN w
<1>0. /\ IsGrid(L) /\ IsGrid(M) /\ OneLevel(L, M) /\ Exact(v) /\ \A e \in L : v[e] \in Int
      /\ L \subseteq Cells /\ M \subseteq Cells
      /\ \A e \in M : w[e] = Moved(v, e)
      BY DEF IsMoved, IsGrid
<1>1. \A e \in M : w[e] \in Int
      BY <1>0, MovedValues
<1>2. ASSUME NEW e \in M, NEW k \in 1..Level(e)
      PROVE  Even(w, Ancestor(e, k - 1)) \/ Divisible(k, w[e])
  <2> DEFINE a == Ancestor(e, k - 1)
  <2>0. /\ e \in Cells /\ Level(e) \in 0..LevelMax /\ LevelMax \in Nat
        /\ k - 1 \in 0..Level(e) /\ k - 1 \in Nat /\ k \in 0..LevelMax
    <3>1. e \in Cells /\ Level(e) \in 0..LevelMax /\ LevelMax \in Nat
          BY <1>0, CoversItself, AdaptiveGridAssumption
    <3> QED BY <3>1
  <2>1. a \in Cells
        BY <2>0, AncestorCells
  <2>2. Even(v, a) => Even(w, a)
        BY <2>1, EvenMoved
  <2>3. CASE e \in L
    <3>1. w[e] = v[e]
          BY <1>0, <2>3, MovedValues
    <3>2. Even(v, a) \/ Divisible(k, v[e])
          BY <1>0, <2>3 DEF Exact
    <3> QED BY <2>2, <3>1, <3>2
  <2>4. CASE HasFather(e) /\ Father(e) \in L
    <3> DEFINE r == Father(e)
    <3>1. w[e] = v[r] /\ r \in L
          BY <1>0, <2>4, MovedValues
    <3>2. r \in Cells /\ Level(r) = Level(e) - 1 /\ Covers(r, e) /\ Level(e) - 1 \in 0..Level(e)
          BY <2>0, <2>4, FatherCovers DEF HasFather
    <3>3. CASE k = Level(e)
      <4>1. r \notin M
            BY <1>0, <2>4, NeverAbove
      <4>2. a = r
            BY <3>3 DEF Father
      <4> QED BY <3>1, <4>1, <4>2, EvenBelow
    <3>4. CASE k # Level(e)
      <4>1. k \in 1..Level(r) /\ k - 1 \in 0..Level(e) - 1
            BY <2>0, <3>2, <3>4
      <4>2. a = Ancestor(r, k - 1)
            BY <2>0, <3>2, <4>1, AncestorOfAncestor DEF Father
      <4>3. Even(v, a) \/ Divisible(k, v[r])
            BY <1>0, <3>1, <4>1, <4>2 DEF Exact
      <4> QED BY <2>2, <3>1, <4>3
    <3> QED BY <3>3, <3>4
  <2>5. CASE e \notin L /\ ~(HasFather(e) /\ Father(e) \in L)
    <3>1. /\ Level(e) < LevelMax /\ Children(e) \subseteq L
          /\ Even(v, e) => \A s \in Children(e) : v[s] = w[e]
          /\ ~Even(v, e) => Divisible(Level(e), w[e])
          BY <1>0, <2>5, MovedValues
    <3>2. CASE Even(v, e)
      <4>1. PICK s \in Children(e) : TRUE
            BY SomeChild
      <4>2. s \in Cells /\ HasFather(s) /\ Father(s) = e /\ Level(s) = Level(e) + 1 /\ s \in L
            BY <2>0, <3>1, <4>1, FatherOfChild
      <4>3. /\ Level(s) - 1 \in 0..Level(s) /\ k - 1 \in 0..Level(s) - 1 /\ k \in 1..Level(s)
            BY <2>0, <4>2
      <4>4. a = Ancestor(s, k - 1)
            BY <4>2, <4>3, AncestorOfAncestor DEF Father
      <4>5. Even(v, a) \/ Divisible(k, v[s])
            BY <1>0, <4>2, <4>3, <4>4 DEF Exact
      <4> QED BY <2>2, <3>1, <3>2, <4>1, <4>5
    <3>3. CASE ~Even(v, e)
      <4>1. k \in 0..Level(e)
            BY <2>0
      <4> QED BY <2>0, <3>1, <3>3, <4>1, DivisibleLess
    <3> QED BY <3>2, <3>3
  <2> QED BY <2>3, <2>4, <2>5
<1> QED BY <1>1, <1>2 DEF Exact
-----------------------------------------------------------------------------
(* The leaves that a step of the grid removes, and what it leaves behind. *)
Removed(e) ==
    /\ e \in leaves /\ HasFather(e)
    /\ \A s \in Children(Father(e)) : s \in leaves /\ marks[s] = -1
Stays(e) == Kept(e) /\ ~Removed(e)

(* The leaves after a step of the grid. *)
LEMMA LeavesAfter ==
    ASSUME GridAdapts
    PROVE  /\ \A e : e \in leaves' <=> Stays(e) \/ Refined(e) \/ (\E s : Removed(s) /\ e = Father(s))
           /\ \A e : e \in isNew' <=> Refined(e)
           /\ leaves' = (leaves \ ({e \in leaves : marks[e] = 1} \cup {e \in leaves : Removed(e)}))
                          \cup (UNION {Children(e) : e \in {f \in leaves : marks[f] = 1}})
                          \cup {Father(e) : e \in {f \in leaves : Removed(f)}}
<1> DEFINE refined == {c \in leaves : marks[c] = 1}
           removed == {c \in leaves : HasFather(c) /\
                          \A s \in Children(Father(c)) : s \in leaves /\ marks[s] = -1}
           created == UNION {Children(c) : c \in refined}
<1>1. /\ leaves' = (leaves \ (refined \cup removed)) \cup created \cup {Father(c) : c \in removed}
      /\ isNew' = created
      BY DEF GridAdapts
<1>2. \A e : e \in removed <=> Removed(e)
      BY DEF Removed
<1>3. \A e : e \in created <=> Refined(e)
      BY DEF Refined
<1>4. removed = {e \in leaves : Removed(e)}
      BY DEF Removed
<1>5. \A e : Stays(e) <=> e \in leaves \ (refined \cup removed)
      BY <1>2 DEF Stays, Kept
<1>6. \A e : e \in {Father(c) : c \in removed} <=> \E s : Removed(s) /\ e = Father(s)
      BY <1>2
<1>7. leaves' = (leaves \ (refined \cup {e \in leaves : Removed(e)})) \cup created
                   \cup {Father(c) : c \in {f \in leaves : Removed(f)}}
      BY <1>1, <1>4
<1>8. \A e : e \in leaves' <=> Stays(e) \/ Refined(e) \/ (\E s : Removed(s) /\ e = Father(s))
  <2> HIDE DEF refined, removed, created
  <2> QED BY <1>1, <1>3, <1>5, <1>6
<1>9. \A e : e \in isNew' <=> Refined(e)
  <2> HIDE DEF created
  <2> QED BY <1>1, <1>3
<1> QED BY <1>7, <1>8, <1>9

(* A step leaves finitely many leaves. *)
LEMMA AdaptedIsFinite ==
    ASSUME GridAdapts, IsGrid(leaves)
    PROVE  IsFiniteSet(leaves')
<1> DEFINE refined == {f \in leaves : marks[f] = 1}
           removed == {f \in leaves : Removed(f)}
           stay == leaves \ (refined \cup removed)
           families == {Children(e) : e \in refined}
           fathers == {Father(e) : e \in removed}
<1>0. leaves \subseteq Cells /\ IsFiniteSet(leaves)
      BY DEF IsGrid
<1>1. IsFiniteSet(stay) /\ IsFiniteSet(refined) /\ IsFiniteSet(removed)
  <2>1. stay \subseteq leaves /\ refined \subseteq leaves /\ removed \subseteq leaves
        OBVIOUS
  <2> HIDE DEF stay, refined, removed
  <2> QED BY <1>0, <2>1, FS_Subset
<1>2. IsFiniteSet(families)
  <2> DEFINE f == [e \in refined |-> Children(e)]
  <2>1. DOMAIN f = refined /\ families = {f[x] : x \in DOMAIN f}
        OBVIOUS
  <2> HIDE DEF f, families, refined
  <2> QED BY <1>1, <2>1, FiniteImage
<1>3. IsFiniteSet(fathers)
  <2> DEFINE f == [e \in removed |-> Father(e)]
  <2>1. DOMAIN f = removed /\ fathers = {f[x] : x \in DOMAIN f}
        OBVIOUS
  <2> HIDE DEF f, fathers, removed
  <2> QED BY <1>1, <2>1, FiniteImage
<1>4. \A T \in families : IsFiniteSet(T)
  <2> SUFFICES ASSUME NEW e \in refined PROVE IsFiniteSet(Children(e))
      OBVIOUS
  <2>1. e \in Cells
        BY <1>0
  <2> QED BY <2>1, ChildrenCount
<1>5. leaves' = stay \cup (UNION families) \cup fathers
      BY LeavesAfter
<1> HIDE DEF stay, families, fathers
<1>6. IsFiniteSet(UNION families)
      BY <1>2, <1>4, FS_UNION
<1> QED BY <1>1, <1>3, <1>5, <1>6, FS_Union

(* What a step of the grid leads to, when only elements below the highest  *)
(* level are refined.                                                      *)
LEMMA AdaptedElements ==
    ASSUME GridAdapts, IsGrid(leaves), \A e \in leaves : marks[e] = 1 => Level(e) < LevelMax
    PROVE  /\ leaves' \subseteq Cells
           /\ \A e \in leaves' :
                 \/ Stays(e) /\ e \in leaves /\ marks[e] # 1
                 \/ /\ HasFather(e) /\ Father(e) \in leaves /\ marks[Father(e)] = 1
                    /\ Level(e) = Level(Father(e)) + 1 /\ Covers(Father(e), e)
                    /\ Children(Father(e)) \subseteq leaves'
                 \/ /\ Level(e) < LevelMax
                    /\ \A s \in Children(e) : Removed(s) /\ s \in leaves /\ marks[s] = -1
           /\ \A s : Removed(s) => s \in leaves /\ HasFather(s) /\ Father(s) \in leaves'
                                   /\ Children(Father(s)) \subseteq leaves
           /\ \A e \in leaves : \/ e \in leaves' \/ Removed(e)
                                \/ Level(e) < LevelMax /\ Children(e) \subseteq leaves'
<1>0. leaves \subseteq Cells
      BY DEF IsGrid
<1>1. ASSUME NEW e, Refined(e)
      PROVE  /\ HasFather(e) /\ Father(e) \in leaves /\ marks[Father(e)] = 1 /\ e \in Cells
             /\ Level(e) = Level(Father(e)) + 1 /\ Covers(Father(e), e)
             /\ Children(Father(e)) \subseteq leaves'
  <2>1. PICK f \in leaves : marks[f] = 1 /\ e \in Children(f)
        BY <1>1 DEF Refined
  <2>2. f \in Cells /\ Level(f) < LevelMax
        BY <1>0, <2>1
  <2>3. e \in Cells /\ Level(e) = Level(f) + 1 /\ HasFather(e) /\ Father(e) = f
        BY <2>1, <2>2, FatherOfChild
  <2>4. \A s \in Children(f) : Refined(s)
        BY <2>1 DEF Refined
  <2> QED BY <2>1, <2>3, <2>4, FatherCovers, LeavesAfter
<1>2. ASSUME NEW s, Removed(s)
      PROVE  /\ s \in leaves /\ HasFather(s) /\ Father(s) \in leaves'
             /\ Children(Father(s)) \subseteq leaves
             /\ Father(s) \in Cells /\ Level(Father(s)) < LevelMax
             /\ \A t \in Children(Father(s)) : Removed(t) /\ t \in leaves /\ marks[t] = -1
  <2>1. s \in leaves /\ HasFather(s) /\ \A t \in Children(Father(s)) : t \in leaves /\ marks[t] = -1
        BY <1>2 DEF Removed
  <2>2. Father(s) \in leaves'
        BY <1>2, LeavesAfter
  <2>3. s \in Cells /\ LevelMax \in Nat /\ Level(s) \in 0..LevelMax
        BY <1>0, <2>1, CoversItself, AdaptiveGridAssumption
  <2>4. Father(s) \in Cells /\ Level(Father(s)) = Level(s) - 1
        BY <2>1, <2>3, FatherCovers
  <2>5. Level(Father(s)) < LevelMax
        BY <2>3, <2>4
  <2>6. ASSUME NEW t \in Children(Father(s)) PROVE Removed(t)
    <3>1. HasFather(t) /\ Father(t) = Father(s)
          BY <2>4, <2>5, FatherOfChild
    <3> QED BY <2>1, <3>1 DEF Removed
  <2> QED BY <2>1, <2>2, <2>4, <2>5, <2>6
<1>3. ASSUME NEW e, Stays(e) PROVE e \in leaves /\ marks[e] # 1
      BY <1>3 DEF Stays, Kept
<1>4. ASSUME NEW e \in leaves
      PROVE  e \in leaves' \/ Removed(e) \/ (Level(e) < LevelMax /\ Children(e) \subseteq leaves')
  <2>1. CASE marks[e] = 1
    <3>1. \A s \in Children(e) : Refined(s)
          BY <2>1 DEF Refined
    <3> QED BY <2>1, <3>1, LeavesAfter
  <2>2. CASE marks[e] # 1 /\ ~Removed(e)
    <3>1. Stays(e)
          BY <2>2 DEF Stays, Kept
    <3> QED BY <3>1, LeavesAfter
  <2> QED BY <2>1, <2>2
<1>5. ASSUME NEW e \in leaves'
      PROVE  /\ e \in Cells
             /\ \/ Stays(e) /\ e \in leaves /\ marks[e] # 1
                \/ /\ HasFather(e) /\ Father(e) \in leaves /\ marks[Father(e)] = 1
                   /\ Level(e) = Level(Father(e)) + 1 /\ Covers(Father(e), e)
                   /\ Children(Father(e)) \subseteq leaves'
                \/ /\ Level(e) < LevelMax
                   /\ \A s \in Children(e) : Removed(s) /\ s \in leaves /\ marks[s] = -1
  <2>1. CASE Stays(e)
        BY <1>0, <1>3, <2>1
  <2>2. CASE Refined(e)
        BY <1>1, <2>2
  <2>3. ASSUME NEW s, Removed(s), e = Father(s)
        PROVE  /\ e \in Cells /\ Level(e) < LevelMax
               /\ \A t \in Children(e) : Removed(t) /\ t \in leaves /\ marks[t] = -1
        BY <1>2, <2>3
  <2> QED BY <2>1, <2>2, <2>3, LeavesAfter
<1> QED BY <1>2, <1>4, <1>5

(* A step of the grid leads from leaves to leaves that differ by one level, *)
(* and what is new has its father among the old ones.                       *)
LEMMA AdaptedGrid ==
    ASSUME GridAdapts, IsGrid(leaves), \A e \in leaves : marks[e] = 1 => Level(e) < LevelMax
    PROVE  /\ IsGrid(leaves') /\ OneLevel(leaves, leaves') /\ OneLevel(leaves', leaves)
           /\ \A e \in leaves' : e \in isNew' <=> HasFather(e) /\ Father(e) \in leaves
<1> DEFINE IsChild(e) == /\ HasFather(e) /\ Father(e) \in leaves /\ marks[Father(e)] = 1
                         /\ Level(e) = Level(Father(e)) + 1 /\ Covers(Father(e), e)
                         /\ Children(Father(e)) \subseteq leaves'
           IsFather(e) == /\ Level(e) < LevelMax
                          /\ \A s \in Children(e) : Removed(s) /\ s \in leaves /\ marks[s] = -1
<1>0. /\ leaves \subseteq Cells /\ leaves' \subseteq Cells /\ IsFiniteSet(leaves')
      /\ \A x, y \in leaves : Covers(x, y) => x = y
      /\ LevelMax \in Nat
      BY AdaptedElements, AdaptedIsFinite, AdaptiveGridAssumption DEF IsGrid
<1>1. \A e \in leaves' : (Stays(e) /\ e \in leaves /\ marks[e] # 1) \/ IsChild(e) \/ IsFather(e)
      BY AdaptedElements
<1>2. /\ \A s : Removed(s) => /\ s \in leaves /\ HasFather(s) /\ Father(s) \in leaves'
                              /\ Children(Father(s)) \subseteq leaves
      /\ \A e \in leaves : \/ e \in leaves' \/ Removed(e)
                           \/ Level(e) < LevelMax /\ Children(e) \subseteq leaves'
      BY AdaptedElements
<1> HIDE DEF IsChild, IsFather
<1>3. ASSUME NEW x \in leaves', NEW y \in leaves', Covers(x, y) PROVE x = y
  <2> SUFFICES ASSUME x # y PROVE FALSE
      OBVIOUS
  <2>0. /\ x \in Cells /\ y \in Cells /\ Level(x) \in Nat /\ Level(y) \in Nat
        /\ Level(x) <= Level(y)
        BY <1>0, <1>3, CoversItself DEF Covers
  <2>1. HasFather(y) /\ Covers(x, Father(y)) /\ Father(y) \in Cells
        BY <1>3, <2>0, CoversFather, FatherCovers
  \* Whatever leaf z lies where y is: none can be covered by x.
  <2>2. ASSUME NEW z \in leaves, Covers(x, z), Level(z) <= Level(y), Stays(z) \/ marks[z] = 1
        PROVE  x = z /\ Stays(x)
    <3>0. z \in Cells /\ Level(z) \in Nat
          BY <1>0, CoversItself
    <3>1. CASE Stays(x) /\ x \in leaves
          BY <1>0, <2>2, <3>1
    <3>2. CASE IsChild(x)
      <4>1. /\ Father(x) \in leaves /\ Level(x) = Level(Father(x)) + 1 /\ Covers(Father(x), x)
            BY <3>2 DEF IsChild
      <4>2. Covers(Father(x), z) /\ Father(x) \in Cells
            BY <1>0, <2>0, <2>2, <3>0, <4>1, CoversTransitive
      <4>3. Father(x) = z
            BY <1>0, <4>1, <4>2
      <4>4. Level(x) <= Level(z)
            BY <2>2 DEF Covers
      <4> QED BY <3>0, <4>1, <4>3, <4>4
    <3>3. CASE IsFather(x)
      <4>1. /\ Level(x) < LevelMax
            /\ \A s \in Children(x) : Removed(s) /\ s \in leaves /\ marks[s] = -1
            BY <3>3 DEF IsFather
      <4>2. CASE x = z
        <5>1. PICK s \in Children(x) : TRUE
              BY SomeChild
        <5>2. s \in leaves /\ HasFather(s) /\ Father(s) = x
              BY <2>0, <4>1, <5>1, FatherOfChild
        <5> QED BY <4>2, <5>2, NeverAbove
      <4>3. CASE x # z
        <5>1. PICK s \in Children(x) : s \in Cells /\ Covers(s, z)
              BY <2>0, <2>2, <3>0, <4>3, ChildCovers
        <5>2. s = z /\ Removed(z) /\ marks[z] = -1
              BY <1>0, <4>1, <5>1
        <5> QED BY <2>2, <5>2 DEF Stays
      <4> QED BY <4>2, <4>3
    <3> QED BY <1>1, <3>1, <3>2, <3>3
  <2>3. CASE Stays(y) /\ y \in leaves
        BY <1>3, <2>0, <2>2, <2>3
  <2>4. CASE IsChild(y)
    <3>1. Father(y) \in leaves /\ marks[Father(y)] = 1 /\ Level(Father(y)) <= Level(y)
          BY <2>0, <2>1, <2>4, CoversItself DEF IsChild
    <3>2. x = Father(y) /\ Stays(x)
          BY <2>1, <2>2, <3>1
    <3> QED BY <3>1, <3>2 DEF Stays, Kept
  <2>5. CASE IsFather(y)
    <3>1. PICK s \in Children(y) : TRUE
          BY SomeChild
    <3>2. s \in leaves /\ s \in Cells /\ Level(s) = Level(y) + 1 /\ HasFather(s) /\ Father(s) = y
          BY <2>0, <2>5, <3>1, FatherOfChild DEF IsFather
    <3>3. Covers(x, s)
          BY <1>3, <2>0, <3>2, FatherCovers, CoversTransitive
    <3>4. CASE x \in leaves
      <4>1. x = s
            BY <1>0, <3>2, <3>3, <3>4
      <4> QED BY <2>0, <3>2, <4>1
    <3>5. CASE IsChild(x)
      <4>1. /\ Father(x) \in leaves /\ Level(x) = Level(Father(x)) + 1 /\ Covers(Father(x), x)
            BY <3>5 DEF IsChild
      <4>2. Father(x) \in Cells /\ Level(Father(x)) \in Nat
            BY <1>0, <4>1, CoversItself
      <4>3. Father(x) = s
            BY <1>0, <2>0, <3>2, <3>3, <4>1, <4>2, CoversTransitive
      <4> QED BY <2>0, <3>2, <4>1, <4>2, <4>3
    <3>6. CASE IsFather(x)
      <4>1. PICK t \in Children(x) : t \in Cells /\ Covers(t, y)
            BY <1>3, <2>0, ChildCovers
      <4>2. t \in leaves
            BY <3>6, <4>1 DEF IsFather
      <4>3. Covers(t, s)
            BY <2>0, <3>2, <4>1, FatherCovers, CoversTransitive
      <4>4. t = s
            BY <1>0, <3>2, <4>2, <4>3
      <4>5. Level(t) <= Level(y)
            BY <4>1 DEF Covers
      <4> QED BY <2>0, <3>2, <4>4, <4>5
    <3> QED BY <1>1, <3>4, <3>5, <3>6
  <2> QED BY <1>1, <2>3, <2>4, <2>5
<1>4. OneLevel(leaves, leaves')
  <2> SUFFICES ASSUME NEW e \in leaves'
               PROVE  \/ e \in leaves
                      \/ HasFather(e) /\ Father(e) \in leaves /\ Children(Father(e)) \subseteq leaves'
                      \/ Level(e) < LevelMax /\ Children(e) \subseteq leaves
      BY DEF OneLevel
  <2> QED BY <1>1 DEF IsChild, IsFather
<1>5. OneLevel(leaves', leaves)
  <2> SUFFICES ASSUME NEW e \in leaves
               PROVE  \/ e \in leaves'
                      \/ HasFather(e) /\ Father(e) \in leaves' /\ Children(Father(e)) \subseteq leaves
                      \/ Level(e) < LevelMax /\ Children(e) \subseteq leaves'
      BY DEF OneLevel
  <2> QED BY <1>2
<1>6. ASSUME NEW e \in leaves' PROVE e \in isNew' <=> HasFather(e) /\ Father(e) \in leaves
  <2>0. e \in Cells
        BY <1>0
  <2>1. ASSUME e \in isNew' PROVE HasFather(e) /\ Father(e) \in leaves
    <3>1. PICK f \in leaves : marks[f] = 1 /\ e \in Children(f)
          BY <2>1, LeavesAfter DEF Refined
    <3>2. HasFather(e) /\ Father(e) = f
          BY <1>0, <3>1, FatherOfChild
    <3> QED BY <3>2
  <2>2. ASSUME HasFather(e), Father(e) \in leaves PROVE e \in isNew'
    <3>1. CASE e \in leaves
          BY <2>2, <3>1, NeverAbove
    <3>2. CASE IsChild(e)
      <4>1. e \in Children(Father(e)) /\ marks[Father(e)] = 1
            BY <2>0, <2>2, <3>2, ChildOfFather DEF IsChild
      <4> QED BY <2>2, <4>1, LeavesAfter DEF Refined
    <3>3. CASE IsFather(e)
      <4>1. PICK s \in Children(e) : TRUE
            BY SomeChild
      <4>2. s \in leaves /\ s \in Cells /\ Level(s) = Level(e) + 1 /\ HasFather(s) /\ Father(s) = e
            BY <2>0, <3>3, <4>1, FatherOfChild DEF IsFather
      <4>3. /\ Father(e) \in Cells /\ Level(Father(e)) = Level(e) - 1 /\ Level(e) \in Nat
            /\ Covers(Father(e), e) /\ Covers(e, s)
            BY <2>0, <2>2, <4>2, FatherCovers, CoversItself
      <4>4. Father(e) = s
            BY <1>0, <2>0, <2>2, <4>2, <4>3, CoversTransitive
      <4> QED BY <4>2, <4>3, <4>4
    <3> QED BY <1>1, <3>1, <3>2, <3>3
  <2> QED BY <2>1, <2>2
<1> QED BY <1>0, <1>3, <1>4, <1>5, <1>6 DEF IsGrid
-----------------------------------------------------------------------------
(* The grid of one level at the start. *)
LEMMA InitialElements ==
    ASSUME NEW e \in ElementsOf(InitialLevel)
    PROVE  /\ e \in Cells /\ Level(e) = InitialLevel
           /\ \A d \in Dims : e[2][d] < MacroCells[d] * PowerOfTwo[InitialLevel]
<1> DEFINE count(d) == MacroCells[d] * PowerOfTwo[InitialLevel]
           m == Max({count(d) : d \in Dims}) - 1
<1>0. LevelMax \in Nat /\ InitialLevel \in 0..LevelMax
      BY AdaptiveGridAssumption
<1>1. PICK p \in [Dims -> 0..m] :
          e = <<InitialLevel, p>> /\ \A d \in Dims : p[d] < count(d)
      BY DEF ElementsOf
<1> HIDE DEF m
<1>2. p \in [Dims -> Nat]
      BY <1>1
<1>3. Level(e) = InitialLevel /\ e[2] = p
      BY <1>1 DEF Level
<1> QED BY <1>0, <1>1, <1>2, <1>3 DEF Cells

(* The elements of one level are finitely many, and none of them covers    *)
(* another one.                                                            *)
LEMMA InitialIsGrid == IsGrid(ElementsOf(InitialLevel))
<1> DEFINE L == ElementsOf(InitialLevel)
           count(d) == MacroCells[d] * PowerOfTwo[InitialLevel]
           row(d) == {d} \X (0..count(d))
           rows == {row(d) : d \in Dims}
           B == UNION rows
           graph(e) == {<<d, e[2][d]>> : d \in Dims}
           f == [e \in L |-> graph(e)]
<1>0. /\ \A e \in L : /\ e \in Cells /\ Level(e) = InitialLevel /\ e[2] \in [Dims -> Nat]
                      /\ e = <<InitialLevel, e[2]>>
                      /\ \A d \in Dims : e[2][d] < count(d)
      /\ LevelMax \in Nat /\ InitialLevel \in 0..LevelMax
  <2>1. ASSUME NEW e \in L
        PROVE  /\ e \in Cells /\ Level(e) = InitialLevel /\ \A d \in Dims : e[2][d] < count(d)
        BY InitialElements
  <2>2. \A e \in Cells : e[2] \in [Dims -> Nat] /\ e = <<Level(e), e[2]>>
        BY DEF Cells, Level
  <2> HIDE DEF L, count
  <2> QED BY <2>1, <2>2, AdaptiveGridAssumption
<1> HIDE DEF L
<1>1. \A d \in Dims : count(d) \in Nat
  <2>1. PowerOfTwo[InitialLevel] \in Nat
        BY <1>0, PowersDouble
  <2>2. MacroCells \in Seq(Nat \ {0})
        BY AdaptiveGridAssumption
  <2>3. \A d \in Dims : MacroCells[d] \in Nat
        BY <2>2 DEF Dims
  <2>4. \A i, j \in Nat : i * j \in Nat
        OBVIOUS
  <2> QED BY <2>1, <2>3, <2>4
<1>2. IsFiniteSet(B)
  <2>1. IsFiniteSet(rows)
    <3> DEFINE g == [d \in Dims |-> row(d)]
    <3>1. DOMAIN g = Dims /\ rows = {g[x] : x \in DOMAIN g}
          OBVIOUS
    <3> HIDE DEF g, rows
    <3> QED BY <3>1, DimsAreFinite, FiniteImage
  <2>2. \A T \in rows : IsFiniteSet(T)
    <3> SUFFICES ASSUME NEW d \in Dims PROVE IsFiniteSet(row(d))
        OBVIOUS
    <3>1. count(d) \in Int
          BY <1>1
    <3> HIDE DEF count
    <3>2. IsFiniteSet({d})
          BY FS_Singleton
    <3>3. \A n \in Int : IsFiniteSet(0..n)
      <4> SUFFICES ASSUME NEW n \in Int PROVE IsFiniteSet(0..n)
          OBVIOUS
      <4> QED BY FS_Interval
    <3>4. IsFiniteSet(0..count(d))
          BY <3>1, <3>3
    <3> QED BY <3>2, <3>4, FS_Product
  <2> HIDE DEF rows
  <2> QED BY <2>1, <2>2, FS_UNION
<1>3. f \in Injection(L, SUBSET B)
  <2>1. \A e \in L : graph(e) \in SUBSET B
    <3> SUFFICES ASSUME NEW e \in L, NEW d \in Dims PROVE <<d, e[2][d]>> \in B
        OBVIOUS
    <3>1. e[2][d] \in Nat /\ e[2][d] < count(d) /\ count(d) \in Nat
          BY <1>0, <1>1
    <3> HIDE DEF count
    <3>2. <<d, e[2][d]>> \in row(d)
          BY <3>1
    <3> QED BY <3>2
  <2>2. ASSUME NEW e \in L, NEW c \in L, graph(e) = graph(c) PROVE e = c
    <3>1. ASSUME NEW d \in Dims PROVE e[2][d] = c[2][d]
      <4>1. <<d, e[2][d]>> \in graph(c)
            BY <2>2
      <4>2. PICK x \in Dims : <<d, e[2][d]>> = <<x, c[2][x]>>
            BY <4>1
      <4> QED BY <4>2
    <3>2. e[2] = c[2]
          BY <1>0, <3>1
    <3> QED BY <1>0, <3>2
  <2> HIDE DEF graph, B
  <2>3. f \in [L -> SUBSET B]
        BY <2>1
  <2>4. \A e, c \in L : f[e] = f[c] => e = c
        BY <2>2
  <2>5. DOMAIN f = L
        OBVIOUS
  <2> HIDE DEF f
  <2> QED BY <2>3, <2>4, <2>5, Zenon DEF Injection, IsInjective
<1>4. IsFiniteSet(L)
  <2>1. IsFiniteSet(SUBSET B)
        BY <1>2, FS_SUBSET
  <2> HIDE DEF B, f
  <2> QED BY <1>3, <2>1, FS_Injection
<1>5. \A a, e \in L : Covers(a, e) => a = e
  <2> SUFFICES ASSUME NEW a \in L, NEW e \in L, Covers(a, e) PROVE a = e
      OBVIOUS
  <2>1. a \in Cells /\ e \in Cells /\ Level(a) = Level(e) /\ Level(e) \in Int
        BY <1>0, CoversItself
  <2> QED BY <2>1, SameLevelCovers
<1> QED BY <1>0, <1>4, <1>5 DEF IsGrid, L

(* The field of a time step, when its values can be divided as often as    *)
(* there are levels.                                                       *)
ExactMeans == \A e \in Cells : Divisible(LevelMax, Field(e))

(* Data that are given anew have exact means. *)
LEMMA FieldIsExact ==
    ASSUME ExactMeans, NEW L, L \subseteq Cells, NEW v, v = [e \in L |-> Field(e)]
    PROVE  Exact(v) /\ \A e \in L : v[e] \in Int
<1>0. LevelMax \in Nat /\ LevelMax \in 0..LevelMax
      BY AdaptiveGridAssumption
<1>1. \A e \in L : v[e] = Field(e) /\ Divisible(LevelMax, v[e])
      BY DEF ExactMeans
<1>2. \A e \in L : v[e] \in Int
  <2> SUFFICES ASSUME NEW e \in L PROVE v[e] \in Int
      OBVIOUS
  <2>1. PICK m \in Int : v[e] = Descendants[LevelMax] * m
        BY <1>1 DEF Divisible
  <2>2. Descendants[LevelMax] \in Int
        BY <1>0, DescendantsMultiply
  <2>3. \A i, j \in Int : i * j \in Int
        OBVIOUS
  <2> QED BY <2>1, <2>2, <2>3
<1>3. ASSUME NEW e \in L, NEW k \in 1..Level(e) PROVE Divisible(k, v[e])
  <2>1. e \in Cells /\ Level(e) \in 0..LevelMax
        BY CoversItself
  <2>2. k \in 0..LevelMax
        BY <1>0, <2>1
  <2> QED BY <1>0, <1>1, <2>2, DivisibleLess
<1> QED BY <1>2, <1>3 DEF Exact

(* The field of the runs is of this kind. *)
LEMMA MCFieldIsExact == \A e \in Cells : Divisible(LevelMax, MCField(e))
<1> SUFFICES ASSUME NEW e \in Cells PROVE Divisible(LevelMax, MCField(e))
    OBVIOUS
<1> DEFINE f == [d \in Dims |-> (e[2][d] + Level(e)) * d * d]
<1>1. \A d \in Dims : f[d] \in Int
  <2> SUFFICES ASSUME NEW d \in Dims PROVE f[d] \in Int
      OBVIOUS
  <2>1. e[2][d] \in Int /\ Level(e) \in Int /\ d \in Int
        BY CoversItself, DimsAreFinite DEF Cells
  <2>2. \A i, j \in Int : i * j \in Int /\ i + j \in Int
        OBVIOUS
  <2>3. (e[2][d] + Level(e)) * d * d \in Int
        BY <2>1, <2>2
  <2> QED BY <2>3
<1> HIDE DEF f
<1>2. 1 + SumFunctionOnSet(f, Dims) \in Int
      BY <1>1, DimsAreFinite, SumIsInt
<1>3. MCField(e) = Descendants[LevelMax] * (1 + SumFunctionOnSet(f, Dims))
      BY DEF MCField, f
<1> QED BY <1>2, <1>3 DEF Divisible
-----------------------------------------------------------------------------
(* Sons are one level finer. *)
LEMMA SonsAreFiner ==
    ASSUME NEW L, L \subseteq Cells, NEW e \in Hierarchy(L), NEW s \in Sons(e, Hierarchy(L))
    PROVE  s \in Hierarchy(L) /\ Level(s) = Level(e) + 1
<1>1. e \in Cells /\ s \in Children(e) /\ s \in Hierarchy(L)
      BY HierarchyCovers DEF Sons
<1> QED BY <1>1, ChildCells

(* An element whose children are leaves is in the hierarchy, its sons are  *)
(* its children, and it is no leaf.                                        *)
LEMMA FatherOfLeaves ==
    ASSUME NEW L, IsGrid(L), NEW e \in Cells, Level(e) < LevelMax, Children(e) \subseteq L
    PROVE  e \in Hierarchy(L) /\ e \notin L /\ Sons(e, Hierarchy(L)) = Children(e)
<1>0. L \subseteq Cells /\ L \subseteq Hierarchy(L)
      BY HierarchyCovers DEF IsGrid
<1>1. PICK s \in Children(e) : TRUE
      BY SomeChild
<1>2. s \in L /\ s \in Cells /\ HasFather(s) /\ Father(s) = e /\ Covers(e, s)
      BY <1>1, FatherOfChild, FatherCovers
<1>3. e \in Hierarchy(L)
      BY <1>0, <1>2, HierarchyCovers
<1>4. e \notin L
      BY <1>2, NeverAbove
<1> QED BY <1>0, <1>3, <1>4 DEF Sons

(* What storePrimVars enters for e, if f is what it enters for finer        *)
(* elements.                                                                *)
EnteredSons(f, e) ==
    SumFunctionOnSet([s \in Sons(e, Hierarchy(leaves)) |-> Mean(f[s])], Sons(e, Hierarchy(leaves)))

(* The entry of an element, from those of its sons in f. *)
Entered(f, e) ==
    IF e \in leaves THEN [value |-> saturation[e], count |-> 1]
    ELSE [value |-> Entry(e).value + EnteredSons(f, e),
          count |-> Entry(e).count + Cardinality(Sons(e, Hierarchy(leaves)))]

(* An entry depends on those of the sons alone. *)
LEMMA EnteredAlike ==
    ASSUME NEW f, NEW g, NEW e, \A s \in Sons(e, Hierarchy(leaves)) : f[s] = g[s]
    PROVE  Entered(f, e) = Entered(g, e)
<1>1. [s \in Sons(e, Hierarchy(leaves)) |-> Mean(f[s])] = [s \in Sons(e, Hierarchy(leaves)) |-> Mean(g[s])]
  <2>1. \A s \in Sons(e, Hierarchy(leaves)) : Mean(f[s]) = Mean(g[s])
        OBVIOUS
  <2> QED BY <2>1
<1>2. EnteredSons(f, e) = EnteredSons(g, e)
      BY <1>1 DEF EnteredSons
<1> QED BY <1>2 DEF Entered

(* The recursive function of the stored entries exists: by induction over  *)
(* the levels, from the finest one upwards.                                *)
LEMMA EntriesExist ==
    ASSUME leaves \subseteq Cells
    PROVE  StoredEntries = [e \in Hierarchy(leaves) |-> Entered(StoredEntries, e)]
<1> DEFINE H == Hierarchy(leaves)
           from(f, k) == \A e \in H : Level(e) > LevelMax - k => f[e] = Entered(f, e)
           Missing == {k \in 0..LevelMax + 1 : ~\E f : from(f, k)}
<1>0. LevelMax \in Nat /\ \A e \in H : Level(e) \in 0..LevelMax
  <2>1. H \subseteq Cells
        BY HierarchyCovers
  <2> QED BY <2>1, CoversItself, AdaptiveGridAssumption
<1> HIDE DEF H
<1>1. Missing = {}
  <2> SUFFICES ASSUME Missing # {} PROVE FALSE
      OBVIOUS
  <2>0. Missing \in SUBSET Nat
        BY <1>0
  <2> HIDE DEF Missing
  <2>1. PICK k \in Missing : \A l \in Missing : k <= l
        BY <2>0, Least
  <2>2. k \in 0..LevelMax + 1 /\ ~\E f : from(f, k)
        BY <2>1 DEF Missing
  <2>3. k # 0
    <3>1. from(<<>>, 0)
          BY <1>0
    <3> HIDE DEF from
    <3> QED BY <2>2, <3>1
  <2>4. k - 1 \notin Missing /\ k - 1 \in 0..LevelMax + 1
    <3> HIDE DEF from
    <3> QED BY <1>0, <2>0, <2>1, <2>2, <2>3
  <2>5. PICK f : from(f, k - 1)
        BY <2>4 DEF Missing
  <2> DEFINE g == [e \in H |-> IF Level(e) = LevelMax - k + 1 THEN Entered(f, e) ELSE f[e]]
  <2>6. ASSUME NEW e \in H, Level(e) > LevelMax - k PROVE g[e] = Entered(g, e)
    <3>1. \A s \in Sons(e, H) : s \in H /\ Level(s) = Level(e) + 1
          BY SonsAreFiner DEF H
    <3>2. \A s \in Sons(e, H) : Level(s) # LevelMax - k + 1
          BY <1>0, <2>2, <2>6, <3>1
    <3>3. \A s \in Sons(e, H) : f[s] = g[s]
          BY <3>1, <3>2
    <3> HIDE DEF g
    <3>4. Entered(f, e) = Entered(g, e)
          BY <3>3, EnteredAlike DEF H
    <3>5. CASE Level(e) = LevelMax - k + 1
          BY <3>4, <3>5 DEF g
    <3>6. CASE Level(e) # LevelMax - k + 1
      <4>1. Level(e) > LevelMax - (k - 1)
            BY <1>0, <2>2, <2>6, <3>6
      <4>2. f[e] = Entered(f, e)
            BY <2>5, <4>1
      <4> QED BY <3>4, <3>6, <4>2 DEF g
    <3> QED BY <3>5, <3>6
  <2> HIDE DEF g
  <2>7. from(g, k)
        BY <2>6
  <2> HIDE DEF from
  <2> QED BY <2>2, <2>7
<1>2. PICK f : from(f, LevelMax + 1)
  <2> HIDE DEF from
  <2>1. LevelMax + 1 \in 0..LevelMax + 1 /\ LevelMax + 1 \notin Missing
        BY <1>0, <1>1
  <2> QED BY <2>1
<1> DEFINE g == [e \in H |-> f[e]]
<1>3. ASSUME NEW e \in H PROVE g[e] = Entered(g, e)
  <2>1. Level(e) > LevelMax - (LevelMax + 1)
        BY <1>0
  <2>2. f[e] = Entered(f, e)
        BY <1>2, <2>1
  <2>3. \A s \in Sons(e, H) : f[s] = g[s]
        BY DEF Sons
  <2> HIDE DEF g
  <2>4. Entered(f, e) = Entered(g, e)
        BY <2>3, EnteredAlike DEF H
  <2> QED BY <2>2, <2>4 DEF g
<1>4. g = [e \in H |-> Entered(g, e)]
  <2>1. g = [e \in H |-> g[e]]
        OBVIOUS
  <2> HIDE DEF g
  <2> QED BY <1>3, <2>1
<1>5. StoredEntries = CHOOSE h : h = [e \in H |-> Entered(h, e)]
      BY DEF StoredEntries, Entered, EnteredSons, H
<1> HIDE DEF g
<1>6. \E h : h = [e \in H |-> Entered(h, e)]
      BY <1>4
<1>7. StoredEntries = [e \in H |-> Entered(StoredEntries, e)]
      BY <1>5, <1>6, Zenon
<1> QED BY <1>7 DEF H

(* What the entries of the leaves, and of the elements above some of them,  *)
(* are.                                                                     *)
EntriesOf(v) ==
    /\ \A e \in DOMAIN v : /\ e \in DOMAIN adaptationMap
                           /\ adaptationMap[e] = [value |-> v[e], count |-> 1]
    /\ \A e \in Cells : Level(e) < LevelMax /\ Children(e) \subseteq DOMAIN v =>
           /\ e \in DOMAIN adaptationMap
           /\ adaptationMap[e].value = SumFunctionOnSet(v, Children(e))
           /\ adaptationMap[e].count = NumChildren

(* After storePrimVars a leaf has its own value, and the father of leaves  *)
(* the sum of theirs and their number.                                     *)
LEMMA StoredEntriesAre ==
    ASSUME IsGrid(leaves), DOMAIN saturation = leaves, \A e \in leaves : saturation[e] \in Int,
           adaptationMap = NoEntries, adaptationMap' = StoredEntries, saturation' = saturation
    PROVE  EntriesOf(saturation)'
<1> DEFINE H == Hierarchy(leaves)
           f == StoredEntries
<1>0. leaves \subseteq Cells /\ leaves \subseteq H
      BY HierarchyCovers DEF IsGrid
<1>1. f = [e \in H |-> Entered(f, e)]
      BY <1>0, EntriesExist
<1>2. \A e : Entry(e) = [value |-> 0, count |-> 0]
      BY DEF Entry, NoEntries
<1> HIDE DEF f, H
<1>3. DOMAIN f = H /\ \A e \in H : f[e] = Entered(f, e)
      BY <1>1
<1>4. ASSUME NEW e \in leaves
      PROVE  e \in DOMAIN f /\ f[e] = [value |-> saturation[e], count |-> 1]
      BY <1>0, <1>3 DEF Entered
<1>5. ASSUME NEW e \in Cells, Level(e) < LevelMax, Children(e) \subseteq leaves
      PROVE  /\ e \in DOMAIN f
             /\ f[e].value = SumFunctionOnSet(saturation, Children(e))
             /\ f[e].count = NumChildren
  <2>1. e \in H /\ e \notin leaves /\ Sons(e, H) = Children(e)
        BY <1>5, FatherOfLeaves DEF H
  <2>2. IsFiniteSet(Children(e)) /\ Cardinality(Children(e)) = NumChildren /\ NumChildren \in Int
        BY ChildrenCount, SeveralChildren
  <2>3. \A i \in Int : i \div 1 = i /\ 0 + i = i
        OBVIOUS
  <2> DEFINE means == [s \in Children(e) |-> Mean(f[s])]
  <2>4. \A s \in Children(e) : means[s] = saturation[s]
    <3> SUFFICES ASSUME NEW s \in Children(e) PROVE Mean(f[s]) = saturation[s]
        OBVIOUS
    <3>1. f[s] = [value |-> saturation[s], count |-> 1] /\ saturation[s] \in Int
          BY <1>4, <1>5
    <3> QED BY <2>3, <3>1 DEF Mean
  <2>5. EnteredSons(f, e) = SumFunctionOnSet(means, Children(e))
        BY <2>1 DEF EnteredSons, H
  <2> HIDE DEF means
  <2>6. SumFunctionOnSet(means, Children(e)) = SumFunctionOnSet(saturation, Children(e))
        BY <2>2, <2>4, SumCongruence
  <2>7. SumFunctionOnSet(saturation, Children(e)) \in Int
        BY <1>5, <2>2, SumIsInt
  <2>8. Entered(f, e) = [value |-> 0 + EnteredSons(f, e), count |-> 0 + Cardinality(Children(e))]
        BY <1>2, <2>1 DEF Entered, H
  <2>9. f[e].value = 0 + EnteredSons(f, e) /\ f[e].count = 0 + Cardinality(Children(e))
        BY <1>3, <2>1, <2>8
  <2> QED BY <1>3, <2>1, <2>2, <2>3, <2>5, <2>6, <2>7, <2>9
<1>6. adaptationMap' = f /\ DOMAIN saturation' = leaves
      BY DEF f
<1> QED BY <1>4, <1>5, <1>6 DEF EntriesOf
-----------------------------------------------------------------------------
(* Between adapt and reconstruct: the grid of the cell data and the leaves *)
(* differ by one level, and the new elements are known.                    *)
BetweenGrids ==
    /\ OneLevel(DOMAIN saturation, leaves) /\ OneLevel(leaves, DOMAIN saturation)
    /\ isNew \subseteq leaves
    /\ \A e \in leaves : e \in isNew <=> HasFather(e) /\ Father(e) \in DOMAIN saturation

ReconstructedValues(f) == DOMAIN f = leaves /\ \A e \in leaves : f[e] = Moved(saturation, e)

(* What reconstructPrimVars computes from these entries on the new grid. *)
LEMMA ReconstructedAre ==
    ASSUME IsGrid(leaves), IsGrid(DOMAIN saturation), BetweenGrids, EntriesOf(saturation),
           Exact(saturation), \A e \in DOMAIN saturation : saturation[e] \in Int
    PROVE  ReconstructedValues(Reconstructed)
<1> DEFINE L == DOMAIN saturation
<1>0. /\ leaves \subseteq Cells /\ L \subseteq Cells /\ OneLevel(L, leaves)
      /\ \A i \in Int : i \div 1 = i
      BY DEF IsGrid, BetweenGrids
<1>1. ASSUME NEW e \in L PROVE Mean(Entry(e)) = saturation[e]
  <2>1. Entry(e) = [value |-> saturation[e], count |-> 1] /\ saturation[e] \in Int
        BY DEF EntriesOf, Entry
  <2> QED BY <1>0, <2>1 DEF Mean
<1>2. ASSUME NEW e \in leaves
      PROVE  Mean(Entry(IF e \in isNew THEN Father(e) ELSE e)) = Moved(saturation, e)
  <2>1. CASE e \in isNew
    <3>1. HasFather(e) /\ Father(e) \in L
          BY <2>1 DEF BetweenGrids
    <3>2. Moved(saturation, e) = saturation[Father(e)]
          BY <1>0, <3>1, MovedValues
    <3> QED BY <1>1, <2>1, <3>1, <3>2
  <2>2. CASE e \notin isNew /\ e \in L
    <3>1. Moved(saturation, e) = saturation[e]
          BY <2>2 DEF Moved
    <3> QED BY <1>1, <2>2, <3>1
  <2>3. CASE e \notin isNew /\ e \notin L
    <3>1. ~(HasFather(e) /\ Father(e) \in L)
          BY <2>3 DEF BetweenGrids
    <3>2. Level(e) < LevelMax /\ Children(e) \subseteq L
          BY <1>0, <2>3, <3>1, MovedValues
    <3>3. e \in Cells
          BY <1>0
    <3>4. /\ e \in DOMAIN adaptationMap
          /\ adaptationMap[e].value = SumFunctionOnSet(saturation, Children(e))
          /\ adaptationMap[e].count = NumChildren
          BY <3>2, <3>3 DEF EntriesOf
    <3>5. Mean(Entry(e)) = SumFunctionOnSet(saturation, Children(e)) \div NumChildren
          BY <3>4 DEF Mean, Entry
    <3>6. Moved(saturation, e) = SumFunctionOnSet(saturation, Children(e)) \div NumChildren
          BY <2>3, <3>1 DEF Moved
    <3> QED BY <2>3, <3>5, <3>6
  <2> QED BY <2>1, <2>2, <2>3
<1> QED BY <1>2 DEF ReconstructedValues, Reconstructed

(* The transfer of the sequential model, from the grid of the cell data to *)
(* the leaves.                                                             *)
TransferInv ==
    /\ IsGrid(leaves) /\ IsGrid(DOMAIN saturation)
    /\ \A e \in DOMAIN saturation : saturation[e] \in Int
    /\ Exact(saturation)
    /\ phase # "adapted" => DOMAIN saturation = leaves
    /\ phase \in {"stored", "adapted"} => previous = saturation
    /\ phase = "adapted" => BetweenGrids
    /\ phase \notin {"stored", "adapted"} =>
          adaptationMap = NoEntries /\ SameAmounts(previous, saturation)

MarksBelow == \A e \in leaves : marks[e] = 1 => Level(e) < LevelMax

(* The invariant holds at the start. *)
LEMMA TransferInit ==
    ASSUME ExactMeans, InitialGrid
    PROVE  TransferInv /\ MarksBelow
<1>1. /\ leaves = ElementsOf(InitialLevel) /\ marks = [e \in leaves |-> 0]
      /\ saturation = [e \in leaves |-> Field(e)] /\ previous = saturation
      /\ adaptationMap = NoEntries /\ phase = "idle"
      BY DEF InitialGrid
<1>2. IsGrid(leaves) /\ leaves \subseteq Cells /\ DOMAIN saturation = leaves
      BY <1>1, InitialIsGrid DEF IsGrid
<1>3. Exact(saturation) /\ \A e \in leaves : saturation[e] \in Int
      BY <1>1, <1>2, FieldIsExact
<1>4. SameAmounts(previous, saturation)
      BY <1>1 DEF SameAmounts
<1> QED BY <1>1, <1>2, <1>3, <1>4 DEF TransferInv, MarksBelow

(* A new field. *)
LEMMA NewField ==
    ASSUME ExactMeans, TransferInv, phase # "adapted", phase # "stored", UNCHANGED leaves,
           saturation' = [e \in leaves |-> Field(e)], previous' = saturation',
           UNCHANGED adaptationMap, phase' = "idle"
    PROVE  TransferInv'
<1>1. IsGrid(leaves) /\ leaves \subseteq Cells /\ adaptationMap = NoEntries
      BY DEF TransferInv, IsGrid
<1>2. Exact(saturation') /\ \A e \in leaves : saturation'[e] \in Int
      BY <1>1, FieldIsExact
<1>3. DOMAIN saturation' = leaves
      OBVIOUS
<1>4. SameAmounts(previous', saturation')
      BY DEF SameAmounts
<1>5. IsGrid(leaves') /\ IsGrid(DOMAIN saturation')
      BY <1>1, <1>3
<1>6. SameAmounts(previous, saturation)'
      BY <1>4 DEF SameAmounts
<1>7. Exact(saturation)'
      BY <1>2
<1> QED BY <1>1, <1>2, <1>3, <1>5, <1>6, <1>7 DEF TransferInv, NoEntries

(* Steps that leave grid and data alone. *)
LEMMA DataStay ==
    ASSUME TransferInv, UNCHANGED <<leaves, saturation, previous, adaptationMap>>,
           phase \notin {"stored", "adapted"}, phase' \notin {"stored", "adapted"}
    PROVE  TransferInv'
<1>1. /\ IsGrid(leaves) /\ IsGrid(DOMAIN saturation) /\ Exact(saturation)
      /\ \A e \in DOMAIN saturation : saturation[e] \in Int
      /\ DOMAIN saturation = leaves /\ adaptationMap = NoEntries
      /\ SameAmounts(previous, saturation)
      BY DEF TransferInv
<1>2. /\ IsGrid(leaves') /\ IsGrid(DOMAIN saturation') /\ Exact(saturation')
      /\ adaptationMap' = NoEntries /\ SameAmounts(previous', saturation')
      BY <1>1
<1> QED BY <1>1, <1>2 DEF TransferInv, NoEntries

(* Storing the data. *)
LEMMA DataStored ==
    ASSUME TransferInv, UNCHANGED <<leaves, saturation>>, previous' = saturation,
           phase = "marked", phase' = "stored"
    PROVE  TransferInv'
<1>1. /\ IsGrid(leaves) /\ IsGrid(DOMAIN saturation) /\ Exact(saturation)
      /\ \A e \in DOMAIN saturation : saturation[e] \in Int
      /\ DOMAIN saturation = leaves
      BY DEF TransferInv
<1>2. IsGrid(leaves') /\ IsGrid(DOMAIN saturation') /\ Exact(saturation')
      BY <1>1
<1> QED BY <1>1, <1>2 DEF TransferInv

(* The step of the grid. *)
LEMMA GridSteps ==
    ASSUME TransferInv, MarksBelow, GridAdapts, UNCHANGED <<saturation, previous, adaptationMap>>,
           phase = "stored", phase' = "adapted"
    PROVE  TransferInv' /\ MarksBelow'
<1>1. /\ IsGrid(leaves) /\ IsGrid(DOMAIN saturation) /\ Exact(saturation)
      /\ \A e \in DOMAIN saturation : saturation[e] \in Int
      /\ DOMAIN saturation = leaves /\ previous = saturation
      BY DEF TransferInv
<1>2. /\ IsGrid(leaves') /\ OneLevel(leaves, leaves') /\ OneLevel(leaves', leaves)
      /\ \A e \in leaves' : e \in isNew' <=> HasFather(e) /\ Father(e) \in leaves
      BY <1>1, AdaptedGrid DEF MarksBelow
<1>3. isNew' \subseteq leaves'
      BY LeavesAfter
<1>4. /\ IsGrid(DOMAIN saturation') /\ Exact(saturation') /\ DOMAIN saturation' = leaves
      /\ \A e \in DOMAIN saturation' : saturation'[e] \in Int
      BY <1>1
<1>5. BetweenGrids'
      BY <1>2, <1>3, <1>4 DEF BetweenGrids
<1>6. marks' = [e \in leaves' |-> 0]
      BY DEF GridAdapts
<1>7. MarksBelow'
      BY <1>6 DEF MarksBelow
<1> QED BY <1>1, <1>2, <1>4, <1>5, <1>7 DEF TransferInv

(* Reconstructing the data. *)
LEMMA DataReconstructed ==
    ASSUME TransferInv, phase = "adapted", phase' \notin {"stored", "adapted"},
           ReconstructedValues(saturation'), UNCHANGED <<leaves, previous>>,
           adaptationMap' = NoEntries
    PROVE  TransferInv'
<1> DEFINE w == saturation'
<1>1. /\ IsGrid(leaves) /\ IsGrid(DOMAIN saturation) /\ Exact(saturation)
      /\ \A e \in DOMAIN saturation : saturation[e] \in Int
      /\ OneLevel(DOMAIN saturation, leaves) /\ OneLevel(leaves, DOMAIN saturation)
      /\ previous = saturation
      BY DEF TransferInv, BetweenGrids
<1>2. DOMAIN w = leaves /\ \A e \in leaves : w[e] = Moved(saturation, e)
      BY DEF ReconstructedValues
<1>3. IsMoved(saturation, w)
      BY <1>1, <1>2 DEF IsMoved
<1>4. Exact(w) /\ \A e \in DOMAIN w : w[e] \in Int
      BY <1>3, ExactMoved
<1>5. SameAmounts(previous', w)
      BY <1>1, <1>3, MovedAmounts
<1>6. IsGrid(leaves') /\ IsGrid(DOMAIN w)
      BY <1>1, <1>2
<1> QED BY <1>2, <1>4, <1>5, <1>6 DEF TransferInv, NoEntries
-----------------------------------------------------------------------------
(* The sequential model. *)
SeqTransferInv ==
    /\ TransferInv
    /\ phase \in {"stored", "adapted"} => EntriesOf(saturation)

(* Every action of the sequential model keeps the invariant. *)
LEMMA SeqTransferNext ==
    ASSUME ExactMeans, GridInv, SeqTransferInv, [AdaptNext]_adaptVars
    PROVE  SeqTransferInv'
<1>0. TransferInv /\ MarksBelow /\ (phase \in {"stored", "adapted"} => EntriesOf(saturation))
      BY DEF GridInv, SeqTransferInv, MarksBelow
<1>1. ASSUME NEW refine, NEW coarsen, Mark(refine, coarsen) PROVE SeqTransferInv'
  <2>1. phase = "idle" /\ UNCHANGED <<leaves, saturation, previous, adaptationMap>>
        BY <1>1 DEF Mark, dataVars
  <2>2. phase' \in {"marked", "done"}
        BY <1>1, MarksAre
  <2>3. TransferInv'
        BY <1>0, <2>1, <2>2, DataStay
  <2> QED BY <2>2, <2>3 DEF SeqTransferInv
<1>2. CASE InitRound
  <2>1. PICK verdict \in Verdicts : Mark(InitRefine(verdict), InitCoarsen(verdict))
        BY <1>2 DEF InitRound
  <2> QED BY <1>1, <2>1
<1>3. CASE PreTimeStep
  <2>1. PICK verdict \in Verdicts : Mark(verdict[1], verdict[2])
        BY <1>3 DEF PreTimeStep
  <2> QED BY <1>1, <2>1
<1>4. CASE EndInit \/ SkipAdaption
  <2>1. /\ phase \in {"idle", "done"} /\ phase' \in {"idle", "done"}
        /\ UNCHANGED <<leaves, saturation, previous, adaptationMap>>
        BY <1>4 DEF EndInit, SkipAdaption, gridVars, dataVars
  <2>2. TransferInv'
        BY <1>0, <2>1, DataStay
  <2> QED BY <2>1, <2>2 DEF SeqTransferInv
<1>5. CASE EndRound
  <2>1. /\ phase = "done" /\ phase' = "idle" /\ UNCHANGED <<leaves, adaptationMap>>
        /\ saturation' = (IF nextMaxLevel = LevelMax THEN [e \in leaves |-> Field(e)] ELSE saturation)
        /\ previous' = saturation'
        BY <1>5 DEF EndRound, gridVars
  <2>2. CASE nextMaxLevel = LevelMax
    <3>1. saturation' = [e \in leaves |-> Field(e)]
          BY <2>1, <2>2
    <3>2. TransferInv'
          BY <1>0, <2>1, <3>1, NewField
    <3> QED BY <2>1, <3>2 DEF SeqTransferInv
  <2>3. CASE nextMaxLevel # LevelMax
    <3>1. /\ IsGrid(leaves) /\ IsGrid(DOMAIN saturation) /\ Exact(saturation)
          /\ \A e \in DOMAIN saturation : saturation[e] \in Int
          /\ DOMAIN saturation = leaves /\ adaptationMap = NoEntries
          BY <1>0, <2>1 DEF TransferInv
    <3>2. saturation' = saturation /\ SameAmounts(previous', saturation')
          BY <2>1, <2>3 DEF SameAmounts
    <3>3. IsGrid(leaves') /\ IsGrid(DOMAIN saturation') /\ Exact(saturation')
          BY <2>1, <3>1, <3>2
    <3>4. TransferInv'
          BY <2>1, <3>1, <3>2, <3>3 DEF TransferInv, NoEntries
    <3> QED BY <2>1, <3>4 DEF SeqTransferInv
  <2> QED BY <2>2, <2>3
<1>6. CASE TimeStep
  <2>1. /\ phase = "done" /\ phase' = "idle" /\ UNCHANGED <<leaves, adaptationMap>>
        /\ saturation' = [e \in leaves |-> Field(e)] /\ previous' = saturation'
        BY <1>6 DEF TimeStep, gridVars
  <2>2. TransferInv'
        BY <1>0, <2>1, NewField
  <2> QED BY <2>1, <2>2 DEF SeqTransferInv
<1>7. CASE StorePrimVars
  <2>1. /\ phase = "marked" /\ phase' = "stored" /\ UNCHANGED <<leaves, saturation>>
        /\ previous' = saturation /\ adaptationMap' = StoredEntries
        BY <1>7 DEF StorePrimVars, gridVars
  <2>2. TransferInv'
        BY <1>0, <2>1, DataStored
  <2>3. /\ IsGrid(leaves) /\ DOMAIN saturation = leaves /\ adaptationMap = NoEntries
        /\ \A e \in leaves : saturation[e] \in Int
        BY <1>0, <2>1 DEF TransferInv
  <2>4. EntriesOf(saturation)'
        BY <2>1, <2>3, StoredEntriesAre
  <2> QED BY <2>2, <2>4 DEF SeqTransferInv
<1>8. CASE AdaptTheGrid
  <2>1. /\ GridAdapts /\ phase = "stored" /\ phase' = "adapted"
        /\ UNCHANGED <<saturation, previous, adaptationMap>>
        BY <1>8 DEF AdaptTheGrid, dataVars
  <2>2. TransferInv'
        BY <1>0, <2>1, GridSteps
  <2>3. EntriesOf(saturation)'
        BY <1>0, <2>1 DEF EntriesOf
  <2> QED BY <2>2, <2>3 DEF SeqTransferInv
<1>9. CASE ReconstructPrimVars
  <2>1. /\ phase = "adapted" /\ phase' = "done" /\ saturation' = Reconstructed
        /\ adaptationMap' = NoEntries /\ UNCHANGED <<leaves, previous>>
        BY <1>9 DEF ReconstructPrimVars, EntriesLeft
  <2>2. ReconstructedValues(Reconstructed)
        BY <1>0, <2>1, ReconstructedAre DEF TransferInv
  <2>3. ReconstructedValues(saturation')
        BY <2>1, <2>2 DEF ReconstructedValues
  <2>4. TransferInv'
        BY <1>0, <2>1, <2>3, DataReconstructed
  <2> QED BY <2>1, <2>4 DEF SeqTransferInv
<1>10. CASE UNCHANGED adaptVars
  <2>1. UNCHANGED <<leaves, isNew, phase, saturation, previous, adaptationMap>>
        BY <1>10 DEF adaptVars, gridVars, dataVars
  <2>2. UNCHANGED BetweenGrids /\ UNCHANGED EntriesOf(saturation)
        BY <2>1 DEF BetweenGrids, EntriesOf
  <2>3. UNCHANGED TransferInv
        BY <2>1, <2>2 DEF TransferInv, NoEntries
  <2> QED BY <2>1, <2>2, <2>3 DEF SeqTransferInv
<1> QED BY <1>2, <1>3, <1>4, <1>5, <1>6, <1>7, <1>8, <1>9, <1>10 DEF AdaptNext

(* Sequential model: storePrimVars, adapt and reconstructPrimVars together *)
(* neither lose nor add anything of the cell data, in any element of both  *)
(* grids, whatever the indicators want and however often the grid is       *)
(* adapted -- given that the means of the data are exact                   *)
(* (variableclassadaptive.hh, gridadapt.hh).                               *)
THEOREM AmountsStay == ExactMeans => (Spec => []AmountsKept)
<1> SUFFICES ASSUME ExactMeans PROVE Spec => []AmountsKept
    OBVIOUS
<1> DEFINE Inv == model = "sequential" => GridInv /\ SeqTransferInv
<1>1. Init => Inv
  <2> SUFFICES ASSUME Init PROVE GridInv /\ SeqTransferInv
      OBVIOUS
  <2>1. AdaptInit /\ InitialGrid /\ phase = "idle"
        BY DEF Init, AdaptInit, InitialGrid
  <2> QED BY <2>1, GridInitInv, TransferInit DEF SeqTransferInv
<1>2. Inv /\ [Next]_allVars => Inv'
  <2> SUFFICES ASSUME Inv, [Next]_allVars, model' = "sequential" PROVE GridInv' /\ SeqTransferInv'
      OBVIOUS
  <2>1. model = "sequential" /\ [AdaptNext]_adaptVars
        BY DEF Next, allVars
  <2> QED BY <2>1, GridNextInv, SeqTransferNext
<1>3. Inv => AmountsKept
      BY DEF AmountsKept, TransferConserves, SeqTransferInv, TransferInv
<1> HIDE DEF Inv
<1> QED BY <1>1, <1>2, <1>3, PTL DEF Spec
-----------------------------------------------------------------------------
(* The implicit model's operators are those of the sequential one. *)
LEMMA SameSums ==
    /\ \A f, S : Implicit!SumFunctionOnSet(f, S) = SumFunctionOnSet(f, S)
BY DEF Implicit!SumFunctionOnSet, SumFunctionOnSet, Implicit!FoldFunctionOnSet, FoldFunctionOnSet,
       Implicit!MapThenFoldSet, MapThenFoldSet
(* The same for the operators about elements. *)
LEMMA SameGrids ==
    /\ \A e : Implicit!Level(e) = Level(e) /\ Implicit!HasFather(e) = HasFather(e)
    /\ \A e, k : Implicit!Ancestor(e, k) = Ancestor(e, k)
    /\ \A e : Implicit!Father(e) = Father(e) /\ Implicit!Children(e) = Children(e)
    /\ \A a, e : Implicit!Covers(a, e) = Covers(a, e)
    /\ \A L : Implicit!Hierarchy(L) = Hierarchy(L)
    /\ \A e, E : Implicit!Sons(e, E) = Sons(e, E)
    /\ Implicit!NumChildren = NumChildren
    /\ \A e : Implicit!Volume(e) = Volume(e)
<1>1. PowerOfTwo = Implicit!PowerOfTwo
      BY DEF PowerOfTwo, Implicit!PowerOfTwo
<1>2. Descendants = Implicit!Descendants
      BY DEF Descendants, Implicit!Descendants, NumChildren, Implicit!NumChildren
<1>3. Dims = Implicit!Dims
      BY DEF Dims, Implicit!Dims
<1>4. \A e : Implicit!Level(e) = Level(e)
      BY DEF Level, Implicit!Level
<1>5. \A e : Implicit!HasFather(e) = HasFather(e)
      BY <1>4 DEF HasFather, Implicit!HasFather
<1>6. \A e, k : Implicit!Ancestor(e, k) = Ancestor(e, k)
      BY <1>1, <1>3, <1>4 DEF Ancestor, Implicit!Ancestor
<1>7. \A e : Implicit!Father(e) = Father(e)
      BY <1>4, <1>6 DEF Father, Implicit!Father
<1>8. \A e : Implicit!Children(e) = Children(e)
      BY <1>3, <1>4 DEF Children, Implicit!Children
<1>9. \A a, e : Implicit!Covers(a, e) = Covers(a, e)
      BY <1>4, <1>6 DEF Covers, Implicit!Covers
<1>10. \A L : Implicit!Hierarchy(L) = Hierarchy(L)
      BY <1>4, <1>6 DEF Hierarchy, Implicit!Hierarchy
<1>11. \A e, E : Implicit!Sons(e, E) = Sons(e, E)
      BY <1>8 DEF Sons, Implicit!Sons
<1>12. \A e : Implicit!Volume(e) = Volume(e)
      BY <1>2, <1>4 DEF Volume, Implicit!Volume
<1>13. Implicit!NumChildren = NumChildren
      BY DEF NumChildren, Implicit!NumChildren
<1> QED BY <1>4, <1>5, <1>6, <1>7, <1>8, <1>9, <1>10, <1>11, <1>12, <1>13

(* What store() enters for e, if f is what it enters for finer elements. *)
MassEntered(f, e) ==
    LET sons == Implicit!Sons(e, Implicit!Hierarchy(leaves))
    IN  IF e \in leaves
        THEN [u |-> saturation[e], count |-> 1, wasLeaf |-> TRUE,
              mass |-> Implicit!Entry(e).mass + Implicit!Volume(e) * saturation[e]]
        ELSE [u |-> Implicit!Entry(e).u + Implicit!SumFunctionOnSet(
                       [s \in sons |-> f[s].u \div f[s].count], sons),
              count |-> Implicit!Entry(e).count + Implicit!Cardinality(sons), wasLeaf |-> FALSE,
              mass |-> Implicit!Entry(e).mass + Implicit!SumFunctionOnSet(
                          [s \in sons |-> f[s].mass], sons)]

(* An entry depends on those of the sons alone. *)
LEMMA MassEnteredAlike ==
    ASSUME NEW f, NEW g, NEW e, \A s \in Sons(e, Hierarchy(leaves)) : f[s] = g[s]
    PROVE  MassEntered(f, e) = MassEntered(g, e)
<1> DEFINE sons == Implicit!Sons(e, Implicit!Hierarchy(leaves))
<1>0. sons = Sons(e, Hierarchy(leaves))
      BY SameGrids
<1> HIDE DEF sons
<1>1. [s \in sons |-> f[s].mass] = [s \in sons |-> g[s].mass]
      BY <1>0
<1>2. [s \in sons |-> f[s].u \div f[s].count] = [s \in sons |-> g[s].u \div g[s].count]
      BY <1>0
<1> QED BY <1>1, <1>2 DEF MassEntered, sons

(* The recursive function of the stored entries exists, as in the          *)
(* sequential model.                                                       *)
LEMMA MassEntriesExist ==
    ASSUME leaves \subseteq Cells
    PROVE  Implicit!Stored = [e \in Hierarchy(leaves) |-> MassEntered(Implicit!Stored, e)]
<1> DEFINE H == Hierarchy(leaves)
           from(f, k) == \A e \in H : Level(e) > LevelMax - k => f[e] = MassEntered(f, e)
           Missing == {k \in 0..LevelMax + 1 : ~\E f : from(f, k)}
<1>0. LevelMax \in Nat /\ \A e \in H : Level(e) \in 0..LevelMax
  <2>1. H \subseteq Cells
        BY HierarchyCovers
  <2> QED BY <2>1, CoversItself, AdaptiveGridAssumption
<1> HIDE DEF H
<1>1. Missing = {}
  <2> SUFFICES ASSUME Missing # {} PROVE FALSE
      OBVIOUS
  <2>0. Missing \in SUBSET Nat
        BY <1>0
  <2> HIDE DEF Missing
  <2>1. PICK k \in Missing : \A l \in Missing : k <= l
        BY <2>0, Least
  <2>2. k \in 0..LevelMax + 1 /\ ~\E f : from(f, k)
        BY <2>1 DEF Missing
  <2>3. k # 0
    <3>1. from(<<>>, 0)
          BY <1>0
    <3> HIDE DEF from
    <3> QED BY <2>2, <3>1
  <2>4. k - 1 \notin Missing /\ k - 1 \in 0..LevelMax + 1
    <3> HIDE DEF from
    <3> QED BY <1>0, <2>0, <2>1, <2>2, <2>3
  <2>5. PICK f : from(f, k - 1)
        BY <2>4 DEF Missing
  <2> DEFINE g == [e \in H |-> IF Level(e) = LevelMax - k + 1 THEN MassEntered(f, e) ELSE f[e]]
  <2>6. ASSUME NEW e \in H, Level(e) > LevelMax - k PROVE g[e] = MassEntered(g, e)
    <3>1. \A s \in Sons(e, H) : s \in H /\ Level(s) = Level(e) + 1
          BY SonsAreFiner DEF H
    <3>2. \A s \in Sons(e, H) : Level(s) # LevelMax - k + 1
          BY <1>0, <2>2, <2>6, <3>1
    <3>3. \A s \in Sons(e, H) : f[s] = g[s]
          BY <3>1, <3>2
    <3> HIDE DEF g
    <3>4. MassEntered(f, e) = MassEntered(g, e)
          BY <3>3, MassEnteredAlike DEF H
    <3>5. CASE Level(e) = LevelMax - k + 1
          BY <3>4, <3>5 DEF g
    <3>6. CASE Level(e) # LevelMax - k + 1
      <4>1. Level(e) > LevelMax - (k - 1)
            BY <1>0, <2>2, <2>6, <3>6
      <4>2. f[e] = MassEntered(f, e)
            BY <2>5, <4>1
      <4> QED BY <3>4, <3>6, <4>2 DEF g
    <3> QED BY <3>5, <3>6
  <2> HIDE DEF g
  <2>7. from(g, k)
        BY <2>6
  <2> HIDE DEF from
  <2> QED BY <2>2, <2>7
<1>2. PICK f : from(f, LevelMax + 1)
  <2> HIDE DEF from
  <2>1. LevelMax + 1 \in 0..LevelMax + 1 /\ LevelMax + 1 \notin Missing
        BY <1>0, <1>1
  <2> QED BY <2>1
<1> DEFINE g == [e \in H |-> f[e]]
<1>3. ASSUME NEW e \in H PROVE g[e] = MassEntered(g, e)
  <2>1. Level(e) > LevelMax - (LevelMax + 1)
        BY <1>0
  <2>2. f[e] = MassEntered(f, e)
        BY <1>2, <2>1
  <2>3. \A s \in Sons(e, H) : f[s] = g[s]
        BY DEF Sons
  <2> HIDE DEF g
  <2>4. MassEntered(f, e) = MassEntered(g, e)
        BY <2>3, MassEnteredAlike DEF H
  <2> QED BY <2>2, <2>4 DEF g
<1>4. g = [e \in H |-> MassEntered(g, e)]
  <2>1. g = [e \in H |-> g[e]]
        OBVIOUS
  <2> HIDE DEF g
  <2> QED BY <1>3, <2>1
<1>5. H = Implicit!Hierarchy(leaves)
      BY SameGrids DEF H
<1>6. Implicit!Stored = CHOOSE h : h = [e \in H |-> MassEntered(h, e)]
  <2>1. Implicit!Stored =
            CHOOSE h : h = [e \in Implicit!Hierarchy(leaves) |-> MassEntered(h, e)]
        BY DEF Implicit!Stored, MassEntered
  <2> QED BY <1>5, <2>1
<1> HIDE DEF g
<1>7. \E h : h = [e \in H |-> MassEntered(h, e)]
      BY <1>4
<1>8. Implicit!Stored = [e \in H |-> MassEntered(Implicit!Stored, e)]
      BY <1>6, <1>7, Zenon
<1> QED BY <1>8 DEF H

(* What the entries of the leaves, and of the elements above some of them, *)
(* are.                                                                    *)
MassEntriesOf(v) ==
    /\ \A e \in DOMAIN v : /\ e \in DOMAIN adaptationMap
                           /\ adaptationMap[e].wasLeaf = TRUE
                           /\ adaptationMap[e].u = v[e] /\ adaptationMap[e].count = 1
                           /\ adaptationMap[e].mass = Volume(e) * v[e]
    /\ \A e \in Cells : Level(e) < LevelMax /\ Children(e) \subseteq DOMAIN v =>
           /\ e \in DOMAIN adaptationMap
           /\ adaptationMap[e].wasLeaf = FALSE
           /\ adaptationMap[e].mass = SumFunctionOnSet(Held(v), Children(e))

(* After GridDataTransfer::store a leaf has its own value and mass, the    *)
(* father of leaves the mean and the mass of them.                         *)
LEMMA MassStoredAre ==
    ASSUME IsGrid(leaves), DOMAIN saturation = leaves, \A e \in leaves : saturation[e] \in Int,
           adaptationMap = NoEntries, adaptationMap' = Implicit!Stored, saturation' = saturation
    PROVE  MassEntriesOf(saturation)'
<1> DEFINE H == Hierarchy(leaves)
           f == Implicit!Stored
<1>0. leaves \subseteq Cells /\ leaves \subseteq H
      BY HierarchyCovers DEF IsGrid
<1>1. f = [e \in H |-> MassEntered(f, e)]
      BY <1>0, MassEntriesExist
<1>2. \A e : Implicit!Entry(e) = [u |-> 0, count |-> 0, mass |-> 0, wasLeaf |-> FALSE]
      BY DEF Implicit!Entry, NoEntries
<1> HIDE DEF f, H
<1>3. DOMAIN f = H /\ \A e \in H : f[e] = MassEntered(f, e)
      BY <1>1
<1>4. \A e \in leaves : Held(saturation)[e] \in Int /\ Held(saturation)[e] = Volume(e) * saturation[e]
      BY <1>0, HeldIsInt
<1>5. \A i \in Int : 0 + i = i
      OBVIOUS
<1>6. ASSUME NEW e \in leaves
      PROVE  /\ e \in DOMAIN f /\ f[e].wasLeaf = TRUE /\ f[e].u = saturation[e] /\ f[e].count = 1
             /\ f[e].mass = Held(saturation)[e] /\ f[e].mass = Volume(e) * saturation[e]
  <2>1. f[e] = [u |-> saturation[e], count |-> 1, wasLeaf |-> TRUE,
                mass |-> 0 + Volume(e) * saturation[e]]
        BY <1>0, <1>2, <1>3, SameGrids DEF MassEntered
  <2>2. 0 + Volume(e) * saturation[e] = Held(saturation)[e]
        BY <1>4, <1>5
  <2> QED BY <1>0, <1>3, <1>4, <2>1, <2>2
<1>7. ASSUME NEW e \in Cells, Level(e) < LevelMax, Children(e) \subseteq leaves
      PROVE  /\ e \in DOMAIN f /\ f[e].wasLeaf = FALSE
             /\ f[e].mass = SumFunctionOnSet(Held(saturation), Children(e))
  <2>1. e \in H /\ e \notin leaves /\ Sons(e, H) = Children(e)
        BY <1>7, FatherOfLeaves DEF H
  <2>2. IsFiniteSet(Children(e))
        BY ChildrenCount
  <2> DEFINE masses == [s \in Children(e) |-> f[s].mass]
             total == SumFunctionOnSet(masses, Children(e))
             u == Implicit!Entry(e).u + Implicit!SumFunctionOnSet(
                       [s \in Children(e) |-> f[s].u \div f[s].count], Children(e))
             n == Implicit!Entry(e).count + Implicit!Cardinality(Children(e))
  <2>3. \A s \in Children(e) : masses[s] = Held(saturation)[s]
        BY <1>6, <1>7
  <2>4. Implicit!Sons(e, Implicit!Hierarchy(leaves)) = Children(e)
        BY <2>1, SameGrids DEF H
  <2>5. Implicit!SumFunctionOnSet(masses, Children(e)) = total
        BY SameSums
  <2>6. MassEntered(f, e) = [u |-> u, count |-> n, wasLeaf |-> FALSE,
                             mass |-> Implicit!Entry(e).mass +
                                        Implicit!SumFunctionOnSet(masses, Children(e))]
        BY <2>1, <2>4 DEF MassEntered
  <2> HIDE DEF masses, total, u, n
  <2>7. total = SumFunctionOnSet(Held(saturation), Children(e))
        BY <2>2, <2>3, SumCongruence DEF total
  <2>8. total \in Int
        BY <1>4, <1>7, <2>2, <2>7, SumIsInt
  <2>9. f[e].wasLeaf = FALSE /\ f[e].mass = 0 + total
        BY <1>2, <1>3, <2>1, <2>5, <2>6
  <2> QED BY <1>3, <1>5, <2>1, <2>7, <2>8, <2>9
<1>8. adaptationMap' = f /\ DOMAIN saturation' = leaves
      BY DEF f
<1> QED BY <1>6, <1>7, <1>8 DEF MassEntriesOf, Held

(* The ancestor of an element that was there before. *)
LEMMA OldAncestorIs ==
    ASSUME IsGrid(leaves), isNew \subseteq leaves, NEW e \in leaves, e \in isNew => HasFather(e)
    PROVE  Implicit!OldAncestor(e) = IF e \in isNew THEN Father(e) ELSE e
<1> DEFINE H == Hierarchy({e})
           Old(a) == a \notin isNew /\ \A b \in H : Level(b) > Level(a) => b \in isNew
           x == IF e \in isNew THEN Father(e) ELSE e
<1>0. e \in Cells /\ {e} \subseteq Cells /\ Covers(e, e) /\ Level(e) \in Nat
      BY CoversItself DEF IsGrid
<1>1. \A a : a \in H <=> a \in Cells /\ Covers(a, e)
      BY <1>0, HierarchyCovers
<1>2. \A a \in H : a \in Cells /\ Covers(a, e) /\ Level(a) \in Nat
                   /\ (a # e => Level(a) < Level(e) /\ HasFather(e) /\ Covers(a, Father(e)))
  <2> SUFFICES ASSUME NEW a \in H
               PROVE  /\ a \in Cells /\ Covers(a, e) /\ Level(a) \in Nat
                      /\ (a # e => Level(a) < Level(e) /\ HasFather(e) /\ Covers(a, Father(e)))
      OBVIOUS
  <2>1. a \in Cells /\ Covers(a, e)
        BY <1>1
  <2> HIDE DEF H
  <2>2. Level(a) \in Nat /\ Level(a) <= Level(e)
        BY <2>1, CoversItself DEF Covers
  <2> QED BY <1>0, <2>1, <2>2, SameLevelCovers, CoversFather
<1> HIDE DEF H
<1>3. CASE e \notin isNew
  <2>1. e \in H /\ Old(e)
        BY <1>0, <1>1, <1>2, <1>3
  <2>2. \A a \in H : Old(a) => a = e
        BY <1>2, <1>3, <2>1
  <2>3. (CHOOSE a \in H : Old(a)) = e
    <3> HIDE DEF Old
    <3> QED BY <2>1, <2>2
  <2>4. Implicit!OldAncestor(e) = CHOOSE a \in H : Old(a)
        BY SameGrids DEF Implicit!OldAncestor, H
  <2> QED BY <1>3, <2>3, <2>4
<1>4. CASE e \in isNew
  <2> DEFINE r == Father(e)
  <2>1. /\ HasFather(e) /\ r \in Cells /\ Level(r) = Level(e) - 1 /\ Covers(r, e)
        /\ r \notin leaves
        BY <1>0, <1>4, FatherCovers, NeverAbove
  <2>2. r \in H /\ r \notin isNew
        BY <1>1, <2>1
  <2>3. \A b \in H : Level(b) > Level(r) => b = e
        BY <1>0, <1>2, <2>1
  <2>4. Old(r)
        BY <1>4, <2>2, <2>3
  <2>5. ASSUME NEW a \in H, Old(a) PROVE a = r
    <3>1. a # e
          BY <1>4, <2>5
    <3>2. a \in Cells /\ Covers(a, r) /\ Level(a) \in Nat
          BY <1>2, <3>1
    <3>3. ~(Level(r) > Level(a))
          BY <2>2, <2>5
    <3>4. Level(a) >= Level(r)
          BY <1>0, <2>1, <3>2, <3>3
    <3> QED BY <2>1, <3>2, <3>4, SameLevelCovers
  <2>6. (CHOOSE a \in H : Old(a)) = r
    <3> HIDE DEF Old, r
    <3> QED BY <2>2, <2>4, <2>5
  <2>7. Implicit!OldAncestor(e) = CHOOSE a \in H : Old(a)
        BY SameGrids DEF Implicit!OldAncestor, H
  <2> QED BY <1>4, <2>6, <2>7
<1> QED BY <1>3, <1>4

(* What GridDataTransfer::reconstruct computes from these entries on the   *)
(* new grid.                                                               *)
LEMMA MassReconstructedAre ==
    ASSUME IsGrid(leaves), IsGrid(DOMAIN saturation), BetweenGrids, MassEntriesOf(saturation),
           Exact(saturation), \A e \in DOMAIN saturation : saturation[e] \in Int
    PROVE  ReconstructedValues(Implicit!Reconstructed)
<1> DEFINE L == DOMAIN saturation
           value(e) == LET entry == Implicit!Entry(Implicit!OldAncestor(e))
                       IN  IF e \notin isNew /\ entry.wasLeaf THEN entry.u \div entry.count
                           ELSE entry.mass \div Implicit!Volume(Implicit!OldAncestor(e))
<1>0. /\ leaves \subseteq Cells /\ L \subseteq Cells /\ OneLevel(L, leaves) /\ isNew \subseteq leaves
      /\ \A e \in leaves : e \in isNew <=> HasFather(e) /\ Father(e) \in L
      /\ \A i \in Int : i \div 1 = i
      BY DEF IsGrid, BetweenGrids
<1>1. \A e \in leaves : Implicit!OldAncestor(e) = IF e \in isNew THEN Father(e) ELSE e
      BY <1>0, OldAncestorIs
<1>2. ASSUME NEW e \in leaves PROVE value(e) = Moved(saturation, e)
  <2>0. e \in Cells
        BY <1>0
  <2>1. CASE e \in isNew
    <3> DEFINE r == Father(e)
    <3>1. HasFather(e) /\ r \in L /\ Implicit!OldAncestor(e) = r
          BY <1>0, <1>1, <2>1
    <3>2. Moved(saturation, e) = saturation[r]
          BY <1>0, <3>1, MovedValues
    <3>3. r \in Cells /\ saturation[r] \in Int
          BY <1>0, <3>1
    <3> HIDE DEF r
    <3>4. Implicit!Entry(r).mass = Volume(r) * saturation[r]
          BY <3>1 DEF Implicit!Entry, MassEntriesOf
    <3>5. Implicit!Volume(r) = Volume(r) /\ Volume(r) \in Nat \ {0}
          BY <3>3, SameGrids, VolumeIsNat
    <3>6. (Volume(r) * saturation[r]) \div Volume(r) = saturation[r]
          BY <3>3, <3>5, ExactQuotient
    <3>7. value(e) = Implicit!Entry(r).mass \div Implicit!Volume(r)
          BY <2>1, <3>1
    <3> QED BY <3>2, <3>4, <3>5, <3>6, <3>7
  <2>2. CASE e \notin isNew /\ e \in L
    <3>1. Moved(saturation, e) = saturation[e] /\ saturation[e] \in Int
          BY <2>2 DEF Moved
    <3>2. /\ Implicit!Entry(e).wasLeaf = TRUE /\ Implicit!Entry(e).u = saturation[e]
          /\ Implicit!Entry(e).count = 1
          BY <2>2 DEF Implicit!Entry, MassEntriesOf
    <3>3. Implicit!OldAncestor(e) = e
          BY <1>1, <2>2
    <3>4. value(e) = Implicit!Entry(e).u \div Implicit!Entry(e).count
          BY <2>2, <3>2, <3>3
    <3> QED BY <1>0, <3>1, <3>2, <3>4
  <2>3. CASE e \notin isNew /\ e \notin L
    <3>1. ~(HasFather(e) /\ Father(e) \in L)
          BY <1>0, <2>3
    <3> DEFINE m == Moved(saturation, e)
    <3>2. /\ Level(e) < LevelMax /\ Children(e) \subseteq L /\ m \in Int
          /\ SumFunctionOnSet(saturation, Children(e)) = NumChildren * m
          BY <1>0, <2>3, <3>1, MovedValues
    <3>3. \A s \in L : Held(saturation)[s] = Volume(s) * saturation[s]
          BY <1>0, HeldIsInt
    <3>4. \A s \in Children(e) :
              saturation[s] \in Int /\ Held(saturation)[s] = Volume(s) * saturation[s]
          BY <3>2, <3>3
    <3> HIDE DEF m
    <3>5. SumFunctionOnSet(Held(saturation), Children(e)) = Volume(e) * m
          BY <2>0, <3>2, <3>4, AmountOfChildren
    <3>6. Implicit!Entry(e).wasLeaf = FALSE /\ Implicit!Entry(e).mass = Volume(e) * m
          BY <2>0, <3>2, <3>5 DEF Implicit!Entry, MassEntriesOf
    <3>7. Implicit!Volume(e) = Volume(e) /\ Volume(e) \in Nat \ {0}
          BY <2>0, SameGrids, VolumeIsNat
    <3>8. (Volume(e) * m) \div Volume(e) = m
          BY <3>2, <3>7, ExactQuotient
    <3>9. Implicit!OldAncestor(e) = e
          BY <1>1, <2>3
    <3>10. value(e) = Implicit!Entry(e).mass \div Implicit!Volume(e)
          BY <3>6, <3>9
    <3> QED BY <3>6, <3>7, <3>8, <3>10 DEF m
  <2> QED BY <2>1, <2>2, <2>3
<1>3. Implicit!Reconstructed = [e \in leaves |-> value(e)]
      BY DEF Implicit!Reconstructed
<1> HIDE DEF value
<1> QED BY <1>2, <1>3 DEF ReconstructedValues
-----------------------------------------------------------------------------
(* The implicit model. *)
MassInv ==
    /\ TransferInv /\ MarksBelow
    /\ phase \in {"stored", "adapted"} => MassEntriesOf(saturation)

(* Marking elements keeps the invariant. *)
LEMMA ImplicitMarks ==
    ASSUME MassInv, NEW mark, Implicit!MarkElements(mark), phase = "idle",
           mark = [e \in leaves |-> mark[e]], \A e \in leaves : mark[e] = 1 => Level(e) < LevelMax
    PROVE  MassInv'
<1>1. /\ marks' = mark /\ phase' = (IF \A e \in leaves : mark[e] = 0 THEN "done" ELSE "marked")
      /\ UNCHANGED <<leaves, saturation, previous, adaptationMap>>
      BY DEF Implicit!MarkElements
<1>2. phase' \in {"marked", "done"}
      BY <1>1, Zenon
<1>3. TransferInv'
      BY <1>1, <1>2, DataStay DEF MassInv
<1>4. MarksBelow'
      BY <1>1 DEF MarksBelow
<1> QED BY <1>2, <1>3, <1>4 DEF MassInv

(* Every action of the implicit model keeps the invariant. *)
LEMMA MassNextInv ==
    ASSUME ExactMeans, MassInv, [Implicit!TwoPNext]_(Implicit!twoPVars)
    PROVE  MassInv'
<1>0. /\ TransferInv /\ MarksBelow /\ (phase \in {"stored", "adapted"} => MassEntriesOf(saturation))
      /\ LevelMax \in Nat /\ LevelMin \in 0..LevelMax
      /\ \A e \in leaves : Level(e) \in 0..LevelMax
  <2>1. leaves \subseteq Cells
        BY DEF MassInv, TransferInv, IsGrid
  <2> QED BY <2>1, LevelsOfCells, AdaptiveGridAssumption DEF MassInv
<1>1. CASE Implicit!InitialRefinement
  <2> DEFINE mark == [e \in leaves |-> Implicit!InitMark(e)]
  <2>1. phase = "idle" /\ Implicit!MarkElements(mark)
        BY <1>1 DEF Implicit!InitialRefinement
  <2>2. \A e \in leaves : Implicit!InitMark(e) = 1 => Level(e) < LevelMax
    <3> SUFFICES ASSUME NEW e \in leaves, Implicit!InitMark(e) = 1 PROVE Level(e) < LevelMax
        OBVIOUS
    <3>1. Level(e) < LevelMin \/ Level(e) # LevelMax
          BY SameGrids DEF Implicit!InitMark
    <3> QED BY <1>0, <3>1
  <2>3. mark = [e \in leaves |-> mark[e]] /\ \A e \in leaves : mark[e] = 1 => Level(e) < LevelMax
        BY <2>2
  <2> HIDE DEF mark
  <2> QED BY <2>1, <2>3, ImplicitMarks
<1>2. CASE Implicit!Indicate
  <2>1. PICK wish \in Implicit!Wishes :
            Implicit!MarkElements([e \in leaves |-> Implicit!MarkOf(e, Implicit!Calculated(wish))])
        BY <1>2 DEF Implicit!Indicate
  <2> DEFINE mark == [e \in leaves |-> Implicit!MarkOf(e, Implicit!Calculated(wish))]
  <2>2. phase = "idle" /\ Implicit!MarkElements(mark)
        BY <1>2, <2>1 DEF Implicit!Indicate
  <2>3. \A e \in leaves : Implicit!MarkOf(e, Implicit!Calculated(wish)) = 1 => Level(e) < LevelMax
        BY SameGrids DEF Implicit!MarkOf
  <2>4. mark = [e \in leaves |-> mark[e]] /\ \A e \in leaves : mark[e] = 1 => Level(e) < LevelMax
        BY <2>3
  <2> HIDE DEF mark
  <2> QED BY <2>2, <2>4, ImplicitMarks
<1>3. CASE Implicit!Store
  <2>1. /\ phase = "marked" /\ phase' = "stored" /\ UNCHANGED <<leaves, marks, saturation>>
        /\ previous' = saturation /\ adaptationMap' = Implicit!Stored
        BY <1>3 DEF Implicit!Store, Implicit!gridVars
  <2>2. TransferInv' /\ MarksBelow'
        BY <1>0, <2>1, DataStored DEF MarksBelow
  <2>3. /\ IsGrid(leaves) /\ DOMAIN saturation = leaves /\ adaptationMap = NoEntries
        /\ \A e \in leaves : saturation[e] \in Int
        BY <1>0, <2>1 DEF TransferInv
  <2>4. MassEntriesOf(saturation)'
        BY <2>1, <2>3, MassStoredAre
  <2> QED BY <2>2, <2>4 DEF MassInv
<1>4. CASE Implicit!Adapt
  <2>1. /\ Implicit!GridAdapts /\ phase = "stored" /\ phase' = "adapted"
        /\ UNCHANGED <<saturation, previous, adaptationMap>>
        BY <1>4 DEF Implicit!Adapt
  <2>2. GridAdapts
        BY <2>1 DEF GridAdapts, Implicit!GridAdapts, HasFather, Implicit!HasFather, Level,
                    Implicit!Level, Children, Implicit!Children, Father, Implicit!Father,
                    Ancestor, Implicit!Ancestor, Dims, Implicit!Dims, PowerOfTwo, Implicit!PowerOfTwo
  <2>3. TransferInv' /\ MarksBelow'
        BY <1>0, <2>1, <2>2, GridSteps
  <2>4. MassEntriesOf(saturation)'
        BY <1>0, <2>1 DEF MassEntriesOf, Held
  <2> QED BY <2>3, <2>4 DEF MassInv
<1>5. CASE Implicit!Reconstruct
  <2>1. /\ phase = "adapted" /\ phase' = "reconstructed" /\ saturation' = Implicit!Reconstructed
        /\ adaptationMap' = Implicit!NoEntries /\ UNCHANGED <<leaves, marks, previous>>
        BY <1>5 DEF Implicit!Reconstruct
  <2>2. Implicit!NoEntries = NoEntries
        BY DEF Implicit!NoEntries, NoEntries
  <2>3. ReconstructedValues(Implicit!Reconstructed)
        BY <1>0, <2>1, MassReconstructedAre DEF TransferInv
  <2>4. ReconstructedValues(saturation')
        BY <2>1, <2>3 DEF ReconstructedValues
  <2>5. TransferInv'
        BY <1>0, <2>1, <2>2, <2>4, DataReconstructed
  <2> QED BY <1>0, <2>1, <2>5 DEF MassInv, MarksBelow
<1>6. CASE Implicit!UpdateGridData
  <2>1. /\ phase = "reconstructed" /\ phase' = "done"
        /\ UNCHANGED <<leaves, marks, saturation, previous, adaptationMap>>
        BY <1>6 DEF Implicit!UpdateGridData, Implicit!gridVars
  <2>2. TransferInv'
        BY <1>0, <2>1, DataStay
  <2> QED BY <1>0, <2>1, <2>2 DEF MassInv, MarksBelow
<1>7. CASE Implicit!EndRound
  <2>1. /\ phase = "done" /\ phase' = "idle"
        /\ UNCHANGED <<leaves, marks, saturation, previous, adaptationMap>>
        BY <1>7 DEF Implicit!EndRound, Implicit!gridVars
  <2>2. TransferInv'
        BY <1>0, <2>1, DataStay
  <2> QED BY <1>0, <2>1, <2>2 DEF MassInv, MarksBelow
<1>8. CASE Implicit!Solve
  <2>1. /\ phase = (IF round = LevelMax + 1 THEN "idle" ELSE "done") /\ phase' = "idle"
        /\ saturation' = [e \in leaves |-> Field(e)] /\ previous' = saturation'
        /\ UNCHANGED <<leaves, marks, adaptationMap>>
        BY <1>8 DEF Implicit!Solve, Implicit!gridVars
  <2>2. phase # "adapted" /\ phase # "stored"
        BY <2>1
  <2>3. TransferInv'
        BY <1>0, <2>1, <2>2, NewField
  <2> QED BY <1>0, <2>1, <2>3 DEF MassInv, MarksBelow
<1>9. CASE UNCHANGED Implicit!twoPVars
  <2>1. UNCHANGED <<leaves, marks, isNew, phase, saturation, previous, adaptationMap>>
        BY <1>9 DEF Implicit!twoPVars, Implicit!gridVars
  <2>2. UNCHANGED BetweenGrids /\ UNCHANGED MassEntriesOf(saturation) /\ UNCHANGED MarksBelow
        BY <2>1 DEF BetweenGrids, MassEntriesOf, Held, MarksBelow
  <2>3. UNCHANGED TransferInv
        BY <2>1, <2>2 DEF TransferInv, NoEntries
  <2> QED BY <1>0, <2>1, <2>2, <2>3 DEF MassInv
<1> QED BY <1>1, <1>2, <1>3, <1>4, <1>5, <1>6, <1>7, <1>8, <1>9 DEF Implicit!TwoPNext

(* Conservation in the words of the implicit model. *)
LEMMA SameConservation ==
    ASSUME NEW v, NEW w, SameAmounts(v, w)
    PROVE  Implicit!SameAmounts(v, w)
<1>1. ASSUME NEW f, NEW a PROVE Implicit!Amount(f, a) = Amount(f, a)
  <2>1. [e \in DOMAIN f |-> Implicit!Volume(e) * f[e]] = [e \in DOMAIN f |-> Volume(e) * f[e]]
        BY SameGrids
  <2>2. {e \in DOMAIN f : Implicit!Covers(a, e)} = {e \in DOMAIN f : Covers(a, e)}
        BY SameGrids
  <2> QED BY <2>1, <2>2, SameSums DEF Implicit!Amount, Amount
<1>2. Implicit!Hierarchy(DOMAIN v) = Hierarchy(DOMAIN v)
      /\ Implicit!Hierarchy(DOMAIN w) = Hierarchy(DOMAIN w)
      BY SameGrids
<1> QED BY <1>1, <1>2 DEF Implicit!SameAmounts, SameAmounts

(* Implicit model: the store, adapt and reconstruct of GridDataTransfer    *)
(* conserve the mass in every element of both grids, from the first round  *)
(* of the initial refinement on and however often the grid is adapted --   *)
(* given that the means of the data are exact (2p/griddatatransfer.hh).    *)
THEOREM MassStays == ExactMeans => (Spec => []MassKept)
<1> SUFFICES ASSUME ExactMeans PROVE Spec => []MassKept
    OBVIOUS
<1> DEFINE Inv == model = "implicit" => MassInv
<1>1. Init => Inv
  <2> SUFFICES ASSUME Init PROVE MassInv
      OBVIOUS
  <2>1. InitialGrid /\ phase = "idle"
        BY DEF Init, AdaptInit, InitialGrid
  <2> QED BY <2>1, TransferInit DEF MassInv
<1>2. Inv /\ [Next]_allVars => Inv'
  <2> SUFFICES ASSUME Inv, [Next]_allVars, model' = "implicit" PROVE MassInv'
      OBVIOUS
  <2>1. model = "implicit"
        BY DEF Next, allVars
  <2>2. [Implicit!TwoPNext]_(Implicit!twoPVars)
    <3>1. CASE Next
          BY <2>1, <3>1 DEF Next
    <3>2. CASE UNCHANGED allVars
          BY <3>2 DEF allVars, adaptVars, gridVars, dataVars, initVars, Implicit!twoPVars,
                      Implicit!gridVars
    <3> QED BY <3>1, <3>2
  <2> QED BY <2>1, <2>2, MassNextInv
<1>3. Inv => MassKept
  <2> SUFFICES ASSUME MassInv, phase \in {"reconstructed", "done"}
               PROVE  Implicit!SameAmounts(previous, saturation)
      BY DEF MassKept, Implicit!MassConserved
  <2>1. SameAmounts(previous, saturation)
        BY DEF MassInv, TransferInv
  <2> QED BY <2>1, SameConservation
<1> HIDE DEF Inv
<1> QED BY <1>1, <1>2, <1>3, PTL DEF Spec
=============================================================================
