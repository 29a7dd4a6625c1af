--------------------------- MODULE AdaptionProofs ---------------------------
(***************************************************************************)
(* Proofs about the two kinds of grid adaption, for every grid of cubes in *)
(* any dimension, all levels and whatever the indicators want.             *)
(*                                                                         *)
(* The first sections have what these and the modules that extend this one *)
(* need about finite sets.  SumFunctionOnSet of the community modules is a *)
(* recursion over a set: what it takes out, its independence of the order, *)
(* sums over parts and over groups of a set, common factors.  The          *)
(* recursion is a function that is chosen, so that its existence has to be *)
(* shown first, by induction over the cardinality.                         *)
(***************************************************************************)
EXTENDS MC_Adaption, FiniteSetTheorems, TLAPS

(* A nonempty set of natural numbers has a least element. *)
LEMMA Least ==
    ASSUME NEW S \in SUBSET Nat, S # {}
    PROVE  \E x \in S : \A y \in S : x <= y
<1>1. PICK x \in S : \A y \in S : ~(<<y, x>> \in OpToRel(<, Nat))
      BY NatLessThanWellFounded, WFMin, Zenon
<1>2. OpToRel(<, Nat) = {ss \in Nat \X Nat : ss[1] < ss[2]}
      BY Zenon DEF OpToRel
<1> DEFINE less == {ss \in Nat \X Nat : ss[1] < ss[2]}
<1>3. \A y \in S : <<y, x>> \notin less
      BY <1>1, <1>2, Zenon
<1>4. ASSUME NEW y \in S, ~(x <= y) PROVE FALSE
  <2>1. x \in Nat /\ y \in Nat /\ y < x
        BY <1>4
  <2>2. <<y, x>> \in less
        BY <2>1
  <2> QED BY <1>3, <2>2
<1> QED BY <1>4
-----------------------------------------------------------------------------
(* Sums over finite sets.  A property of finite sets that fails fails for  *)
(* one all of whose proper subsets have it.                                *)
LEMMA Smallest ==
    ASSUME NEW S, IsFiniteSet(S), NEW Bad \in SUBSET (SUBSET S), Bad # {}
    PROVE  \E T \in Bad : \A U \in Bad : U \subseteq T => U = T
<1>1. IsWellFoundedOn(StrictSubsetOrdering(S), SUBSET S)
      BY FS_StrictSubsetOrderingWellFounded, FS_FiniteSubsetsOfFinite
<1>2. PICK T \in Bad : \A U \in Bad : ~(<<U, T>> \in StrictSubsetOrdering(S))
      BY <1>1, WFMin, Zenon
<1>3. ASSUME NEW U \in Bad, U \subseteq T, U # T PROVE FALSE
  <2>1. <<U, T>> \in (SUBSET S) \X (SUBSET S) /\ <<U, T>>[1] = U /\ <<U, T>>[2] = T
        OBVIOUS
  <2>2. <<U, T>> \in StrictSubsetOrdering(S)
        BY <1>3, <2>1, Zenon DEF StrictSubsetOrdering
  <2> QED BY <1>2, <2>2
<1> QED BY <1>3

(* The recursion by which the community modules add up. *)
Some(T) == CHOOSE x \in T : TRUE
PartSum(g, f, T) == IF T = {} THEN 0 ELSE f[Some(T)] + g[T \ {Some(T)}]
AddsUp(g, f, S) == g = [T \in SUBSET S |-> PartSum(g, f, T)]

(* The element that the recursion takes next. *)
LEMMA SomeOfSet ==
    ASSUME NEW T, T # {}
    PROVE  Some(T) \in T
BY DEF Some

(* The recursion defines a function: by induction over the cardinality. *)
LEMMA PartSumsExist ==
    ASSUME NEW f, NEW S, IsFiniteSet(S)
    PROVE  \E g : AddsUp(g, f, S)
<1> DEFINE upTo(g, k) == \A T \in SUBSET S : Cardinality(T) <= k => g[T] = PartSum(g, f, T)
           Missing == {k \in 0..Cardinality(S) : ~\E g : upTo(g, k)}
<1>0. /\ Cardinality(S) \in Nat
      /\ \A T \in SUBSET S : IsFiniteSet(T) /\ Cardinality(T) \in 0..Cardinality(S)
      BY FS_CardinalityType, FS_Subset
<1>1. Missing = {}
  <2> SUFFICES ASSUME Missing # {} PROVE FALSE
      OBVIOUS
  <2>0. Missing \in SUBSET Nat
        OBVIOUS
  <2> HIDE DEF Missing
  <2>1. PICK k \in Missing : \A l \in Missing : k <= l
        BY <2>0, Least
  <2>2. k \in 0..Cardinality(S) /\ ~\E g : upTo(g, k)
        BY <2>1 DEF Missing
  <2>3. CASE k = 0
    <3> DEFINE g == [T \in SUBSET S |-> 0]
    <3>1. ASSUME NEW T \in SUBSET S, Cardinality(T) <= k PROVE g[T] = PartSum(g, f, T)
      <4>1. T = {}
            BY <1>0, <2>3, <3>1, FS_EmptySet
      <4> QED BY <4>1 DEF PartSum
    <3> QED BY <2>2, <3>1
  <2>4. CASE k # 0
    <3>1. k - 1 \in 0..Cardinality(S) /\ k - 1 \notin Missing
          BY <1>0, <2>0, <2>1, <2>2, <2>4
    <3>2. PICK g : upTo(g, k - 1)
          BY <3>1 DEF Missing
    <3> DEFINE h == [T \in SUBSET S |-> IF Cardinality(T) = k THEN PartSum(g, f, T) ELSE g[T]]
    <3>3. ASSUME NEW T \in SUBSET S, Cardinality(T) <= k PROVE h[T] = PartSum(h, f, T)
      <4>1. PartSum(h, f, T) = PartSum(g, f, T)
        <5>1. CASE T = {}
              BY <5>1 DEF PartSum
        <5>2. CASE T # {}
          <6>1. Cardinality(T \ {Some(T)}) = Cardinality(T) - 1 /\ T \ {Some(T)} \in SUBSET S
                BY <1>0, <5>2, SomeOfSet, FS_RemoveElement
          <6>2. Cardinality(T \ {Some(T)}) # k
                BY <1>0, <2>2, <3>3, <6>1
          <6>3. h[T \ {Some(T)}] = g[T \ {Some(T)}]
                BY <6>1, <6>2
          <6> HIDE DEF h
          <6> QED BY <6>3 DEF PartSum
        <5> QED BY <5>1, <5>2
      <4>2. CASE Cardinality(T) = k
            BY <4>1, <4>2
      <4>3. CASE Cardinality(T) # k
        <5>1. Cardinality(T) <= k - 1
              BY <1>0, <2>2, <3>3, <4>3
        <5>2. g[T] = PartSum(g, f, T)
              BY <3>2, <5>1
        <5>3. h[T] = g[T]
              BY <4>3
        <5> HIDE DEF h
        <5> QED BY <4>1, <5>2, <5>3
      <4> QED BY <4>2, <4>3
    <3> HIDE DEF h
    <3> QED BY <2>2, <3>3
  <2> QED BY <2>3, <2>4
<1>2. PICK g : upTo(g, Cardinality(S))
      BY <1>0, <1>1
<1> DEFINE h == [T \in SUBSET S |-> g[T]]
<1>3. ASSUME NEW T \in SUBSET S PROVE h[T] = PartSum(h, f, T)
  <2>1. g[T] = PartSum(g, f, T)
        BY <1>0, <1>2
  <2>2. T # {} => T \ {Some(T)} \in SUBSET S
        OBVIOUS
  <2> QED BY <2>1, <2>2 DEF PartSum
<1>4. h = [T \in SUBSET S |-> PartSum(h, f, T)]
  <2>1. h = [T \in SUBSET S |-> h[T]]
        OBVIOUS
  <2> HIDE DEF h
  <2> QED BY <1>3, <2>1
<1> QED BY <1>4 DEF AddsUp

(* Two such functions agree on the smaller of their sets. *)
LEMMA PartSumsAgree ==
    ASSUME NEW f, NEW g, NEW h, NEW S, IsFiniteSet(S), NEW R \in SUBSET S,
           AddsUp(g, f, S), AddsUp(h, f, R)
    PROVE  g[R] = h[R]
<1> DEFINE Bad == {T \in SUBSET R : g[T] # h[T]}
<1>1. \A T \in SUBSET R : g[T] = PartSum(g, f, T) /\ h[T] = PartSum(h, f, T)
      BY DEF AddsUp
<1>2. Bad = {}
  <2> SUFFICES ASSUME Bad # {} PROVE FALSE
      OBVIOUS
  <2>1. IsFiniteSet(R) /\ Bad \in SUBSET (SUBSET R)
        BY FS_Subset
  <2> HIDE DEF Bad
  <2>2. PICK T \in Bad : \A U \in Bad : U \subseteq T => U = T
        BY <2>1, Smallest
  <2>3. T \in SUBSET R /\ g[T] # h[T]
        BY <2>2 DEF Bad
  <2>4. T # {}
        BY <1>1, <2>3 DEF PartSum
  <2>5. T \ {Some(T)} \in SUBSET R /\ T \ {Some(T)} \notin Bad
        BY <2>2, <2>3, <2>4, SomeOfSet
  <2>6. g[T \ {Some(T)}] = h[T \ {Some(T)}]
        BY <2>5 DEF Bad
  <2> QED BY <1>1, <2>3, <2>6 DEF PartSum
<1> QED BY <1>2

(* What SumFunctionOnSet is: the value at one element, and the sum over the*)
(* others.                                                                 *)
LEMMA SumOfSet ==
    ASSUME NEW f, NEW S, IsFiniteSet(S)
    PROVE  /\ S = {} => SumFunctionOnSet(f, S) = 0
           /\ S # {} => SumFunctionOnSet(f, S) =
                           f[Some(S)] + SumFunctionOnSet(f, S \ {Some(S)})
<1> DEFINE partSums(T) == CHOOSE g : AddsUp(g, f, T)
<1>1. ASSUME NEW T PROVE SumFunctionOnSet(f, T) = partSums(T)[T]
      BY DEF SumFunctionOnSet, FoldFunctionOnSet, MapThenFoldSet, AddsUp, PartSum, Some
<1>2. ASSUME NEW T \in SUBSET S PROVE AddsUp(partSums(T), f, T)
  <2>1. \E g : AddsUp(g, f, T)
        BY FS_Subset, PartSumsExist
  <2> QED BY <2>1, Zenon
<1> HIDE DEF partSums
<1>3. partSums(S)[S] = PartSum(partSums(S), f, S)
      BY <1>2 DEF AddsUp
<1>4. ASSUME S # {} PROVE partSums(S)[S \ {Some(S)}] = SumFunctionOnSet(f, S \ {Some(S)})
      BY <1>1, <1>2, PartSumsAgree
<1> QED BY <1>1, <1>3, <1>4 DEF PartSum

(* Sums of integers are integers, whatever element is taken first. *)
LEMMA SumIsInt ==
    ASSUME NEW S, IsFiniteSet(S), NEW f, \A x \in S : f[x] \in Int
    PROVE  SumFunctionOnSet(f, S) \in Int
<1> DEFINE Bad == {T \in SUBSET S : SumFunctionOnSet(f, T) \notin Int}
<1>1. Bad = {}
  <2> SUFFICES ASSUME Bad # {} PROVE FALSE
      OBVIOUS
  <2>1. Bad \in SUBSET (SUBSET S)
        OBVIOUS
  <2> HIDE DEF Bad
  <2>2. PICK T \in Bad : \A U \in Bad : U \subseteq T => U = T
        BY <2>1, Smallest
  <2>3. T \in SUBSET S /\ SumFunctionOnSet(f, T) \notin Int /\ IsFiniteSet(T)
        BY <2>2, FS_Subset DEF Bad
  <2>4. T # {}
        BY <2>3, SumOfSet
  <2>5. Some(T) \in T
        BY <2>4, SomeOfSet
  <2>6. T \ {Some(T)} \in SUBSET S /\ T \ {Some(T)} \notin Bad
        BY <2>2, <2>3, <2>5
  <2>7. SumFunctionOnSet(f, T \ {Some(T)}) \in Int
        BY <2>6 DEF Bad
  <2> QED BY <2>3, <2>4, <2>5, <2>7, SumOfSet
<1> QED BY <1>1

(* Any element can be the one that is taken out. *)
LEMMA SumTakesOut ==
    ASSUME NEW S, IsFiniteSet(S), NEW f, \A x \in S : f[x] \in Int, NEW y \in S
    PROVE  SumFunctionOnSet(f, S) = f[y] + SumFunctionOnSet(f, S \ {y})
<1> DEFINE sum(T) == SumFunctionOnSet(f, T)
           Bad == {T \in SUBSET S : \E z \in T : sum(T) # f[z] + sum(T \ {z})}
<1>0. \A T \in SUBSET S : IsFiniteSet(T) /\ sum(T) \in Int
      BY FS_Subset, SumIsInt
<1>1. Bad = {}
  <2> SUFFICES ASSUME Bad # {} PROVE FALSE
      OBVIOUS
  <2>1. Bad \in SUBSET (SUBSET S)
        OBVIOUS
  <2> HIDE DEF Bad
  <2>2. PICK T \in Bad : \A U \in Bad : U \subseteq T => U = T
        BY <2>1, Smallest
  <2>3. PICK z \in T : T \in SUBSET S /\ sum(T) # f[z] + sum(T \ {z})
        BY <2>2 DEF Bad
  <2> DEFINE x == Some(T)
  <2>4. x \in T /\ sum(T) = f[x] + sum(T \ {x})
        BY <1>0, <2>3, SomeOfSet, SumOfSet
  <2> HIDE DEF x, sum
  <2>5. x # z
        BY <2>3, <2>4
  <2>6. /\ T \ {x} \in SUBSET S /\ T \ {z} \in SUBSET S /\ (T \ {x}) \ {z} = (T \ {z}) \ {x}
        /\ T \ {x} # T /\ T \ {z} # T /\ z \in T \ {x} /\ x \in T \ {z}
        /\ (T \ {x}) \ {z} \in SUBSET S
        BY <2>3, <2>4, <2>5
  <2>7. T \ {x} \notin Bad /\ T \ {z} \notin Bad
        BY <2>2, <2>6
  <2>8. /\ sum(T \ {x}) = f[z] + sum((T \ {x}) \ {z})
        /\ sum(T \ {z}) = f[x] + sum((T \ {z}) \ {x})
        BY <2>6, <2>7 DEF Bad
  <2>9. PICK i \in Int, j \in Int, r \in Int :
            i = f[x] /\ j = f[z] /\ r = sum((T \ {x}) \ {z})
        BY <1>0, <2>3, <2>4, <2>6
  <2>10. sum(T) = i + (j + r) /\ sum(T \ {z}) = i + r
        BY <2>4, <2>6, <2>8, <2>9
  <2> QED BY <2>3, <2>9, <2>10
<1> QED BY <1>1

(* A sum depends on the values at the elements alone. *)
LEMMA SumCongruence ==
    ASSUME NEW S, IsFiniteSet(S), NEW f, NEW g, \A x \in S : f[x] = g[x]
    PROVE  SumFunctionOnSet(f, S) = SumFunctionOnSet(g, S)
<1> DEFINE Bad == {T \in SUBSET S : SumFunctionOnSet(f, T) # SumFunctionOnSet(g, T)}
<1>1. Bad = {}
  <2> SUFFICES ASSUME Bad # {} PROVE FALSE
      OBVIOUS
  <2>1. Bad \in SUBSET (SUBSET S)
        OBVIOUS
  <2> HIDE DEF Bad
  <2>2. PICK T \in Bad : \A U \in Bad : U \subseteq T => U = T
        BY <2>1, Smallest
  <2>3. /\ T \in SUBSET S /\ IsFiniteSet(T)
        /\ SumFunctionOnSet(f, T) # SumFunctionOnSet(g, T)
        BY <2>2, FS_Subset DEF Bad
  <2>4. T # {}
        BY <2>3, SumOfSet
  <2>5. Some(T) \in T
        BY <2>4, SomeOfSet
  <2>6. T \ {Some(T)} \in SUBSET S /\ T \ {Some(T)} \notin Bad
        BY <2>2, <2>3, <2>5
  <2>7. SumFunctionOnSet(f, T \ {Some(T)}) = SumFunctionOnSet(g, T \ {Some(T)})
        BY <2>6 DEF Bad
  <2>8. f[Some(T)] = g[Some(T)]
        BY <2>3, <2>5
  <2> QED BY <2>3, <2>4, <2>7, <2>8, SumOfSet
<1> QED BY <1>1

(* The sum over two disjoint sets. *)
LEMMA SumOfDisjoint ==
    ASSUME NEW S, IsFiniteSet(S), NEW R, IsFiniteSet(R), S \cap R = {},
           NEW f, \A x \in S \cup R : f[x] \in Int
    PROVE  SumFunctionOnSet(f, S \cup R) = SumFunctionOnSet(f, S) + SumFunctionOnSet(f, R)
<1> DEFINE sum(T) == SumFunctionOnSet(f, T)
           Bad == {T \in SUBSET S : sum(T \cup R) # sum(T) + sum(R)}
<1>0. /\ \A T \in SUBSET S : IsFiniteSet(T \cup R) /\ IsFiniteSet(T)
      /\ \A T \in SUBSET S : sum(T) \in Int /\ sum(T \cup R) \in Int
      /\ sum(R) \in Int /\ sum({}) = 0
      BY FS_Subset, FS_Union, FS_EmptySet, SumIsInt, SumOfSet
<1>1. Bad = {}
  <2> SUFFICES ASSUME Bad # {} PROVE FALSE
      OBVIOUS
  <2>1. Bad \in SUBSET (SUBSET S)
        OBVIOUS
  <2> HIDE DEF Bad
  <2>2. PICK T \in Bad : \A U \in Bad : U \subseteq T => U = T
        BY <2>1, Smallest
  <2>3. T \in SUBSET S /\ sum(T \cup R) # sum(T) + sum(R)
        BY <2>2 DEF Bad
  <2>4. T # {}
    <3> SUFFICES ASSUME T = {} PROVE FALSE
        OBVIOUS
    <3>1. T \cup R = R
          OBVIOUS
    <3> HIDE DEF sum
    <3> QED BY <1>0, <2>3, <3>1
  <2> DEFINE x == Some(T)
  <2>5. x \in T
        BY <2>4, SomeOfSet
  <2> HIDE DEF x
  <2>6. T \ {x} \in SUBSET S /\ T \ {x} \notin Bad /\ (T \cup R) \ {x} = (T \ {x}) \cup R
        /\ x \in T \cup R
        BY <2>2, <2>3, <2>5
  <2>7. sum((T \ {x}) \cup R) = sum(T \ {x}) + sum(R)
        BY <2>6 DEF Bad
  <2>8. sum(T) = f[x] + sum(T \ {x})
        BY <1>0, <2>3, <2>5, SumTakesOut
  <2>9. sum(T \cup R) = f[x] + sum((T \ {x}) \cup R)
    <3>1. \A y \in T \cup R : f[y] \in Int
          BY <2>3
    <3>2. sum(T \cup R) = f[x] + sum((T \cup R) \ {x})
          BY <1>0, <2>3, <2>6, <3>1, SumTakesOut
    <3> QED BY <2>6, <3>2
  <2>10. f[x] \in Int /\ sum(T \ {x}) \in Int /\ sum(R) \in Int
        BY <1>0, <2>3, <2>5, <2>6
  <2> HIDE DEF sum
  <2> QED BY <2>3, <2>7, <2>8, <2>9, <2>10
<1>2. S \notin Bad
      BY <1>1
<1> QED BY <1>2

LEMMA Distributes == \A a, b, c \in Int : c * (a + b) = (c * a) + (c * b)
OBVIOUS

(* A common factor. *)
LEMMA SumOfMultiples ==
    ASSUME NEW S, IsFiniteSet(S), NEW c \in Int, NEW f, NEW g,
           \A x \in S : g[x] \in Int /\ f[x] = c * g[x]
    PROVE  SumFunctionOnSet(f, S) = c * SumFunctionOnSet(g, S)
<1> DEFINE Bad == {T \in SUBSET S : SumFunctionOnSet(f, T) # c * SumFunctionOnSet(g, T)}
<1>1. Bad = {}
  <2> SUFFICES ASSUME Bad # {} PROVE FALSE
      OBVIOUS
  <2>1. Bad \in SUBSET (SUBSET S)
        OBVIOUS
  <2> HIDE DEF Bad
  <2>2. PICK T \in Bad : \A U \in Bad : U \subseteq T => U = T
        BY <2>1, Smallest
  <2>3. /\ T \in SUBSET S /\ IsFiniteSet(T)
        /\ SumFunctionOnSet(f, T) # c * SumFunctionOnSet(g, T)
        BY <2>2, FS_Subset DEF Bad
  <2>4. T # {}
    <3>1. c * 0 = 0
          OBVIOUS
    <3> QED BY <2>3, <3>1, SumOfSet
  <2> DEFINE x == Some(T)
  <2>5. x \in T
        BY <2>4, SomeOfSet
  <2>6. /\ SumFunctionOnSet(f, T) = f[x] + SumFunctionOnSet(f, T \ {x})
        /\ SumFunctionOnSet(g, T) = g[x] + SumFunctionOnSet(g, T \ {x})
        BY <2>3, <2>4, SumOfSet
  <2> HIDE DEF x
  <2>7. T \ {x} \in SUBSET S /\ T \ {x} \notin Bad
        BY <2>2, <2>3, <2>5
  <2>8. SumFunctionOnSet(f, T \ {x}) = c * SumFunctionOnSet(g, T \ {x})
        BY <2>7 DEF Bad
  <2>9. SumFunctionOnSet(g, T \ {x}) \in Int
        BY <2>7, FS_Subset, SumIsInt
  <2>10. PICK i \in Int, r \in Int : i = g[x] /\ r = SumFunctionOnSet(g, T \ {x})
        BY <2>3, <2>5, <2>9
  <2>11. SumFunctionOnSet(f, T) = (c * i) + (c * r)
        BY <2>3, <2>5, <2>6, <2>8, <2>10
  <2>12. SumFunctionOnSet(g, T) = i + r
        BY <2>6, <2>10
  <2>13. c * (i + r) = (c * i) + (c * r)
        BY Distributes
  <2> QED BY <2>3, <2>11, <2>12, <2>13
<1> QED BY <1>1

(* Ones add up to the cardinality. *)
LEMMA SumOfOnes ==
    ASSUME NEW S, IsFiniteSet(S), NEW f, \A x \in S : f[x] = 1
    PROVE  SumFunctionOnSet(f, S) = Cardinality(S)
<1> DEFINE Bad == {T \in SUBSET S : SumFunctionOnSet(f, T) # Cardinality(T)}
<1>1. Bad = {}
  <2> SUFFICES ASSUME Bad # {} PROVE FALSE
      OBVIOUS
  <2>1. Bad \in SUBSET (SUBSET S)
        OBVIOUS
  <2> HIDE DEF Bad
  <2>2. PICK T \in Bad : \A U \in Bad : U \subseteq T => U = T
        BY <2>1, Smallest
  <2>3. T \in SUBSET S /\ IsFiniteSet(T) /\ SumFunctionOnSet(f, T) # Cardinality(T)
        BY <2>2, FS_Subset DEF Bad
  <2>4. T # {}
        BY <2>3, SumOfSet, FS_EmptySet
  <2> DEFINE x == Some(T)
  <2>5. x \in T
        BY <2>4, SomeOfSet
  <2>6. SumFunctionOnSet(f, T) = f[x] + SumFunctionOnSet(f, T \ {x})
        BY <2>3, <2>4, SumOfSet
  <2> HIDE DEF x
  <2>7. T \ {x} \in SUBSET S /\ T \ {x} \notin Bad
        BY <2>2, <2>3, <2>5
  <2>8. SumFunctionOnSet(f, T \ {x}) = Cardinality(T \ {x})
        BY <2>7 DEF Bad
  <2>9. Cardinality(T \ {x}) = Cardinality(T) - 1 /\ Cardinality(T) \in Nat
        BY <2>3, <2>5, FS_RemoveElement, FS_CardinalityType
  <2> QED BY <2>3, <2>5, <2>6, <2>8, <2>9
<1> QED BY <1>1

(* The elements of a set summed in groups: g says which group. *)
Grouped(f, S, g, G, h) ==
    /\ \A x \in S : f[x] \in Int /\ g[x] \in G
    /\ \A t \in G : h[t] = SumFunctionOnSet(f, {x \in S : g[x] = t})

(* A sum of sums over groups. *)
LEMMA SumInGroups ==
    ASSUME NEW S, IsFiniteSet(S), NEW G, IsFiniteSet(G), NEW f, NEW g, NEW h,
           Grouped(f, S, g, G, h)
    PROVE  SumFunctionOnSet(f, S) = SumFunctionOnSet(h, G)
<1> USE DEF Grouped
<1> DEFINE in(U) == {x \in S : g[x] \in U}
           Bad == {U \in SUBSET G : SumFunctionOnSet(f, in(U)) # SumFunctionOnSet(h, U)}
<1>1. Bad = {}
  <2> SUFFICES ASSUME Bad # {} PROVE FALSE
      OBVIOUS
  <2>1. Bad \in SUBSET (SUBSET G)
        OBVIOUS
  <2> HIDE DEF Bad
  <2>2. PICK U \in Bad : \A V \in Bad : V \subseteq U => V = U
        BY <2>1, Smallest
  <2>3. /\ U \in SUBSET G /\ IsFiniteSet(U)
        /\ SumFunctionOnSet(f, in(U)) # SumFunctionOnSet(h, U)
        BY <2>2, FS_Subset DEF Bad
  <2>4. U # {}
    <3> SUFFICES ASSUME U = {} PROVE FALSE
        OBVIOUS
    <3>1. in(U) = {}
          OBVIOUS
    <3> HIDE DEF in
    <3> QED BY <2>3, <3>1, FS_EmptySet, SumOfSet
  <2> DEFINE t == Some(U)
  <2>5. t \in U
        BY <2>4, SomeOfSet
  <2>6. SumFunctionOnSet(h, U) = h[t] + SumFunctionOnSet(h, U \ {t})
        BY <2>3, <2>4, SumOfSet
  <2> HIDE DEF t
  <2>7. U \ {t} \in SUBSET G /\ U \ {t} \notin Bad
        BY <2>2, <2>3, <2>5
  <2>8. SumFunctionOnSet(f, in(U \ {t})) = SumFunctionOnSet(h, U \ {t})
        BY <2>7 DEF Bad
  <2> DEFINE one == {x \in S : g[x] = t}
  <2>9. /\ one \in SUBSET S /\ in(U \ {t}) \in SUBSET S
        /\ in(U) = one \cup in(U \ {t}) /\ one \cap in(U \ {t}) = {}
        BY <2>5
  <2>10. h[t] = SumFunctionOnSet(f, one)
        BY <2>3, <2>5
  <2> HIDE DEF one, in
  <2>11. IsFiniteSet(one) /\ IsFiniteSet(in(U \ {t}))
        BY <2>9, FS_Subset
  <2>12. \A x \in one \cup in(U \ {t}) : f[x] \in Int
        BY <2>9
  <2>13. SumFunctionOnSet(f, one \cup in(U \ {t})) =
             SumFunctionOnSet(f, one) + SumFunctionOnSet(f, in(U \ {t}))
        BY <2>9, <2>11, <2>12, SumOfDisjoint
  <2> QED BY <2>3, <2>6, <2>8, <2>9, <2>10, <2>13
<1>2. G \notin Bad /\ in(G) = S
      BY <1>1
<1> QED BY <1>2
-----------------------------------------------------------------------------
(* The elements there can be. *)
Cells == (0..LevelMax) \X [Dims -> Nat]

(* What holds of the sequential model besides its types: only elements     *)
(* below the highest level are marked to be refined, and the cell data     *)
(* that is stored is that of the leaves.                                   *)
GridInv ==
    /\ AdaptTypeOK
    /\ leaves \subseteq Cells
    /\ \A e \in leaves : marks[e] = 1 => Level(e) < LevelMax
    /\ phase = "stored" => DOMAIN previous = leaves
    /\ initializing => iter <= MaxIter
-----------------------------------------------------------------------------
(* Max and Min of the community modules, for the sets of the model. *)
LEMMA MaxOfBounded ==
    ASSUME NEW n \in Nat, NEW S \in SUBSET (0..n), S # {}
    PROVE  Max(S) \in S /\ \A y \in S : Max(S) >= y
<1> DEFINE T == {n - y : y \in S}
<1>1. T \in SUBSET Nat /\ T # {}
  <2>1. \A y \in S : n - y \in Nat
        OBVIOUS
  <2> QED BY <2>1
<1> HIDE DEF T
<1>2. PICK t \in T : \A u \in T : t <= u
      BY <1>1, Least
<1>3. PICK x \in S : t = n - x
      BY <1>2 DEF T
<1>4. ASSUME NEW y \in S PROVE x >= y
  <2>1. n - y \in T
        BY DEF T
  <2> QED BY <1>2, <1>3, <2>1
<1> QED BY <1>4 DEF Max

LEMMA MinOfTwo ==
    ASSUME NEW a \in Int, NEW b \in Int
    PROVE  Min({a, b}) = IF a <= b THEN a ELSE b
<1> DEFINE m == IF a <= b THEN a ELSE b
<1>1. m \in {a, b} /\ \A y \in {a, b} : m <= y
      OBVIOUS
<1>2. \A x \in {a, b} : (\A y \in {a, b} : x <= y) => x = m
      OBVIOUS
<1> QED BY <1>1, <1>2 DEF Min
-----------------------------------------------------------------------------
(* Functions like PowerOfTwo exist. *)
LEMMA PowersExist ==
    ASSUME NEW b, NEW m \in Nat
    PROVE  \E f : f = [n \in 0..m |-> IF n = 0 THEN 1 ELSE b * f[n - 1]]
<1> DEFINE upTo(f, k) == \A n \in 0..k : f[n] = IF n = 0 THEN 1 ELSE b * f[n - 1]
           Missing == {k \in 0..m : ~\E f : f = [n \in 0..m |-> f[n]] /\ upTo(f, k)}
<1>1. Missing = {}
  <2> SUFFICES ASSUME Missing # {} PROVE FALSE
      OBVIOUS
  <2>0. Missing \in SUBSET Nat
        OBVIOUS
  <2> HIDE DEF Missing
  <2>1. PICK k \in Missing : \A l \in Missing : k <= l
        BY <2>0, Least
  <2> USE DEF Missing
  <2>2. CASE k = 0
    <3> DEFINE g == [n \in 0..m |-> 1]
    <3>1. g = [n \in 0..m |-> g[n]] /\ upTo(g, k)
          BY <2>2
    <3> QED BY <3>1
  <2>3. CASE k # 0
    <3>1. k - 1 \notin Missing /\ k - 1 \in 0..m
          BY <2>1, <2>3
    <3>2. PICK f : f = [n \in 0..m |-> f[n]] /\ upTo(f, k - 1)
          BY <3>1
    <3> DEFINE g == [n \in 0..m |-> IF n = k THEN b * f[k - 1] ELSE f[n]]
    <3>3. upTo(g, k)
      <4> SUFFICES ASSUME NEW n \in 0..k PROVE g[n] = IF n = 0 THEN 1 ELSE b * g[n - 1]
          OBVIOUS
      <4>1. n \in 0..m /\ (n # 0 => n - 1 \in 0..m /\ n - 1 # k)
            OBVIOUS
      <4>2. CASE n = k
            BY <4>1, <4>2, <2>3
      <4>3. CASE n # k
        <5>1. n \in 0..k - 1
              BY <4>3
        <5> QED BY <4>1, <4>3, <5>1, <3>2
      <4> QED BY <4>2, <4>3
    <3>4. g = [n \in 0..m |-> g[n]]
          OBVIOUS
    <3> QED BY <3>3, <3>4
  <2> QED BY <2>2, <2>3
<1>2. PICK f : f = [n \in 0..m |-> f[n]] /\ upTo(f, m)
      BY <1>1
<1>3. f = [n \in 0..m |-> IF n = 0 THEN 1 ELSE b * f[n - 1]]
      BY <1>2
<1> QED BY <1>3

LEMMA PowersDouble ==
    /\ \A n \in 0..LevelMax : PowerOfTwo[n] \in Nat \ {0}
    /\ PowerOfTwo[0] = 1
    /\ \A n \in 1..LevelMax : PowerOfTwo[n] = 2 * PowerOfTwo[n - 1]
<1>0. LevelMax \in Nat
      BY AdaptiveGridAssumption
<1>1. \A n \in 0..LevelMax : PowerOfTwo[n] = IF n = 0 THEN 1 ELSE 2 * PowerOfTwo[n - 1]
  <2>1. PowerOfTwo = [n \in 0..LevelMax |-> IF n = 0 THEN 1 ELSE 2 * PowerOfTwo[n - 1]]
        BY <1>0, PowersExist DEF PowerOfTwo
  <2> QED BY <2>1
<1> DEFINE Wrong == {n \in 0..LevelMax : PowerOfTwo[n] \notin Nat \ {0}}
<1>2. ASSUME Wrong # {} PROVE FALSE
  <2>0. Wrong \in SUBSET Nat
        BY <1>0
  <2> HIDE DEF Wrong
  <2>1. PICK n \in Wrong : \A m \in Wrong : n <= m
        BY <1>2, <2>0, Least
  <2> USE DEF Wrong
  <2>2. n # 0
        BY <1>1, <2>1
  <2>3. n - 1 \notin Wrong /\ n - 1 \in 0..LevelMax
        BY <2>1, <2>2, <1>0
  <2>4. PowerOfTwo[n - 1] \in Nat \ {0}
        BY <2>3
  <2>5. PowerOfTwo[n] = 2 * PowerOfTwo[n - 1]
        BY <1>1, <2>1, <2>2
  <2> QED BY <2>1, <2>4, <2>5
<1> QED BY <1>0, <1>1, <1>2
-----------------------------------------------------------------------------
(* The recursion that follows coarser neighbors: what it collects at one   *)
(* face of e, if f is what it collects at higher levels.                   *)
Calls == leaves \X (1..LevelMax)
Counted(e, level, face) == level + Cardinality({g \in CoarserFaces(e) : g < face})
OutsideAt(e, face) == CHOOSE n \in CoarserAt(e, face) : TRUE
CollectedAt(f, e, level, face) ==
    {OutsideAt(e, face)} \cup IF Counted(e, level, face) < LevelMax
                             THEN f[<<OutsideAt(e, face), Counted(e, level, face) + 1>>]
                             ELSE {}
Collected(f, e, level) == UNION {CollectedAt(f, e, level, face) : face \in CoarserFaces(e)}

LEMMA OutsideIsCoarser ==
    ASSUME NEW e, NEW face \in CoarserFaces(e)
    PROVE  OutsideAt(e, face) \in leaves /\ Level(OutsideAt(e, face)) < Level(e)
<1>1. CoarserAt(e, face) # {}
      BY DEF CoarserFaces
<1>2. OutsideAt(e, face) \in CoarserAt(e, face)
      BY <1>1 DEF OutsideAt
<1> QED BY <1>2 DEF CoarserAt, Outside

LEMMA CountGoesUp ==
    ASSUME NEW e, NEW level \in Nat, NEW face
    PROVE  Counted(e, level, face) \in Nat /\ Counted(e, level, face) >= level
<1> DEFINE before == {g \in CoarserFaces(e) : g < face}
<1>1. 2 * Len(MacroCells) \in Nat
      BY AdaptiveGridAssumption
<1>2. IsFiniteSet(Faces)
      BY <1>1, FS_Interval DEF Faces
<1>3. before \subseteq Faces
      BY DEF CoarserFaces
<1>4. Cardinality(before) \in Nat
      BY <1>2, <1>3, FS_Subset, FS_CardinalityType
<1> QED BY <1>4 DEF Counted

(* What is collected at a level depends on higher levels only. *)
LEMMA CollectedAlike ==
    ASSUME NEW f, NEW g, NEW e \in leaves, NEW level \in 1..LevelMax,
           \A n \in leaves : \A k \in level + 1..LevelMax : f[<<n, k>>] = g[<<n, k>>]
    PROVE  Collected(f, e, level) = Collected(g, e, level)
<1>1. ASSUME NEW face \in CoarserFaces(e)
      PROVE  CollectedAt(f, e, level, face) = CollectedAt(g, e, level, face)
  <2>1. OutsideAt(e, face) \in leaves
        BY OutsideIsCoarser
  <2>2. Counted(e, level, face) \in Nat /\ Counted(e, level, face) >= level
        BY CountGoesUp
  <2>3. ASSUME Counted(e, level, face) < LevelMax
        PROVE  Counted(e, level, face) + 1 \in level + 1..LevelMax
        BY <2>2, <2>3, AdaptiveGridAssumption
  <2> QED BY <2>1, <2>3 DEF CollectedAt
<1> QED BY <1>1 DEF Collected

LEMMA FollowersExist ==
    \A e \in leaves : \A level \in 1..LevelMax :
        CheckNeighborsRefine[<<e, level>>] = Collected(CheckNeighborsRefine, e, level)
<1>0. LevelMax \in Nat
      BY AdaptiveGridAssumption
<1> DEFINE from(f, k) == \A e \in leaves : \A level \in 1..LevelMax :
                             level > LevelMax - k => f[<<e, level>>] = Collected(f, e, level)
           Missing == {k \in 0..LevelMax : ~\E f : from(f, k)}
<1>1. Missing = {}
  <2> SUFFICES ASSUME Missing # {} PROVE FALSE
      OBVIOUS
  <2>0. Missing \in SUBSET Nat
        OBVIOUS
  <2> HIDE DEF Missing
  <2>1. PICK k \in Missing : \A l \in Missing : k <= l
        BY <2>0, Least
  <2> USE DEF Missing
  <2>2. k # 0
    <3>1. from(<<>>, 0)
          BY <1>0
    <3> QED BY <2>1, <3>1, <1>0
  <2>3. k - 1 \notin Missing /\ k - 1 \in 0..LevelMax
    <3> HIDE DEF from
    <3>1. k \in 0..LevelMax
          BY <2>1
    <3> HIDE DEF Missing
    <3> QED BY <2>1, <2>2, <3>1, <1>0
  <2>4. PICK f : from(f, k - 1)
        BY <2>3
  <2> DEFINE here == LevelMax - k + 1
             g == [call \in Calls |->
                      IF call[2] = here THEN Collected(f, call[1], here) ELSE f[call]]
  <2>5. ASSUME NEW e \in leaves, NEW level \in 1..LevelMax, level > LevelMax - k
        PROVE  g[<<e, level>>] = Collected(g, e, level)
    <3>1. level >= here /\ here \in Nat
          BY <2>5, <2>1, <1>0
    <3> HIDE DEF from
    <3>2. ASSUME NEW n \in leaves, NEW l \in level + 1..LevelMax PROVE f[<<n, l>>] = g[<<n, l>>]
      <4>1. l \in 1..LevelMax
            BY <1>0
      <4>2. l # here
            BY <3>1, <1>0
      <4>3. <<n, l>> \in Calls
            BY <4>1 DEF Calls
      <4> HIDE DEF here
      <4> QED BY <4>2, <4>3
    <3> HIDE DEF g
    <3>3. Collected(f, e, level) = Collected(g, e, level)
          BY <3>2, CollectedAlike
    <3>4. CASE level = here
          BY <3>3, <3>4 DEF g, Calls
    <3>5. CASE level # here
      <4>1. level > LevelMax - (k - 1)
            BY <3>1, <3>5, <2>1, <1>0
      <4>2. f[<<e, level>>] = Collected(f, e, level)
            BY <4>1, <2>4 DEF from
      <4>3. g[<<e, level>>] = f[<<e, level>>]
            BY <3>5 DEF g, Calls
      <4> QED BY <4>2, <4>3, <3>3
    <3> QED BY <3>4, <3>5
  <2> HIDE DEF g
  <2>6. from(g, k)
        BY <2>5
  <2> QED BY <2>1, <2>6
<1>2. PICK f : from(f, LevelMax)
  <2> HIDE DEF from
  <2>1. LevelMax \in 0..LevelMax /\ LevelMax \notin Missing
        BY <1>0, <1>1
  <2> QED BY <2>1
<1> DEFINE g == [call \in Calls |-> f[call]]
<1>3. ASSUME NEW e \in leaves, NEW level \in 1..LevelMax
      PROVE  g[<<e, level>>] = Collected(g, e, level)
  <2>1. f[<<e, level>>] = Collected(f, e, level)
        BY <1>2, <1>0
  <2>2. \A n \in leaves : \A k \in level + 1..LevelMax : f[<<n, k>>] = g[<<n, k>>]
        BY <1>0 DEF Calls
  <2> HIDE DEF from, g
  <2>3. Collected(f, e, level) = Collected(g, e, level)
        BY <2>2, CollectedAlike
  <2> QED BY <2>1, <2>3 DEF g, Calls
<1>4. g = [call \in Calls |-> Collected(g, call[1], call[2])]
  <2> HIDE DEF from
  <2>1. g = [call \in Calls |-> g[call]]
        OBVIOUS
  <2>2. \A call \in Calls : call[1] \in leaves /\ call[2] \in 1..LevelMax /\ call = <<call[1], call[2]>>
        BY DEF Calls
  <2> HIDE DEF g
  <2> QED BY <1>3, <2>1, <2>2
<1>5. CheckNeighborsRefine =
         CHOOSE h : h = [call \in Calls |-> Collected(h, call[1], call[2])]
      BY DEF CheckNeighborsRefine, Collected, CollectedAt, Counted, OutsideAt, Calls
<1> HIDE DEF g, from
<1>6. CheckNeighborsRefine =
         [call \in Calls |-> Collected(CheckNeighborsRefine, call[1], call[2])]
      BY <1>4, <1>5
<1> QED BY <1>6 DEF Calls

(* The cells that follow are leaves coarser than the one they follow. *)
LEMMA FollowersAreCoarser ==
    ASSUME leaves \subseteq Cells
    PROVE  \A level \in 1..LevelMax : \A e \in leaves :
               CheckNeighborsRefine[<<e, level>>] \subseteq {n \in leaves : Level(n) < Level(e)}
<1>0. LevelMax \in Nat
      BY AdaptiveGridAssumption
<1> DEFINE good(level) == \A e \in leaves :
               CheckNeighborsRefine[<<e, level>>] \subseteq {n \in leaves : Level(n) < Level(e)}
           Wrong == {d \in 0..LevelMax - 1 : ~good(LevelMax - d)}
<1>1. ASSUME Wrong # {} PROVE FALSE
  <2>0. Wrong \in SUBSET Nat
        BY <1>0
  <2> HIDE DEF Wrong
  <2>1. PICK d \in Wrong : \A c \in Wrong : d <= c
        BY <1>1, <2>0, Least
  <2> DEFINE level == LevelMax - d
  <2>2. d \in 0..LevelMax - 1 /\ level \in 1..LevelMax /\ ~good(level)
        BY <2>1, <1>0 DEF Wrong
  <2>3. ASSUME NEW l \in level + 1..LevelMax PROVE good(l)
    <3>1. LevelMax - l \in 0..LevelMax - 1 /\ LevelMax - l < d
          BY <2>2, <2>3, <1>0
    <3>2. LevelMax - l \notin Wrong /\ LevelMax - (LevelMax - l) = l
          BY <3>1, <2>1, <2>2, <1>0
    <3> QED BY <3>1, <3>2 DEF Wrong
  <2>4. ASSUME NEW e \in leaves, NEW face \in CoarserFaces(e)
        PROVE  CollectedAt(CheckNeighborsRefine, e, level, face)
                   \subseteq {n \in leaves : Level(n) < Level(e)}
    <3> DEFINE o == OutsideAt(e, face)
    <3>1. o \in leaves /\ Level(o) < Level(e)
          BY OutsideIsCoarser
    <3>2. Counted(e, level, face) \in Nat /\ Counted(e, level, face) >= level
          BY <2>2, CountGoesUp
    <3>3. ASSUME Counted(e, level, face) < LevelMax
          PROVE  CheckNeighborsRefine[<<o, Counted(e, level, face) + 1>>]
                     \subseteq {n \in leaves : Level(n) < Level(e)}
      <4>1. Counted(e, level, face) + 1 \in level + 1..LevelMax
            BY <2>2, <3>2, <3>3, <1>0
      <4>2. good(Counted(e, level, face) + 1)
            BY <4>1, <2>3
      <4>3. CheckNeighborsRefine[<<o, Counted(e, level, face) + 1>>]
                \subseteq {n \in leaves : Level(n) < Level(o)}
            BY <4>2, <3>1
      <4>4. \A n \in leaves : Level(n) \in Int
            BY DEF Cells, Level
      <4> QED BY <4>3, <4>4, <3>1
    <3> QED BY <3>1, <3>3 DEF CollectedAt
  <2>5. good(level)
    <3> SUFFICES ASSUME NEW e \in leaves
                 PROVE  CheckNeighborsRefine[<<e, level>>] \subseteq {n \in leaves : Level(n) < Level(e)}
        OBVIOUS
    <3>1. CheckNeighborsRefine[<<e, level>>] = Collected(CheckNeighborsRefine, e, level)
          BY <2>2, FollowersExist
    <3> QED BY <3>1, <2>4 DEF Collected
  <2> QED BY <2>2, <2>5
<1>2. ASSUME NEW level \in 1..LevelMax PROVE good(level)
  <2>1. LevelMax - level \in 0..LevelMax - 1 /\ LevelMax - (LevelMax - level) = level
        BY <1>0
  <2>2. LevelMax - level \notin Wrong
        BY <1>1
  <2> QED BY <2>1, <2>2
<1> QED BY <1>2
-----------------------------------------------------------------------------
(* Fathers and children. *)
LEMMA ChildCells ==
    ASSUME NEW e \in Cells, NEW s \in Children(e)
    PROVE  Level(s) = Level(e) + 1 /\ (Level(e) < LevelMax => s \in Cells)
<1>1. PICK o \in [Dims -> {0, 1}] : s = <<Level(e) + 1, [d \in Dims |-> 2 * e[2][d] + o[d]]>>
      BY DEF Children
<1>2. e[1] \in 0..LevelMax /\ e[2] \in [Dims -> Nat]
      BY DEF Cells
<1>3. [d \in Dims |-> 2 * e[2][d] + o[d]] \in [Dims -> Nat]
  <2>1. \A d \in Dims : e[2][d] \in Nat /\ o[d] \in {0, 1}
        BY <1>2
  <2>2. \A d \in Dims : 2 * e[2][d] + o[d] \in Nat
        BY <2>1
  <2> QED BY <2>2
<1> HIDE DEF Cells
<1>4. Level(s) = Level(e) + 1 /\ Level(e) = e[1]
      BY <1>1 DEF Level
<1>5. Level(e) < LevelMax => Level(e) + 1 \in 0..LevelMax
      BY <1>2, <1>4, AdaptiveGridAssumption
<1> QED BY <1>1, <1>3, <1>4, <1>5 DEF Cells

LEMMA SomeChild ==
    ASSUME NEW e
    PROVE  \E s : s \in Children(e)
<1>1. [d \in Dims |-> 0] \in [Dims -> {0, 1}]
      OBVIOUS
<1> QED BY <1>1 DEF Children

LEMMA FatherCells ==
    ASSUME NEW e \in Cells, HasFather(e)
    PROVE  Father(e) \in Cells /\ Level(Father(e)) = Level(e) - 1
<1>1. e[1] \in 1..LevelMax /\ e[2] \in [Dims -> Nat]
      BY DEF Cells, HasFather, Level
<1>2. PowerOfTwo[1] \in Nat \ {0}
      BY <1>1, PowersDouble, AdaptiveGridAssumption
<1>3. Father(e) = <<e[1] - 1, [d \in Dims |-> e[2][d] \div PowerOfTwo[1]]>>
  <2>1. e[1] - (e[1] - 1) = 1
        BY <1>1
  <2> QED BY <2>1 DEF Father, Ancestor, Level
<1>4. \A d \in Dims : e[2][d] \div PowerOfTwo[1] \in Nat
  <2>1. \A a \in Nat : \A b \in Nat \ {0} : a \div b \in Nat
        OBVIOUS
  <2>2. \A d \in Dims : e[2][d] \in Nat
        BY <1>1
  <2> QED BY <1>2, <2>1, <2>2
<1>5. [d \in Dims |-> e[2][d] \div PowerOfTwo[1]] \in [Dims -> Nat]
      BY <1>4
<1>6. e[1] - 1 \in 0..LevelMax
      BY <1>1, AdaptiveGridAssumption
<1> QED BY <1>3, <1>5, <1>6 DEF Cells, Level

(* Where the leaves come from that grid.adapt() leaves behind. *)
Kept(e) == e \in leaves /\ marks[e] # 1
Refined(e) == \E f \in leaves : marks[f] = 1 /\ e \in Children(f)
Coarsened(e) ==
    /\ \E s \in leaves : HasFather(s) /\ e = Father(s)
    /\ \A s \in Children(e) : s \in leaves /\ marks[s] = -1

LEMMA AdaptedLeaves ==
    ASSUME GridAdapts
    PROVE  \A e \in leaves' : Kept(e) \/ Refined(e) \/ Coarsened(e)
<1>1. SUFFICES ASSUME NEW e \in leaves' PROVE Kept(e) \/ Refined(e) \/ Coarsened(e)
      OBVIOUS
<1> DEFINE refined == {c \in leaves : marks[c] = 1}
           removed == {c \in leaves : HasFather(c) /\
                          \A s \in Children(Father(c)) : s \in leaves /\ marks[s] = -1}
           created == UNION {Children(c) : c \in refined}
<1>2. leaves' = (leaves \ (refined \cup removed)) \cup created \cup {Father(c) : c \in removed}
      BY DEF GridAdapts
<1>3. CASE e \in leaves \ (refined \cup removed)
      BY <1>3 DEF Kept
<1>4. CASE e \in created
      BY <1>4 DEF Refined
<1>5. CASE e \in {Father(c) : c \in removed}
      BY <1>5 DEF Coarsened
<1> QED BY <1>1, <1>2, <1>3, <1>4, <1>5
-----------------------------------------------------------------------------
(* The levels of the initialization indicator. *)
LEMMA LevelsOfCells ==
    ASSUME leaves \subseteq Cells
    PROVE  \A e \in leaves : Level(e) \in 0..LevelMax
BY DEF Cells, Level

LEMMA HighestLevelIs ==
    ASSUME leaves \subseteq Cells, maxLevel \in 0..LevelMax
    PROVE  /\ HighestLevel \in 0..LevelMax
           /\ HighestLevel = maxLevel \/ \E e \in leaves : HighestLevel = Level(e)
           /\ HighestLevel >= maxLevel
<1> DEFINE S == {maxLevel} \cup {Level(e) : e \in leaves}
<1>1. S \in SUBSET (0..LevelMax) /\ S # {}
      BY LevelsOfCells
<1> HIDE DEF S
<1>2. Max(S) \in S /\ \A y \in S : Max(S) >= y
      BY <1>1, MaxOfBounded, AdaptiveGridAssumption
<1>3. HighestLevel = Max(S)
      BY DEF HighestLevel, S
<1> QED BY <1>1, <1>2, <1>3 DEF S

LEMMA NextMaxLevelIs ==
    ASSUME leaves \subseteq Cells, nextMaxLevel \in 0..LevelMax
    PROVE  /\ NextMaxLevel \in 0..LevelMax /\ NextMaxLevel >= nextMaxLevel
           /\ \A e \in RefineCell : Level(e) < LevelMax => Level(e) < NextMaxLevel
<1>0. LevelMax \in Nat
      BY AdaptiveGridAssumption
<1> DEFINE S == {nextMaxLevel} \cup {Level(e) + 1 : e \in RefineCell}
<1>1. RefineCell \subseteq leaves
      BY DEF RefineCell, At
<1>2. \A e \in RefineCell : Level(e) \in 0..LevelMax /\ Level(e) + 1 \in 0..LevelMax + 1
      BY <1>0, <1>1, LevelsOfCells
<1>3. S \in SUBSET (0..LevelMax + 1) /\ S # {} /\ LevelMax + 1 \in Nat
      BY <1>0, <1>2
<1>4. nextMaxLevel \in S /\ \A e \in RefineCell : Level(e) + 1 \in S
      OBVIOUS
<1> HIDE DEF S
<1>5. Max(S) \in S /\ \A y \in S : Max(S) >= y
      BY <1>3, MaxOfBounded
<1>6. Max(S) \in 0..LevelMax + 1
      BY <1>3, <1>5
<1>7. NextMaxLevel = Min({LevelMax, Max(S)})
      BY DEF NextMaxLevel, S
<1>8. NextMaxLevel = IF LevelMax <= Max(S) THEN LevelMax ELSE Max(S)
      BY <1>0, <1>6, <1>7, MinOfTwo
<1>9. Max(S) >= nextMaxLevel /\ \A e \in RefineCell : Max(S) >= Level(e) + 1
      BY <1>4, <1>5
<1> QED BY <1>0, <1>2, <1>6, <1>8, <1>9

(* Only elements below the highest level are refined, and all of those     *)
(* that are wanted; the ones that follow are coarser than one of them.     *)
LEMMA RefinementsBelow ==
    ASSUME leaves \subseteq Cells, NEW refine \in SUBSET leaves
    PROVE  /\ \A e \in refine : Level(e) < LevelMax => e \in Refinements(refine)
           /\ \A n \in Refinements(refine) :
                 n \in leaves /\ \E e \in refine : Level(n) <= Level(e) /\ Level(e) < LevelMax
<1> DEFINE wanted == {e \in refine : Level(e) < LevelMax}
<1>0. \A e \in leaves : Level(e) \in 0..LevelMax
      BY LevelsOfCells
<1>1. Refinements(refine) = wanted \cup UNION {CheckNeighborsRefine[<<e, 1>>] : e \in wanted}
      BY DEF Refinements
<1>2. ASSUME NEW e \in wanted, NEW n \in CheckNeighborsRefine[<<e, 1>>]
      PROVE  n \in leaves /\ Level(n) < Level(e)
  <2>1. e \in leaves /\ Level(e) < LevelMax
        OBVIOUS
  <2>2. 1 \in 1..LevelMax
        BY <2>1, <1>0, AdaptiveGridAssumption
  <2> QED BY <2>1, <2>2, FollowersAreCoarser
<1>3. ASSUME NEW n \in Refinements(refine)
      PROVE  n \in leaves /\ \E e \in wanted : Level(n) <= Level(e)
  <2>1. CASE n \in wanted
        BY <2>1, <1>0
  <2>2. CASE \E e \in wanted : n \in CheckNeighborsRefine[<<e, 1>>]
        BY <2>2, <1>0, <1>2
  <2> HIDE DEF wanted
  <2> QED BY <1>1, <2>1, <2>2
<1>4. \A e \in wanted : e \in Refinements(refine)
      BY <1>1
<1> QED BY <1>3, <1>4

LEMMA VerdictsAreLeaves ==
    ASSUME NEW verdict \in Verdicts
    PROVE  verdict[1] \in SUBSET leaves
BY DEF Verdicts, At
LEMMA MarksAre ==
    ASSUME NEW refine, NEW coarsen, Mark(refine, coarsen)
    PROVE  /\ marks' \in [leaves -> {-1, 0, 1}]
           /\ \A e \in leaves : marks'[e] = 1 <=> e \in Refinements(refine)
           /\ \A e \in leaves : marks'[e] = -1 => e \in coarsen /\ Level(e) > LevelMin
           /\ wasAdapted' \in BOOLEAN
           /\ ~wasAdapted' => \A e \in leaves : marks'[e] = 0
           /\ phase' = IF wasAdapted' THEN "marked" ELSE "done"
<1> DEFINE R == Refinements(refine)
           C == Coarsenings(R, coarsen)
<1>1. marks' = [e \in leaves |-> IF e \in R THEN 1 ELSE IF e \in C THEN -1 ELSE 0]
      BY DEF Mark, MarkElements, Marked
<1>2. \A e \in C : e \in coarsen /\ Level(e) > LevelMin
      BY DEF Coarsenings
<1>3. wasAdapted' = (\E e \in leaves : marks'[e] # 0)
      BY DEF Mark
<1>4. phase' = IF wasAdapted' THEN "marked" ELSE "done"
      BY DEF Mark
<1> HIDE DEF R, C
<1>5. marks' \in [leaves -> {-1, 0, 1}]
      BY <1>1
<1>6. \A e \in leaves : marks'[e] = 1 <=> e \in R
      BY <1>1
<1>7. \A e \in leaves : marks'[e] = -1 => e \in C
      BY <1>1
<1>8. wasAdapted' \in BOOLEAN
      BY <1>3, Zenon
<1>9. ~wasAdapted' => \A e \in leaves : marks'[e] = 0
      BY <1>3, Zenon
<1> QED BY <1>2, <1>4, <1>5, <1>6, <1>7, <1>8, <1>9 DEF R
-----------------------------------------------------------------------------
(* The sequential model keeps GridInv. *)
LEMMA GridInitInv == AdaptInit => GridInv
<1> SUFFICES ASSUME AdaptInit PROVE GridInv
    OBVIOUS
<1>0. LevelMax \in Nat /\ InitialLevel \in 0..LevelMax /\ AdaptationInterval \in Nat
      BY AdaptiveGridAssumption, GridAdaptAssumption
<1>1. leaves = ElementsOf(InitialLevel)
      BY DEF AdaptInit, InitialGrid
<1>2. leaves \subseteq Cells
  <2>1. ASSUME NEW e \in leaves PROVE e \in Cells
    <3> DEFINE m == Max({MacroCells[d] * PowerOfTwo[InitialLevel] : d \in Dims}) - 1
    <3>1. PICK q : e = <<InitialLevel, q>> /\ q \in [Dims -> 0..m]
          BY <1>1 DEF ElementsOf
    <3> HIDE DEF m
    <3>2. q \in [Dims -> Nat]
      <4>1. \A i \in 0..m : i \in Nat
            OBVIOUS
      <4> QED BY <3>1, <4>1
    <3> QED BY <3>1, <3>2, <1>0 DEF Cells
  <2> QED BY <2>1
<1>3. marks = [e \in leaves |-> 0] /\ isNew = {} /\ phase = "idle" /\ wasAdapted = FALSE
      /\ saturation = [e \in leaves |-> Field(e)] /\ previous = saturation
      BY DEF AdaptInit, InitialGrid
<1>4. initializing = TRUE /\ iter = 0 /\ timeStepIndex = 0 /\ sources \subseteq Points
      /\ maxLevel = (IF sources = {} THEN LevelMax ELSE 0) /\ nextMaxLevel = maxLevel
      /\ staleVerdict = FALSE
      BY DEF AdaptInit
<1>5. maxLevel \in 0..LevelMax
      BY <1>0, <1>4
<1>6. \A e \in leaves : Level(e) \in 0..LevelMax
      BY <1>2, LevelsOfCells
<1>7. marks \in [leaves -> {-1, 0, 1}] /\ DOMAIN saturation = leaves
      BY <1>3
<1>8. 2 * LevelMax + 1 \in Nat
      BY <1>0
<1>9. AdaptTypeOK
  <2>1. phase \in Phases /\ phase # "adapted"
        BY <1>3 DEF Phases
  <2>2. iter \in 0..2 * LevelMax + 1 /\ timeStepIndex \in 0..AdaptationInterval
        BY <1>0, <1>4, <1>8
  <2> QED BY <1>3, <1>4, <1>5, <1>6, <1>7, <2>1, <2>2 DEF AdaptTypeOK
<1> QED BY <1>0, <1>2, <1>3, <1>4, <1>9 DEF GridInv, MaxIter

LEMMA MarkInv ==
    ASSUME GridInv, NEW refine \in SUBSET leaves, NEW coarsen, Mark(refine, coarsen),
           UNCHANGED <<sources, initializing, iter, timeStepIndex>>,
           maxLevel' \in 0..LevelMax, nextMaxLevel' \in 0..LevelMax, staleVerdict' \in BOOLEAN
    PROVE  GridInv'
<1>1. /\ marks' \in [leaves -> {-1, 0, 1}]
      /\ \A e \in leaves : marks'[e] = 1 <=> e \in Refinements(refine)
      /\ wasAdapted' \in BOOLEAN
      /\ phase' = IF wasAdapted' THEN "marked" ELSE "done"
      BY MarksAre
<1>2. UNCHANGED <<leaves, isNew, saturation, previous>> /\ phase = "idle"
      BY DEF Mark, dataVars
<1>3. leaves \subseteq Cells /\ AdaptTypeOK
      BY DEF GridInv
<1>4. ASSUME NEW e \in leaves, marks'[e] = 1 PROVE Level(e) < LevelMax
  <2>1. PICK c \in refine : Level(e) <= Level(c) /\ Level(c) < LevelMax
        BY <1>1, <1>3, <1>4, RefinementsBelow
  <2>2. Level(e) \in Int /\ Level(c) \in Int /\ LevelMax \in Int
        BY <1>3, LevelsOfCells, AdaptiveGridAssumption
  <2> QED BY <2>1, <2>2
<1>5. phase' \in {"marked", "done"}
      BY <1>1
<1>6. AdaptTypeOK'
  <2>1. phase' \in Phases /\ phase' # "adapted"
        BY <1>5 DEF Phases
  <2> QED BY <1>1, <1>2, <1>3, <2>1 DEF AdaptTypeOK
<1> QED BY <1>2, <1>3, <1>4, <1>5, <1>6 DEF GridInv, MaxIter

LEMMA AdaptInv ==
    ASSUME GridInv, AdaptTheGrid
    PROVE  GridInv'
<1>1. AdaptTypeOK /\ leaves \subseteq Cells /\ phase = "stored" /\ DOMAIN previous = leaves
      BY DEF GridInv, AdaptTheGrid
<1>2. GridAdapts /\ phase' = "adapted" /\ UNCHANGED <<wasAdapted, dataVars, initVars, timeStepIndex>>
      BY DEF AdaptTheGrid
<1>3. ASSUME NEW e \in leaves' PROVE e \in Cells
  <2>1. CASE Kept(e)
        BY <1>1, <2>1 DEF Kept
  <2>2. CASE Refined(e)
        BY <1>1, <2>2, ChildCells DEF Refined, GridInv
  <2>3. CASE Coarsened(e)
        BY <1>1, <2>3, FatherCells DEF Coarsened
  <2> QED BY <1>2, <2>1, <2>2, <2>3, AdaptedLeaves
<1>4. marks' = [e \in leaves' |-> 0]
      BY <1>2 DEF GridAdapts
<1>5. isNew' \subseteq leaves'
      BY <1>2 DEF GridAdapts
<1>6. leaves' \subseteq Cells /\ \A e \in leaves' : Level(e) \in 0..LevelMax
      BY <1>3 DEF Cells, Level
<1>7. UNCHANGED <<saturation, previous, wasAdapted, initializing, iter, sources, maxLevel,
                  nextMaxLevel, staleVerdict, timeStepIndex>>
      BY <1>2 DEF dataVars, initVars
<1>8. marks' \in [leaves' -> {-1, 0, 1}] /\ \A e \in leaves' : marks'[e] # 1
      BY <1>4
<1>9. phase' \in Phases /\ DOMAIN saturation' = DOMAIN previous'
      BY <1>1, <1>2, <1>7 DEF AdaptTypeOK, Phases
<1>10. AdaptTypeOK'
      BY <1>1, <1>2, <1>5, <1>6, <1>7, <1>8, <1>9 DEF AdaptTypeOK
<1> QED BY <1>2, <1>6, <1>7, <1>8, <1>10 DEF GridInv, MaxIter

LEMMA GridNextInv == GridInv /\ [AdaptNext]_adaptVars => GridInv'
<1> SUFFICES ASSUME GridInv, [AdaptNext]_adaptVars PROVE GridInv'
    OBVIOUS
<1>0. /\ AdaptTypeOK /\ leaves \subseteq Cells
      /\ maxLevel \in 0..LevelMax /\ nextMaxLevel \in 0..LevelMax /\ staleVerdict \in BOOLEAN
      /\ LevelMax \in Nat /\ AdaptationInterval \in Nat \ {0}
      BY AdaptiveGridAssumption, GridAdaptAssumption DEF GridInv, AdaptTypeOK
<1>1. CASE InitRound
  <2>1. PICK verdict \in Verdicts : Mark(InitRefine(verdict), InitCoarsen(verdict))
        BY <1>1 DEF InitRound
  <2>2. InitRefine(verdict) \in SUBSET leaves
        BY VerdictsAreLeaves DEF InitRefine, RefineCell, At
  <2>3. maxLevel' \in 0..LevelMax /\ nextMaxLevel' \in 0..LevelMax
        BY <1>0, <1>1, HighestLevelIs, NextMaxLevelIs DEF InitRound
  <2>4. UNCHANGED <<sources, initializing, iter, timeStepIndex>> /\ staleVerdict' \in BOOLEAN
    <3>1. staleVerdict' = (staleVerdict \/ (nextMaxLevel # LevelMax /\ HighestLevel = LevelMax))
          BY <1>1 DEF InitRound
    <3>2. staleVerdict' \in BOOLEAN
          BY <3>1, Zenon
    <3> QED BY <1>1, <3>2 DEF InitRound
  <2> QED BY <2>1, <2>2, <2>3, <2>4, MarkInv
<1>2. CASE PreTimeStep
  <2>1. PICK verdict \in Verdicts : Mark(verdict[1], verdict[2])
        BY <1>2 DEF PreTimeStep
  <2>2. UNCHANGED <<initializing, iter, sources, maxLevel, nextMaxLevel, staleVerdict, timeStepIndex>>
        BY <1>2 DEF PreTimeStep, initVars
  <2> QED BY <1>0, <2>1, <2>2, VerdictsAreLeaves, MarkInv
<1>3. CASE EndInit
  <2>1. /\ phase = "done" /\ phase' = "idle" /\ initializing' = FALSE
        /\ UNCHANGED <<leaves, marks, isNew, wasAdapted, saturation, previous, iter, sources, maxLevel,
                       nextMaxLevel, staleVerdict, timeStepIndex>>
        BY <1>3 DEF EndInit, gridVars, dataVars
  <2>2. AdaptTypeOK'
        BY <1>0, <2>1 DEF AdaptTypeOK, Phases
  <2> QED BY <2>1, <2>2 DEF GridInv
<1>4. CASE EndRound
  <2>1. /\ initializing /\ phase = "done" /\ phase' = "idle" /\ iter' = iter + 1
        /\ initializing' = (iter + 1 <= MaxIter)
        /\ UNCHANGED <<leaves, marks, isNew, wasAdapted, sources, maxLevel, nextMaxLevel,
                       staleVerdict, timeStepIndex>>
        BY <1>4 DEF EndRound, gridVars
  <2>2. saturation' = (IF nextMaxLevel = LevelMax THEN [e \in leaves |-> Field(e)] ELSE saturation)
        BY <1>4 DEF EndRound
  <2>3. DOMAIN saturation' = leaves
        BY <1>0, <2>1, <2>2 DEF AdaptTypeOK
  <2>4. iter' \in 0..2 * LevelMax + 1
        BY <1>0, <2>1 DEF AdaptTypeOK, GridInv, MaxIter
  <2>5. initializing' \in BOOLEAN /\ (initializing' => iter' <= MaxIter)
    <3>1. (iter + 1 <= MaxIter) \in BOOLEAN
          BY <1>0 DEF AdaptTypeOK, MaxIter
    <3>2. initializing' => iter' <= MaxIter
          BY <2>1, Zenon
    <3> QED BY <2>1, <3>1, <3>2, Zenon
  <2>6. AdaptTypeOK'
        BY <1>0, <2>1, <2>3, <2>4, <2>5 DEF AdaptTypeOK, Phases
  <2> QED BY <2>1, <2>5, <2>6 DEF GridInv, MaxIter
<1>5. CASE SkipAdaption
  <2>1. /\ phase = "idle" /\ phase' = "done" /\ wasAdapted' = FALSE
        /\ UNCHANGED <<leaves, marks, isNew, saturation, previous, initializing, iter, sources,
                       maxLevel, nextMaxLevel, staleVerdict, timeStepIndex>>
        BY <1>5 DEF SkipAdaption, gridVars, dataVars, initVars
  <2>2. AdaptTypeOK'
        BY <1>0, <2>1 DEF AdaptTypeOK, Phases
  <2> QED BY <2>1, <2>2 DEF GridInv, MaxIter
<1>6. CASE TimeStep
  <2>1. /\ phase = "done" /\ phase' = "idle" /\ DOMAIN saturation' = leaves
        /\ timeStepIndex' = IF Adapts THEN 1 ELSE timeStepIndex + 1
        /\ UNCHANGED <<leaves, marks, isNew, wasAdapted, initializing, iter, sources, maxLevel,
                       nextMaxLevel, staleVerdict>>
        BY <1>6 DEF TimeStep, gridVars, initVars
  <2>2. timeStepIndex' \in 0..AdaptationInterval
        BY <1>0, <2>1 DEF Adapts, AdaptTypeOK
  <2>3. AdaptTypeOK'
        BY <1>0, <2>1, <2>2 DEF AdaptTypeOK, Phases
  <2> QED BY <2>1, <2>3 DEF GridInv, MaxIter
<1>7. CASE StorePrimVars
  <2>1. /\ phase = "marked" /\ phase' = "stored" /\ previous' = saturation
        /\ UNCHANGED <<leaves, marks, isNew, wasAdapted, saturation, initializing, iter, sources,
                       maxLevel, nextMaxLevel, staleVerdict, timeStepIndex>>
        BY <1>7 DEF StorePrimVars, gridVars, initVars
  <2>2. AdaptTypeOK' /\ DOMAIN previous' = leaves'
        BY <1>0, <2>1 DEF AdaptTypeOK, Phases
  <2> QED BY <2>1, <2>2 DEF GridInv, MaxIter
<1>8. CASE AdaptTheGrid
      BY <1>8, AdaptInv
<1>9. CASE ReconstructPrimVars
  <2>1. /\ phase = "adapted" /\ phase' = "done" /\ isNew' = {} /\ DOMAIN saturation' = leaves
        /\ UNCHANGED <<leaves, marks, wasAdapted, previous, initializing, iter, sources, maxLevel,
                       nextMaxLevel, staleVerdict, timeStepIndex>>
        BY <1>9 DEF ReconstructPrimVars, Reconstructed, initVars
  <2>2. AdaptTypeOK'
        BY <1>0, <2>1 DEF AdaptTypeOK, Phases
  <2> QED BY <2>1, <2>2 DEF GridInv, MaxIter
<1>10. CASE UNCHANGED adaptVars
      BY <1>0, <1>10 DEF GridInv, AdaptTypeOK, MaxIter, adaptVars, gridVars, dataVars, initVars
<1> QED BY <1>1, <1>2, <1>3, <1>4, <1>5, <1>6, <1>7, <1>8, <1>9, <1>10 DEF AdaptNext

(* Type correctness of the sequential model: elements stay between the     *)
(* macro grid and LevelMax, every leaf has its cell data whenever data is  *)
(* used, the rounds of the initialization stay within their bound.         *)
THEOREM SequentialTypes == Spec => []SeqTypeCorrect
<1> DEFINE Inv == model = "sequential" => GridInv
<1>1. Init => Inv
      BY GridInitInv DEF Init
<1>2. Inv /\ [Next]_allVars => Inv'
  <2> SUFFICES ASSUME Inv, [Next]_allVars, model' = "sequential" PROVE GridInv'
      OBVIOUS
  <2>1. model = "sequential" /\ [AdaptNext]_adaptVars
        BY DEF Next, allVars
  <2> QED BY <2>1, GridNextInv
<1>3. Inv => SeqTypeCorrect
      BY DEF GridInv, SeqTypeCorrect
<1> HIDE DEF Inv
<1> QED BY <1>1, <1>2, <1>3, PTL DEF Spec
-----------------------------------------------------------------------------
(* The implicit model: until updateGridData, what depends on the grid is   *)
(* that of the leaves, unless adapt() returned that it changed the grid.   *)
DataInv ==
    /\ phase \in {"idle", "marked", "stored", "adapted", "reconstructed", "done"}
    /\ (phase \in {"adapted", "reconstructed"} /\ wasAdapted) \/ preparedFor = leaves

(* Without a mark the grid stays as it is. *)
LEMMA UnmarkedGridStays ==
    ASSUME GridAdapts, \A e \in leaves : marks[e] = 0
    PROVE  leaves' = leaves
<1> DEFINE refined == {e \in leaves : marks[e] = 1}
           removed == {e \in leaves : HasFather(e) /\
                          \A s \in Children(Father(e)) : s \in leaves /\ marks[s] = -1}
<1>1. refined = {}
      OBVIOUS
<1>2. removed = {}
  <2>1. ASSUME NEW e \in removed PROVE FALSE
    <3>1. PICK s : s \in Children(Father(e))
          BY SomeChild
    <3>2. s \in leaves /\ marks[s] = -1
          BY <3>1
    <3> QED BY <3>2
  <2> QED BY <2>1
<1>3. leaves' = (leaves \ (refined \cup removed)) \cup (UNION {Children(e) : e \in refined})
                   \cup {Father(e) : e \in removed}
      BY DEF GridAdapts
<1> HIDE DEF refined, removed
<1> QED BY <1>1, <1>2, <1>3

LEMMA DataNextInv == DataInv /\ [Implicit!TwoPNext]_(Implicit!twoPVars) => DataInv'
<1> SUFFICES ASSUME DataInv, [Implicit!TwoPNext]_(Implicit!twoPVars) PROVE DataInv'
    OBVIOUS
<1>1. ASSUME NEW mark, Implicit!MarkElements(mark), phase = "idle" PROVE DataInv'
  <2>1. /\ phase' = IF \A e \in leaves : mark[e] = 0 THEN "done" ELSE "marked"
        /\ UNCHANGED <<leaves, preparedFor>>
        BY <1>1 DEF Implicit!MarkElements
  <2>2. phase' \in {"done", "marked"}
        BY <2>1, Zenon
  <2> QED BY <1>1, <2>1, <2>2 DEF DataInv
<1>2. CASE Implicit!InitialRefinement
      BY <1>1, <1>2 DEF Implicit!InitialRefinement
<1>3. CASE Implicit!Indicate
      BY <1>1, <1>3 DEF Implicit!Indicate
<1>4. CASE Implicit!Store
      BY <1>4 DEF Implicit!Store, DataInv, Implicit!gridVars
<1>5. CASE Implicit!Adapt
  <2>1. /\ phase = "stored" /\ phase' = "adapted" /\ preparedFor' = preparedFor
        /\ Implicit!GridAdapts /\ wasAdapted' = Implicit!Changed
        BY <1>5 DEF Implicit!Adapt
  <2>2. preparedFor = leaves
        BY <2>1 DEF DataInv
  <2>3. GridAdapts
        BY <2>1 DEF GridAdapts, Implicit!GridAdapts, HasFather, Implicit!HasFather, Level,
                    Implicit!Level, Children, Implicit!Children, Father, Implicit!Father,
                    Ancestor, Implicit!Ancestor, Dims, Implicit!Dims, PowerOfTwo, Implicit!PowerOfTwo
  <2>4. ~wasAdapted' => leaves' = leaves
        BY <2>1, <2>3, UnmarkedGridStays DEF Implicit!Changed
  <2> QED BY <2>1, <2>2, <2>4 DEF DataInv
<1>6. CASE Implicit!Reconstruct
      BY <1>6 DEF Implicit!Reconstruct, DataInv
<1>7. CASE Implicit!UpdateGridData
      BY <1>7 DEF Implicit!UpdateGridData, DataInv, Implicit!gridVars
<1>8. CASE Implicit!EndRound
      BY <1>8 DEF Implicit!EndRound, DataInv, Implicit!gridVars
<1>9. CASE Implicit!Solve
      BY <1>9 DEF Implicit!Solve, DataInv, Implicit!gridVars
<1>10. CASE UNCHANGED Implicit!twoPVars
      BY <1>10 DEF Implicit!twoPVars, DataInv, Implicit!gridVars
<1> QED BY <1>2, <1>3, <1>4, <1>5, <1>6, <1>7, <1>8, <1>9, <1>10 DEF Implicit!TwoPNext

(* Whenever the implicit model is solved, the old solution, the grid       *)
(* variables and the matrix pattern are those of the leaves.               *)
THEOREM DataStaysCurrent == Spec => []DataCurrent
<1> DEFINE Inv == model = "implicit" => DataInv
<1>1. Init => Inv
      BY DEF Init, AdaptInit, InitialGrid, DataInv
<1>2. Inv /\ [Next]_allVars => Inv'
  <2> SUFFICES ASSUME Inv, [Next]_allVars, model' = "implicit" PROVE DataInv'
      OBVIOUS
  <2>1. model = "implicit"
        BY DEF Next, allVars
  <2>2. CASE Implicit!TwoPNext
        BY <2>1, <2>2, DataNextInv
  <2>3. CASE UNCHANGED allVars
        BY <2>1, <2>3 DEF allVars, adaptVars, gridVars, DataInv
  <2> QED BY <2>1, <2>2, <2>3 DEF Next
<1>3. Inv => DataCurrent
      BY DEF DataInv, DataCurrent, Implicit!DataFollowGrid
<1> HIDE DEF Inv
<1> QED BY <1>1, <1>2, <1>3, PTL DEF Spec
-----------------------------------------------------------------------------
(* The sequential model asks the standard indicator only when it has been  *)
(* calculated: while the grid is initialized no leaf is finer than the     *)
(* initial grid or the level that the indicator knows of.                  *)
StartsCoarse == InitialLevel < LevelMax \/ LevelMax = 0

Known(level) == level <= nextMaxLevel \/ level <= InitialLevel

VerdictInv ==
    /\ staleVerdict = FALSE
    /\ initializing =>
          /\ Known(maxLevel)
          /\ \A e \in leaves : Known(Level(e)) /\ (marks[e] = 1 => Level(e) < nextMaxLevel)

LEMMA RoundVerdict ==
    ASSUME StartsCoarse, GridInv, VerdictInv, InitRound
    PROVE  VerdictInv'
<1>0. /\ leaves \subseteq Cells /\ LevelMax \in Nat /\ InitialLevel \in 0..LevelMax
      /\ maxLevel \in 0..LevelMax /\ nextMaxLevel \in 0..LevelMax
      /\ \A e \in leaves : Level(e) \in 0..LevelMax
      BY AdaptiveGridAssumption, LevelsOfCells DEF GridInv, AdaptTypeOK
<1>1. PICK verdict \in Verdicts : Mark(InitRefine(verdict), InitCoarsen(verdict))
      BY DEF InitRound
<1>2. /\ initializing /\ initializing' = initializing
      /\ maxLevel' = HighestLevel /\ nextMaxLevel' = NextMaxLevel
      /\ staleVerdict' = (staleVerdict \/ (nextMaxLevel # LevelMax /\ HighestLevel = LevelMax))
      /\ leaves' = leaves
      BY <1>1 DEF InitRound, Mark
<1>3. /\ HighestLevel \in 0..LevelMax
      /\ HighestLevel = maxLevel \/ \E e \in leaves : HighestLevel = Level(e)
      BY <1>0, HighestLevelIs
<1>4. Known(HighestLevel)
      BY <1>2, <1>3 DEF VerdictInv
<1>5. HighestLevel = LevelMax => nextMaxLevel = LevelMax
      BY <1>0, <1>4 DEF Known, StartsCoarse
<1>6. /\ NextMaxLevel \in 0..LevelMax /\ NextMaxLevel >= nextMaxLevel
      /\ \A e \in RefineCell : Level(e) < LevelMax => Level(e) < NextMaxLevel
      BY <1>0, NextMaxLevelIs
<1>7. \A level \in 0..LevelMax : Known(level) => Known(level)'
      BY <1>0, <1>2, <1>6 DEF Known
<1>8. InitRefine(verdict) \in SUBSET leaves
      BY VerdictsAreLeaves DEF InitRefine, RefineCell, At
<1>9. ASSUME NEW e \in leaves, marks'[e] = 1 PROVE Level(e) < NextMaxLevel
  <2>1. e \in Refinements(InitRefine(verdict))
        BY <1>1, <1>9, MarksAre
  <2>2. PICK c \in InitRefine(verdict) : Level(e) <= Level(c) /\ Level(c) < LevelMax
        BY <1>0, <1>8, <2>1, RefinementsBelow
  <2>3. Level(c) < NextMaxLevel
    <3>1. CASE HighestLevel = LevelMax
          BY <1>0, <1>5, <1>6, <1>8, <2>2, <3>1
    <3>2. CASE HighestLevel # LevelMax
          BY <1>6, <2>2, <3>2 DEF InitRefine
    <3> QED BY <3>1, <3>2
  <2> QED BY <1>0, <1>6, <1>8, <2>2, <2>3
<1>10. staleVerdict' = FALSE
      BY <1>2, <1>5, Zenon DEF VerdictInv
<1>11. Known(maxLevel)'
      BY <1>2, <1>3, <1>4, <1>7 DEF Known
<1>12. \A e \in leaves : Known(Level(e))'
      BY <1>0, <1>2, <1>7 DEF VerdictInv, Known
<1> QED BY <1>2, <1>9, <1>10, <1>11, <1>12 DEF VerdictInv, Known

LEMMA AdaptVerdict ==
    ASSUME GridInv, VerdictInv, AdaptTheGrid
    PROVE  VerdictInv'
<1>0. /\ leaves \subseteq Cells /\ LevelMax \in Nat /\ InitialLevel \in 0..LevelMax
      /\ nextMaxLevel \in 0..LevelMax
      /\ \A e \in leaves : Level(e) \in 0..LevelMax
      BY AdaptiveGridAssumption, LevelsOfCells DEF GridInv, AdaptTypeOK
<1>1. /\ GridAdapts /\ marks' = [e \in leaves' |-> 0]
      /\ UNCHANGED <<initializing, maxLevel, nextMaxLevel, staleVerdict>>
      BY DEF AdaptTheGrid, GridAdapts, initVars
<1>2. ASSUME initializing, NEW e \in leaves' PROVE Known(Level(e))
  <2>1. CASE Kept(e)
        BY <1>2, <2>1 DEF Kept, VerdictInv
  <2>2. CASE Refined(e)
    <3>1. PICK f \in leaves : marks[f] = 1 /\ e \in Children(f)
          BY <2>2 DEF Refined
    <3>2. Level(e) = Level(f) + 1 /\ Level(f) < nextMaxLevel
          BY <1>0, <1>2, <3>1, ChildCells DEF VerdictInv
    <3> QED BY <1>0, <3>2 DEF Known
  <2>3. CASE Coarsened(e)
    <3>1. PICK s \in leaves : HasFather(s) /\ e = Father(s)
          BY <2>3 DEF Coarsened
    <3>2. Level(e) = Level(s) - 1 /\ Known(Level(s))
          BY <1>0, <1>2, <3>1, FatherCells DEF VerdictInv
    <3> QED BY <1>0, <3>2 DEF Known
  <2> QED BY <1>1, <2>1, <2>2, <2>3, AdaptedLeaves
<1>3. \A e \in leaves' : marks'[e] # 1
      BY <1>1
<1> QED BY <1>1, <1>2, <1>3 DEF VerdictInv, Known

LEMMA VerdictNextInv ==
    ASSUME StartsCoarse, GridInv, VerdictInv, [AdaptNext]_adaptVars
    PROVE  VerdictInv'
<1>1. CASE InitRound
      BY <1>1, RoundVerdict
<1>2. CASE AdaptTheGrid
      BY <1>2, AdaptVerdict
<1>3. CASE EndInit
      BY <1>3 DEF EndInit, VerdictInv
<1>4. CASE EndRound
  <2>1. initializing /\ UNCHANGED <<leaves, marks, maxLevel, nextMaxLevel, staleVerdict>>
        BY <1>4 DEF EndRound, gridVars
  <2> QED BY <2>1 DEF VerdictInv, Known
<1>5. CASE PreTimeStep \/ SkipAdaption \/ TimeStep
  <2>1. ~initializing /\ initializing' = initializing /\ staleVerdict' = staleVerdict
        BY <1>5 DEF PreTimeStep, SkipAdaption, TimeStep, initVars
  <2> QED BY <2>1 DEF VerdictInv
<1>6. CASE StorePrimVars \/ ReconstructPrimVars \/ UNCHANGED adaptVars
  <2>1. UNCHANGED <<leaves, marks, initializing, maxLevel, nextMaxLevel, staleVerdict>>
        BY <1>6 DEF StorePrimVars, ReconstructPrimVars, adaptVars, initVars, gridVars
  <2> QED BY <2>1 DEF VerdictInv, Known
<1> QED BY <1>1, <1>2, <1>3, <1>4, <1>5, <1>6 DEF AdaptNext

(* On a grid that starts below the highest level the standard indicator is *)
(* never asked in init() without having been calculated.                   *)
THEOREM VerdictsAreCurrent == StartsCoarse => (Spec => []VerdictIsCurrent)
<1> SUFFICES ASSUME StartsCoarse PROVE Spec => []VerdictIsCurrent
    OBVIOUS
<1> DEFINE Inv == /\ staleVerdict = FALSE
                  /\ model = "sequential" => GridInv /\ VerdictInv
<1>1. Init => Inv
  <2> SUFFICES ASSUME Init PROVE Inv
      OBVIOUS
  <2>1. GridInv /\ AdaptInit
        BY GridInitInv DEF Init
  <2>2. /\ leaves = ElementsOf(InitialLevel) /\ marks = [e \in leaves |-> 0]
        /\ staleVerdict = FALSE /\ nextMaxLevel = maxLevel
        BY <2>1 DEF AdaptInit, InitialGrid
  <2>3. \A e \in leaves : Level(e) = InitialLevel /\ marks[e] # 1
    <3>1. \A e \in ElementsOf(InitialLevel) : Level(e) = InitialLevel
          BY DEF ElementsOf, Level
    <3>2. \A e \in leaves : marks[e] = 0
          BY <2>2
    <3> QED BY <2>2, <3>1, <3>2
  <2>4. InitialLevel \in Int /\ maxLevel \in Int
        BY <2>1, AdaptiveGridAssumption DEF GridInv, AdaptTypeOK
  <2> QED BY <2>1, <2>2, <2>3, <2>4 DEF VerdictInv, Known
<1>2. Inv /\ [Next]_allVars => Inv'
  <2> SUFFICES ASSUME Inv, [Next]_allVars PROVE Inv'
      OBVIOUS
  <2>1. CASE model = "sequential"
    <3>1. [AdaptNext]_adaptVars /\ model' = model
          BY <2>1 DEF Next, allVars
    <3>2. GridInv' /\ VerdictInv'
          BY <2>1, <3>1, GridNextInv, VerdictNextInv
    <3> QED BY <3>2 DEF VerdictInv
  <2>2. CASE model # "sequential"
        BY <2>2 DEF Next, allVars, adaptVars, initVars
  <2> QED BY <2>1, <2>2
<1>3. Inv => VerdictIsCurrent
      BY DEF VerdictIsCurrent
<1> HIDE DEF Inv
<1> QED BY <1>1, <1>2, <1>3, PTL DEF Spec
-----------------------------------------------------------------------------
(* How points at sources lie in elements. *)
LEMMA HalfOfQuotient ==
    ASSUME NEW a \in Nat, NEW b \in Nat \ {0}
    PROVE  /\ a \div b \in Nat
           /\ a \div (2 * b) = (a \div b) \div 2
<1> DEFINE m == a \div b
           r == a % b
<1>1. m \in Nat /\ r \in Nat /\ r < b /\ a = (b * m) + r
      OBVIOUS
<1> HIDE DEF m, r
<1>2. PICK k \in Nat, j \in {0, 1} : m = 2 * k + j
  <2>1. m \div 2 \in Nat /\ m % 2 \in {0, 1} /\ m = 2 * (m \div 2) + (m % 2)
        BY <1>1
  <2> QED BY <2>1
<1>3. m \div 2 = k
      BY <1>2
<1>4. b * m = (2 * b) * k + b * j
      BY <1>2
<1> DEFINE c == 2 * b
           s == b * j + r
<1>5. c \in Nat \ {0} /\ s \in Nat /\ s < c
  <2>1. CASE j = 0
        BY <1>1, <2>1
  <2>2. CASE j = 1
        BY <1>1, <2>2
  <2> QED BY <1>2, <2>1, <2>2
<1>6. a = (c * k) + s
      BY <1>1, <1>4
<1> HIDE DEF c, s
<1>7. a \div c = k
      BY <1>5, <1>6
<1> QED BY <1>1, <1>3, <1>7 DEF c, m

LEMMA PointsAreFinest ==
    ASSUME NEW p \in Points
    PROVE  Level(p) = LevelMax /\ p[2] \in [Dims -> Nat]
<1> DEFINE m == Max({MacroCells[d] * PowerOfTwo[LevelMax] : d \in Dims}) - 1
<1>1. PICK q : p = <<LevelMax, q>> /\ q \in [Dims -> 0..m]
      BY GridAdaptAssumption DEF ElementsOf
<1> HIDE DEF m
<1>2. q \in [Dims -> Nat]
  <2>1. \A i \in 0..m : i \in Nat
        OBVIOUS
  <2> QED BY <1>1, <2>1
<1> QED BY <1>1, <1>2 DEF Level

LEMMA AncestorsOfPoint ==
    ASSUME NEW p \in Points, NEW l \in 0..LevelMax - 1
    PROVE  \E x \in [Dims -> Nat] :
              /\ Ancestor(p, l) = <<l, [d \in Dims |-> x[d] \div 2]>>
              /\ Ancestor(p, l + 1) = <<l + 1, x>>
<1>0. LevelMax \in Nat /\ Level(p) = LevelMax /\ p[2] \in [Dims -> Nat]
      BY PointsAreFinest, AdaptiveGridAssumption
<1> DEFINE n == LevelMax - l
           b == PowerOfTwo[n - 1]
           x == [d \in Dims |-> p[2][d] \div b]
<1>1. n \in 1..LevelMax /\ n - 1 \in 0..LevelMax /\ LevelMax - (l + 1) = n - 1
      BY <1>0
<1>2. b \in Nat \ {0} /\ PowerOfTwo[n] = 2 * b
      BY <1>1, PowersDouble
<1>3. \A d \in Dims : /\ p[2][d] \div b \in Nat
                       /\ p[2][d] \div (2 * b) = (p[2][d] \div b) \div 2
  <2> SUFFICES ASSUME NEW d \in Dims
               PROVE  /\ p[2][d] \div b \in Nat
                      /\ p[2][d] \div (2 * b) = (p[2][d] \div b) \div 2
      OBVIOUS
  <2>1. p[2][d] \in Nat
        BY <1>0
  <2> HIDE DEF b
  <2> QED BY <1>2, <2>1, HalfOfQuotient
<1> HIDE DEF b
<1>4. x \in [Dims -> Nat]
      BY <1>3
<1>5. Ancestor(p, l + 1) = <<l + 1, x>>
  <2>1. PowerOfTwo[Level(p) - (l + 1)] = b
        BY <1>0, <1>1 DEF b
  <2> QED BY <2>1 DEF Ancestor
<1>6. Ancestor(p, l) = <<l, [d \in Dims |-> p[2][d] \div (2 * b)]>>
  <2>1. PowerOfTwo[Level(p) - l] = 2 * b
        BY <1>0, <1>2
  <2> QED BY <2>1 DEF Ancestor
<1>7. [d \in Dims |-> p[2][d] \div (2 * b)] = [d \in Dims |-> x[d] \div 2]
      BY <1>3
<1> QED BY <1>4, <1>5, <1>6, <1>7

(* An element covers a point exactly if one of its children does. *)
LEMMA ChildAtPoint ==
    ASSUME NEW p \in Points, NEW e \in Cells, Level(e) < LevelMax
    PROVE  /\ \A s \in Children(e) : Covers(s, p) => Covers(e, p)
           /\ Covers(e, p) => \E s \in Children(e) : Covers(s, p)
<1> DEFINE l == Level(e)
           y == e[2]
<1>0. LevelMax \in Nat /\ Level(p) = LevelMax
      BY PointsAreFinest, AdaptiveGridAssumption
<1>1. e = <<l, y>> /\ l \in 0..LevelMax - 1 /\ y \in [Dims -> Nat]
      BY <1>0 DEF Cells, Level
<1>2. PICK x \in [Dims -> Nat] :
              /\ Ancestor(p, l) = <<l, [d \in Dims |-> x[d] \div 2]>>
              /\ Ancestor(p, l + 1) = <<l + 1, x>>
      BY <1>1, AncestorsOfPoint
<1>3. Covers(e, p) <=> [d \in Dims |-> x[d] \div 2] = y
  <2>1. Covers(e, p) <=> Ancestor(p, l) = e
        BY <1>0, <1>1 DEF Covers
  <2> HIDE DEF l, y
  <2> QED BY <1>1, <1>2, <2>1
<1>4. ASSUME NEW s \in Children(e), Covers(s, p) PROVE Covers(e, p)
  <2>1. PICK o \in [Dims -> {0, 1}] : s = <<l + 1, [d \in Dims |-> 2 * y[d] + o[d]]>>
        BY DEF Children
  <2>2. Ancestor(p, l + 1) = s
        BY <1>4, <2>1 DEF Covers, Level
  <2> HIDE DEF l, y
  <2>3. x = [d \in Dims |-> 2 * y[d] + o[d]]
        BY <1>2, <2>1, <2>2
  <2>4. \A d \in Dims : x[d] \div 2 = y[d]
    <3> SUFFICES ASSUME NEW d \in Dims PROVE x[d] \div 2 = y[d]
        OBVIOUS
    <3>1. x[d] = 2 * y[d] + o[d] /\ y[d] \in Nat /\ o[d] \in {0, 1}
          BY <1>1, <2>3
    <3>2. \A i \in Nat : \A j \in {0, 1} : (2 * i + j) \div 2 = i
          OBVIOUS
    <3> QED BY <3>1, <3>2
  <2>5. [d \in Dims |-> x[d] \div 2] = y
        BY <1>1, <2>4
  <2> QED BY <1>3, <2>5
<1>5. ASSUME Covers(e, p) PROVE \E s \in Children(e) : Covers(s, p)
  <2>1. [d \in Dims |-> x[d] \div 2] = y
        BY <1>3, <1>5
  <2> DEFINE o == [d \in Dims |-> x[d] % 2]
             s == <<l + 1, [d \in Dims |-> 2 * y[d] + o[d]]>>
  <2>2. \A i \in Nat : i % 2 \in {0, 1} /\ 2 * (i \div 2) + (i % 2) = i
        OBVIOUS
  <2>3. o \in [Dims -> {0, 1}]
        BY <2>2
  <2>4. s \in Children(e)
        BY <2>3 DEF Children
  <2>5. \A d \in Dims : 2 * y[d] + o[d] = x[d]
    <3> SUFFICES ASSUME NEW d \in Dims PROVE 2 * y[d] + o[d] = x[d]
        OBVIOUS
    <3>1. x[d] \in Nat /\ y[d] = x[d] \div 2 /\ o[d] = x[d] % 2
      <4> HIDE DEF y, l
      <4> QED BY <2>1
    <3> QED BY <2>2, <3>1
  <2>6. [d \in Dims |-> 2 * y[d] + o[d]] = x
    <3> HIDE DEF y, l, o
    <3> QED BY <2>5
  <2>7. s = Ancestor(p, l + 1) /\ Level(s) = l + 1
    <3> HIDE DEF y, l, o
    <3> QED BY <1>2, <2>6 DEF Level
  <2>8. l + 1 <= Level(p)
        BY <1>0, <1>1
  <2>9. Covers(s, p)
    <3> HIDE DEF s
    <3> QED BY <2>7, <2>8 DEF Covers
  <2> HIDE DEF s
  <2> QED BY <2>4, <2>9
<1> QED BY <1>4, <1>5
-----------------------------------------------------------------------------
(* The rounds of the initialization: after n of them the elements at the   *)
(* sources have n levels or the highest, and all have n or the lowest that *)
(* is allowed.  What a round has to refine is marked until it is adapted,  *)
(* and nothing is coarsened that would take back what was reached.         *)
FineAfter(n) ==
    /\ \A e \in At(sources) : Level(e) >= n \/ Level(e) = LevelMax
    /\ \A e \in leaves : Level(e) >= n \/ Level(e) >= LevelMin

MarkedForRound ==
    /\ \A e \in RefineCell : Level(e) < LevelMax => marks[e] = 1
    /\ \A e \in leaves : marks[e] = -1 => Level(e) > LevelMin /\ e \notin At(sources)

RoundsDone == IF wasAdapted THEN iter + 1 ELSE LevelMax

RoundsInv ==
    /\ phase \in {"marked", "stored", "adapted"} => wasAdapted
    /\ initializing =>
          /\ phase \in {"idle", "marked", "stored"} => FineAfter(iter)
          /\ phase \in {"marked", "stored"} => MarkedForRound
          /\ phase \in {"adapted", "done"} => FineAfter(RoundsDone)

LEMMA RoundMarks ==
    ASSUME GridInv, RoundsInv, InitRound
    PROVE  RoundsInv'
<1>0. /\ leaves \subseteq Cells /\ LevelMax \in Nat /\ LevelMin \in 0..LevelMax
      /\ \A e \in leaves : Level(e) \in 0..LevelMax
      BY AdaptiveGridAssumption, LevelsOfCells DEF GridInv
<1>1. PICK verdict \in Verdicts : Mark(InitRefine(verdict), InitCoarsen(verdict))
      BY DEF InitRound
<1>2. /\ phase = "idle" /\ initializing /\ UNCHANGED <<leaves, initializing, iter, sources>>
      BY <1>1 DEF InitRound, Mark
<1>3. /\ marks' \in [leaves -> {-1, 0, 1}]
      /\ \A e \in leaves : marks'[e] = 1 <=> e \in Refinements(InitRefine(verdict))
      /\ \A e \in leaves : marks'[e] = -1 => e \in InitCoarsen(verdict) /\ Level(e) > LevelMin
      /\ wasAdapted' \in BOOLEAN
      /\ ~wasAdapted' => \A e \in leaves : marks'[e] = 0
      /\ phase' = IF wasAdapted' THEN "marked" ELSE "done"
      BY <1>1, MarksAre
<1>4. /\ InitRefine(verdict) \in SUBSET leaves /\ RefineCell \subseteq InitRefine(verdict)
      /\ RefineCell \subseteq leaves
      BY VerdictsAreLeaves DEF InitRefine, RefineCell, At
<1>5. \A e \in RefineCell : Level(e) < LevelMax => marks'[e] = 1
      BY <1>0, <1>3, <1>4, RefinementsBelow
<1>6. \A e \in leaves : marks'[e] = -1 => Level(e) > LevelMin /\ e \notin At(sources)
      BY <1>3 DEF InitCoarsen, RefineCell
<1>7. FineAfter(iter)
      BY <1>2 DEF RoundsInv
<1>8. ASSUME ~wasAdapted' PROVE FineAfter(LevelMax)
  <2>1. ASSUME NEW e \in RefineCell PROVE Level(e) = LevelMax
    <3>1. marks'[e] # 1 /\ e \in leaves
          BY <1>3, <1>4, <1>8
    <3>2. ~(Level(e) < LevelMax)
          BY <1>5, <3>1
    <3> QED BY <1>0, <3>1, <3>2
  <2>2. \A e \in leaves : Level(e) < LevelMin => e \in RefineCell
        BY DEF RefineCell
  <2>3. \A e \in leaves : Level(e) >= LevelMin
        BY <1>0, <2>1, <2>2
  <2>4. At(sources) \subseteq RefineCell
        BY DEF RefineCell
  <2> QED BY <2>1, <2>3, <2>4 DEF FineAfter
<1>9. At(sources)' = At(sources) /\ RefineCell' = RefineCell
      BY <1>2 DEF At, RefineCell
<1>10. MarkedForRound'
      BY <1>2, <1>5, <1>6, <1>9 DEF MarkedForRound
<1>11. \A n : FineAfter(n) => /\ \A e \in At(sources)' : Level(e) >= n \/ Level(e) = LevelMax
                             /\ \A e \in leaves' : Level(e) >= n \/ Level(e) >= LevelMin
      BY <1>2, <1>9 DEF FineAfter
<1>12. CASE wasAdapted'
  <2>1. phase' = "marked" /\ FineAfter(iter)'
        BY <1>2, <1>3, <1>7, <1>11, <1>12 DEF FineAfter
  <2> QED BY <1>10, <1>12, <2>1 DEF RoundsInv
<1>13. CASE ~wasAdapted'
  <2>1. phase' = "done" /\ RoundsDone' = LevelMax
        BY <1>3, <1>13 DEF RoundsDone
  <2>2. FineAfter(RoundsDone)'
        BY <1>8, <1>11, <1>13, <2>1 DEF FineAfter
  <2> QED BY <2>1, <2>2 DEF RoundsInv
<1> QED BY <1>12, <1>13

(* The adaption itself: a round has been made. *)
LEMMA RoundAdapts ==
    ASSUME GridInv, RoundsInv, AdaptTheGrid
    PROVE  RoundsInv'
<1>0. /\ leaves \subseteq Cells /\ LevelMax \in Nat /\ LevelMin \in 0..LevelMax
      /\ \A e \in leaves : Level(e) \in 0..LevelMax
      /\ iter \in Nat /\ sources \subseteq Points
      BY AdaptiveGridAssumption, LevelsOfCells DEF GridInv, AdaptTypeOK
<1>1. /\ GridAdapts /\ phase = "stored" /\ phase' = "adapted"
      /\ UNCHANGED <<wasAdapted, initializing, iter, sources>>
      BY DEF AdaptTheGrid, initVars
<1>2. wasAdapted
      BY <1>1 DEF RoundsInv
<1>3. ASSUME initializing PROVE FineAfter(iter + 1)'
  <2>1. FineAfter(iter) /\ MarkedForRound
        BY <1>1, <1>3 DEF RoundsInv
  <2>2. ASSUME NEW e \in leaves', NEW p \in sources, Covers(e, p)
        PROVE  Level(e) >= iter + 1 \/ Level(e) = LevelMax
    <3>0. p \in Points
          BY <1>0
    <3>1. CASE Kept(e)
      <4>1. e \in At(sources) /\ marks[e] # 1 /\ e \in leaves
            BY <2>2, <3>1 DEF Kept, At
      <4>2. e \in RefineCell
            BY <4>1 DEF RefineCell
      <4>3. ~(Level(e) < LevelMax)
            BY <2>1, <4>1, <4>2 DEF MarkedForRound
      <4> QED BY <1>0, <4>1, <4>3
    <3>2. CASE Refined(e)
      <4>1. PICK f \in leaves : marks[f] = 1 /\ e \in Children(f)
            BY <3>2 DEF Refined
      <4>2. f \in Cells /\ Level(f) < LevelMax /\ Level(e) = Level(f) + 1
            BY <1>0, <4>1, ChildCells DEF GridInv
      <4>3. Covers(f, p)
            BY <2>2, <3>0, <4>1, <4>2, ChildAtPoint
      <4>4. f \in At(sources)
            BY <4>1, <4>3 DEF At
      <4>5. Level(f) >= iter
            BY <1>0, <2>1, <4>2, <4>4 DEF FineAfter
      <4> QED BY <1>0, <4>1, <4>2, <4>5
    <3>3. CASE Coarsened(e)
      <4>1. PICK c \in leaves : HasFather(c) /\ e = Father(c)
            BY <3>3 DEF Coarsened
      <4>2. e \in Cells /\ Level(e) < LevelMax
            BY <1>0, <4>1, FatherCells
      <4>3. PICK s \in Children(e) : Covers(s, p)
            BY <2>2, <3>0, <4>2, ChildAtPoint
      <4>4. s \in leaves /\ marks[s] = -1
            BY <3>3 DEF Coarsened
      <4>5. s \in At(sources)
            BY <4>3, <4>4 DEF At
      <4> QED BY <2>1, <4>4, <4>5 DEF MarkedForRound
    <3> QED BY <1>1, <3>1, <3>2, <3>3, AdaptedLeaves
  <2>3. ASSUME NEW e \in leaves'
        PROVE  Level(e) >= iter + 1 \/ Level(e) >= LevelMin
    <3>1. CASE Kept(e)
      <4>1. marks[e] # 1 /\ e \in leaves
            BY <3>1 DEF Kept
      <4>2. Level(e) < LevelMin => e \in RefineCell /\ Level(e) < LevelMax
            BY <1>0, <4>1 DEF RefineCell
      <4>3. ~(Level(e) < LevelMin)
            BY <2>1, <4>1, <4>2 DEF MarkedForRound
      <4> QED BY <1>0, <4>1, <4>3
    <3>2. CASE Refined(e)
      <4>1. PICK f \in leaves : marks[f] = 1 /\ e \in Children(f)
            BY <3>2 DEF Refined
      <4>2. Level(e) = Level(f) + 1 /\ Level(f) \in 0..LevelMax
            BY <1>0, <4>1, ChildCells
      <4>3. Level(f) >= iter \/ Level(f) >= LevelMin
            BY <2>1, <4>1 DEF FineAfter
      <4> QED BY <1>0, <4>2, <4>3
    <3>3. CASE Coarsened(e)
      <4>1. PICK c \in leaves : HasFather(c) /\ e = Father(c)
            BY <3>3 DEF Coarsened
      <4>2. e \in Cells /\ Level(e) \in 0..LevelMax
            BY <1>0, <4>1, FatherCells DEF Cells, Level
      <4>3. PICK s : s \in Children(e)
            BY SomeChild
      <4>4. s \in leaves /\ marks[s] = -1 /\ Level(s) = Level(e) + 1
            BY <3>3, <4>2, <4>3, ChildCells DEF Coarsened
      <4>5. Level(s) > LevelMin
            BY <2>1, <4>4 DEF MarkedForRound
      <4> QED BY <1>0, <4>2, <4>4, <4>5
    <3> QED BY <1>1, <3>1, <3>2, <3>3, AdaptedLeaves
  <2> QED BY <1>1, <2>2, <2>3 DEF FineAfter, At
<1>4. RoundsDone' = iter' + 1
      BY <1>1, <1>2 DEF RoundsDone
<1>5. initializing' => FineAfter(RoundsDone)'
      BY <1>1, <1>3, <1>4 DEF FineAfter
<1> QED BY <1>1, <1>2, <1>5 DEF RoundsInv

(* When the loop of init() ends, nothing was marked or enough rounds were. *)
LEMMA LoopPrepares ==
    ASSUME GridInv, RoundsInv, initializing, EndInit \/ EndRound, ~initializing'
    PROVE  /\ \A e \in At(sources) : Level(e) = LevelMax
           /\ \A e \in leaves : Level(e) >= LevelMin
<1>0. /\ LevelMax \in Nat /\ LevelMin \in 0..LevelMax /\ iter \in Nat
      /\ \A e \in leaves : Level(e) \in 0..LevelMax
      BY AdaptiveGridAssumption, LevelsOfCells DEF GridInv, AdaptTypeOK
<1>1. FineAfter(RoundsDone)
      BY DEF RoundsInv, EndInit, EndRound
<1>2. RoundsDone \in Nat /\ RoundsDone >= LevelMax
  <2>1. CASE EndInit
        BY <1>0, <2>1 DEF EndInit, RoundsDone
  <2>2. CASE EndRound
    <3>1. wasAdapted /\ initializing' = (iter + 1 <= 2 * LevelMax)
          BY <2>2 DEF EndRound, MaxIter
    <3>2. ~(iter + 1 <= 2 * LevelMax)
          BY <3>1, Zenon
    <3> QED BY <1>0, <3>1, <3>2 DEF RoundsDone
  <2> QED BY <2>1, <2>2
<1>3. At(sources) \subseteq leaves
      BY DEF At
<1> QED BY <1>0, <1>1, <1>2, <1>3 DEF FineAfter

LEMMA RoundsNextInv ==
    ASSUME GridInv, RoundsInv, [AdaptNext]_adaptVars
    PROVE  RoundsInv'
<1>1. CASE InitRound
      BY <1>1, RoundMarks
<1>2. CASE AdaptTheGrid
      BY <1>2, RoundAdapts
<1>3. CASE EndInit
      BY <1>3 DEF EndInit, RoundsInv
<1>4. CASE EndRound
  <2>1. /\ initializing /\ phase = "done" /\ phase' = "idle" /\ wasAdapted /\ iter' = iter + 1
        /\ UNCHANGED <<leaves, sources>>
        BY <1>4 DEF EndRound, gridVars
  <2>2. FineAfter(iter + 1)
        BY <2>1 DEF RoundsInv, RoundsDone
  <2>3. FineAfter(iter)'
        BY <2>1, <2>2 DEF FineAfter, At
  <2> QED BY <2>1, <2>3 DEF RoundsInv
<1>5. CASE PreTimeStep
  <2>1. PICK verdict \in Verdicts : Mark(verdict[1], verdict[2])
        BY <1>5 DEF PreTimeStep
  <2>2. ~initializing /\ initializing' = initializing /\ (phase' = "done" \/ wasAdapted')
        BY <1>5, <2>1, MarksAre DEF PreTimeStep, initVars
  <2>3. phase' \in {"marked", "done"}
        BY <2>1, MarksAre
  <2> QED BY <2>2, <2>3 DEF RoundsInv
<1>6. CASE SkipAdaption \/ TimeStep
  <2>1. ~initializing /\ initializing' = initializing /\ phase' \in {"idle", "done"}
        BY <1>6 DEF SkipAdaption, TimeStep, initVars
  <2> QED BY <2>1 DEF RoundsInv
<1>7. CASE StorePrimVars
  <2>1. /\ phase = "marked" /\ phase' = "stored"
        /\ UNCHANGED <<leaves, marks, wasAdapted, initializing, iter, sources>>
        BY <1>7 DEF StorePrimVars, gridVars, initVars
  <2> QED BY <2>1 DEF RoundsInv, FineAfter, MarkedForRound, RefineCell, At
<1>8. CASE ReconstructPrimVars
  <2>1. /\ phase = "adapted" /\ phase' = "done"
        /\ UNCHANGED <<leaves, wasAdapted, initializing, iter, sources>>
        BY <1>8 DEF ReconstructPrimVars, initVars
  <2> QED BY <2>1 DEF RoundsInv, FineAfter, RoundsDone, At
<1>9. CASE UNCHANGED adaptVars
  <2>1. UNCHANGED <<leaves, marks, phase, wasAdapted, initializing, iter, sources>>
        BY <1>9 DEF adaptVars, gridVars, initVars
  <2> QED BY <2>1 DEF RoundsInv, FineAfter, RoundsDone, MarkedForRound, RefineCell, At
<1> QED BY <1>1, <1>2, <1>3, <1>4, <1>5, <1>6, <1>7, <1>8, <1>9 DEF AdaptNext

(* When init() ends, after however many rounds, the elements at the        *)
(* sources are as fine as allowed and none is coarser than allowed: the    *)
(* bound of 2*levelMax rounds is never too low.                            *)
THEOREM InitializationPrepares == Spec => InitPrepares
<1> DEFINE Inv == model = "sequential" => GridInv /\ RoundsInv
           Prepared == /\ \A e \in At(sources) : Level(e) = LevelMax
                       /\ \A e \in leaves : Level(e) >= LevelMin
<1>1. Init => Inv
  <2> SUFFICES ASSUME Init PROVE GridInv /\ RoundsInv
      OBVIOUS
  <2>1. GridInv /\ AdaptInit
        BY GridInitInv DEF Init
  <2>2. phase = "idle" /\ iter = 0
        BY <2>1 DEF AdaptInit, InitialGrid
  <2>3. \A e \in leaves : Level(e) >= 0
        BY <2>1, LevelsOfCells DEF GridInv
  <2>4. At(sources) \subseteq leaves
        BY DEF At
  <2> QED BY <2>1, <2>2, <2>3, <2>4 DEF RoundsInv, FineAfter
<1>2. Inv /\ [Next]_allVars => Inv' /\ (initializing /\ ~initializing' => Prepared)
  <2> SUFFICES ASSUME Inv, [Next]_allVars
               PROVE  Inv' /\ (initializing /\ ~initializing' => Prepared)
      OBVIOUS
  <2>1. CASE model = "sequential"
    <3>1. [AdaptNext]_adaptVars /\ model' = model
          BY <2>1 DEF Next, allVars
    <3>2. Inv'
          BY <2>1, <3>1, GridNextInv, RoundsNextInv
    <3>3. ASSUME initializing, ~initializing' PROVE Prepared
      <4>1. EndInit \/ EndRound
            BY <3>1, <3>3 DEF AdaptNext, adaptVars, initVars, InitRound, PreTimeStep, SkipAdaption,
                              TimeStep, StorePrimVars, AdaptTheGrid, ReconstructPrimVars
      <4> QED BY <2>1, <3>3, <4>1, LoopPrepares
    <3> QED BY <3>2, <3>3
  <2>2. CASE model # "sequential"
        BY <2>2 DEF Next, allVars, adaptVars, initVars
  <2> QED BY <2>1, <2>2
<1>3. (initializing /\ ~initializing' => Prepared) =>
          [initializing /\ ~initializing' =>
              /\ \A e \in At(sources) : Level(e) = LevelMax
              /\ \A e \in leaves : Level(e) >= LevelMin]_adaptVars
      OBVIOUS
<1> HIDE DEF Inv
<1>4. Inv /\ [Next]_allVars => Inv' /\
          [initializing /\ ~initializing' =>
              /\ \A e \in At(sources) : Level(e) = LevelMax
              /\ \A e \in leaves : Level(e) >= LevelMin]_adaptVars
      BY <1>2, <1>3
<1> QED BY <1>1, <1>4, PTL DEF Spec, InitPrepares
=============================================================================
