--------------------------- MODULE Verdict_proofs ---------------------------
(***************************************************************************)
(* Proofs about Verdict and Histogram.  The prover takes no induction over   *)
(* predicates, so it is done over sets here: Least, NatInduct and SetInduct   *)
(* follow from well-founded orders of the library.  A sum is what it counts   *)
(* (SumCounts), which turns the facts about sums into facts about finite sets. *)
(***************************************************************************)
EXTENDS Verdict, FiniteSetTheorems, WellFoundedInduction, TLAPS

(* A set of numbers has a least member. *)
LEMMA Least ==
    ASSUME NEW T, T \subseteq Nat, T # {}
    PROVE  \E x \in T : \A y \in T : x <= y
<1> DEFINE R == OpToRel(<, Nat)
<1>1. \E x \in T : \A y \in T : ~ (<<y, x>> \in R)
  <2>1. IsWellFoundedOn(R, Nat)
    BY NatLessThanWellFounded
  <2> HIDE DEF R
  <2> QED BY <2>1, WFMin
<1>2. PICK x \in T : \A y \in T : ~ (<<y, x>> \in R)
  BY <1>1
<1>3. ASSUME NEW y \in T PROVE x <= y
  <2>1. ~(<<y, x>> \in R) /\ x \in Nat /\ y \in Nat
    BY <1>2
  <2> QED BY <2>1 DEF OpToRel
<1> QED BY <1>3

(* Induction over the numbers, with the set G of those that are shown to have the *)
(* property.                                                                      *)
LEMMA NatInduct ==
    ASSUME NEW G, 0 \in G, \A n \in Nat : n \in G => n + 1 \in G
    PROVE  Nat \subseteq G
<1> SUFFICES ASSUME Nat \ G # {} PROVE FALSE
  OBVIOUS
<1>1. PICK x \in Nat \ G : \A y \in Nat \ G : x <= y
  BY Least
<1>2. x - 1 \in Nat /\ x - 1 \in G
  BY <1>1
<1> QED BY <1>1, <1>2

(* Induction over the subsets of a finite set, taking one element away. *)
LEMMA SetInduct ==
    ASSUME NEW S, IsFiniteSet(S), NEW G, {} \in G,
           \A T \in SUBSET S : (\A x \in T : T \ {x} \in G) => T \in G
    PROVE  SUBSET S \subseteq G
<1> SUFFICES ASSUME (SUBSET S) \ G # {} PROVE FALSE
  OBVIOUS
<1> DEFINE Sizes == {Cardinality(T) : T \in (SUBSET S) \ G}
<1>1. \A T \in SUBSET S : IsFiniteSet(T) /\ Cardinality(T) \in Nat
  BY FS_Subset, FS_CardinalityType
<1>2. Sizes \subseteq Nat /\ Sizes # {}
  BY <1>1
<1>3. PICK n \in Sizes : \A m \in Sizes : n <= m
  <2> HIDE DEF Sizes
  <2> QED BY <1>2, Least
<1>4. PICK T \in (SUBSET S) \ G : n = Cardinality(T)
  BY <1>3
<1>5. ASSUME NEW x \in T PROVE T \ {x} \in G
  <2>1. Cardinality(T \ {x}) = Cardinality(T) - 1
    BY <1>1, FS_RemoveElement
  <2>2. T \ {x} \in SUBSET S
    OBVIOUS
  <2>3. T \ {x} \notin G => Cardinality(T \ {x}) \in Sizes
    BY <2>2
  <2>4. Cardinality(T) \in Nat
    BY <1>1
  <2>5. ~(Cardinality(T) - 1 \in Sizes)
    <3> HIDE DEF Sizes
    <3> QED BY <1>3, <1>4, <2>4
  <2> QED BY <2>1, <2>3, <2>5
<1> QED BY <1>4, <1>5

-----------------------------------------------------------------------------
(* Sums over finite sets.  Units(f, S) has f[x] elements for each x of S. *)

Units(f, S) == {p \in S \X Nat : p[2] \in 1 .. f[p[1]]}

Countable(f, S) == IsFiniteSet(S) /\ \A x \in S : f[x] \in Nat

LEMMA IntervalSize == ASSUME NEW n \in Nat PROVE IsFiniteSet(1 .. n) /\ Cardinality(1 .. n) = n
BY FS_Interval

LEMMA UnitsOfOne ==
    ASSUME NEW x, NEW n \in Nat
    PROVE  IsFiniteSet({x} \X (1 .. n)) /\ Cardinality({x} \X (1 .. n)) = n
<1>1. IsFiniteSet({x}) /\ Cardinality({x}) = 1
  BY FS_Singleton
<1>2. IsFiniteSet(1 .. n) /\ Cardinality(1 .. n) = n
  BY IntervalSize
<1> DEFINE A == {x}
           B == 1 .. n
<1> HIDE DEF A, B
<1>3. IsFiniteSet(A) /\ IsFiniteSet(B) =>
          IsFiniteSet(A \X B) /\ Cardinality(A \X B) = Cardinality(A) * Cardinality(B)
  BY FS_Product, Zenon
<1>4. IsFiniteSet(A) /\ IsFiniteSet(B) /\ Cardinality(A) = 1 /\ Cardinality(B) = n
  BY <1>1, <1>2 DEF A, B
<1>5. IsFiniteSet(A \X B) /\ Cardinality(A \X B) = n
  BY <1>3, <1>4
<1> QED BY <1>5 DEF A, B

LEMMA UnitsFinite ==
    ASSUME NEW f, NEW S, Countable(f, S)
    PROVE  \A T \in SUBSET S : IsFiniteSet(Units(f, T))
<1> DEFINE G == {T \in SUBSET S : IsFiniteSet(Units(f, T))}
<1>1. {} \in G
  <2>1. Units(f, {}) = {}
    BY DEF Units
  <2> QED BY <2>1, FS_EmptySet
<1>2. ASSUME NEW T \in SUBSET S, \A x \in T : T \ {x} \in G PROVE T \in G
  <2>1. CASE T = {}
    BY <1>1, <2>1
  <2>2. CASE T # {}
    <3>1. PICK x \in T : TRUE
      BY <2>2
    <3>2. Units(f, T) = Units(f, T \ {x}) \cup ({x} \X (1 .. f[x]))
      BY DEF Units
    <3>3. IsFiniteSet(Units(f, T \ {x})) /\ f[x] \in Nat
      BY <1>2, <3>1 DEF Countable
    <3>4. IsFiniteSet({x} \X (1 .. f[x]))
      BY <3>3, UnitsOfOne
    <3>5. IsFiniteSet(Units(f, T \ {x}) \cup ({x} \X (1 .. f[x])))
      BY <3>3, <3>4, FS_Union
    <3> QED BY <3>2, <3>5
  <2> QED BY <2>1, <2>2
<1>3. IsFiniteSet(S)
  BY DEF Countable
<1>4. SUBSET S \subseteq G
  <2> HIDE DEF G
  <2> QED BY <1>1, <1>2, <1>3, SetInduct
<1> QED BY <1>4

(* An element has as many units as its value. *)
LEMMA UnitsRemove ==
    ASSUME NEW f, NEW S, Countable(f, S), NEW T \in SUBSET S, NEW x \in T
    PROVE  Cardinality(Units(f, T)) = f[x] + Cardinality(Units(f, T \ {x}))
<1>1. Units(f, T) = Units(f, T \ {x}) \cup ({x} \X (1 .. f[x]))
  BY DEF Units
<1>2. Units(f, T \ {x}) \cap ({x} \X (1 .. f[x])) = {}
  BY DEF Units
<1>3. IsFiniteSet(Units(f, T \ {x})) /\ f[x] \in Nat
  BY UnitsFinite DEF Countable
<1>4. Cardinality(Units(f, T \ {x})) \in Nat
  BY <1>3, FS_CardinalityType
<1>5. IsFiniteSet({x} \X (1 .. f[x])) /\ Cardinality({x} \X (1 .. f[x])) = f[x]
  BY <1>3, UnitsOfOne
<1> DEFINE A == Units(f, T \ {x})
           B == {x} \X (1 .. f[x])
<1> HIDE DEF A, B
<1>6. IsFiniteSet(A) /\ IsFiniteSet(B) =>
          Cardinality(A \cup B) = Cardinality(A) + Cardinality(B) - Cardinality(A \cap B)
  BY FS_Union, Zenon
<1>7. IsFiniteSet(A) /\ IsFiniteSet(B) /\ A \cap B = {} /\ Units(f, T) = A \cup B
  BY <1>1, <1>2, <1>3, <1>5 DEF A, B
<1>8. Cardinality(A) \in Nat /\ Cardinality(B) = f[x] /\ f[x] \in Nat
  BY <1>3, <1>4, <1>5 DEF A, B
<1>9. Cardinality(Units(f, T)) = Cardinality(A) + Cardinality(B) - Cardinality({})
  BY <1>6, <1>7, Zenon
<1>10. Cardinality(Units(f, T)) = f[x] + Cardinality(A)
  BY <1>8, <1>9, FS_EmptySet
<1> QED BY <1>10 DEF A

(* The folds that the operators are made of, both SumFunctionOnSet and BagCardinality. *)
Fold(f, D) ==
    CHOOSE iter : iter = [s \in SUBSET D |->
        IF s = {} THEN 0
        ELSE f[CHOOSE x \in s : TRUE] + iter[s \ {CHOOSE x \in s : TRUE}]]

(* The fold takes the elements in an order nobody knows; it counts units in any. *)
LEMMA FoldCounts ==
    ASSUME NEW f, NEW S, Countable(f, S)
    PROVE  Fold(f, S)[S] = Cardinality(Units(f, S))
<1> DEFINE pick(s) == CHOOSE x \in s : TRUE
           count == [s \in SUBSET S |-> Cardinality(Units(f, s))]
           Eq(g) == g = [s \in SUBSET S |-> IF s = {} THEN 0 ELSE f[pick(s)] + g[s \ {pick(s)}]]
           it == Fold(f, S)
<1>1. \A s : s # {} => pick(s) \in s
  OBVIOUS
<1>2. count[{}] = 0
  <2>1. Units(f, {}) = {}
    BY DEF Units
  <2> QED BY <2>1, FS_EmptySet
<1>3. ASSUME NEW s \in SUBSET S, s # {} PROVE count[s] = f[pick(s)] + count[s \ {pick(s)}]
  <2>1. pick(s) \in s
    BY <1>1, <1>3
  <2> HIDE DEF pick
  <2>2. count[s] = Cardinality(Units(f, s)) /\ count[s \ {pick(s)}] = Cardinality(Units(f, s \ {pick(s)}))
    OBVIOUS
  <2> QED BY <2>1, <2>2, UnitsRemove
<1>4. Eq(count)
  <2> HIDE DEF pick
  <2>1. count = [s \in SUBSET S |-> count[s]]
    OBVIOUS
  <2>2. \A s \in SUBSET S : count[s] = IF s = {} THEN 0 ELSE f[pick(s)] + count[s \ {pick(s)}]
    BY <1>2, <1>3
  <2> HIDE DEF count
  <2> QED BY <2>1, <2>2
<1>5. Eq(it)
  <2>1. it = CHOOSE g : Eq(g)
    BY DEF Fold
  <2> HIDE DEF Eq, count, it
  <2> QED BY <1>4, <2>1
<1> DEFINE G == {s \in SUBSET S : it[s] = count[s]}
<1>6. {} \in G
  BY <1>2, <1>5
<1>7. ASSUME NEW T \in SUBSET S, \A x \in T : T \ {x} \in G PROVE T \in G
  <2>1. CASE T = {}
    BY <1>6, <2>1
  <2>2. CASE T # {}
    <3>1. pick(T) \in T
      BY <1>1, <2>2
    <3>2. count[T] = f[pick(T)] + count[T \ {pick(T)}]
      BY <1>3, <2>2
    <3>3. it[T] = f[pick(T)] + it[T \ {pick(T)}]
      <4> HIDE DEF pick, it
      <4> QED BY <1>5, <2>2
    <3> HIDE DEF pick, it, count
    <3>4. it[T] = count[T]
      BY <1>7, <3>1, <3>2, <3>3
    <3> QED BY <3>4
  <2> QED BY <2>1, <2>2
<1>8. SUBSET S \subseteq G
  <2>1. IsFiniteSet(S)
    BY DEF Countable
  <2> HIDE DEF G
  <2> QED BY <1>6, <1>7, <2>1, SetInduct
<1> QED BY <1>8

LEMMA SumCounts ==
    ASSUME NEW f, NEW S, Countable(f, S)
    PROVE  SumFunctionOnSet(f, S) = Cardinality(Units(f, S))
<1>1. SumFunctionOnSet(f, S) = Fold(f, S)[S]
  BY DEF SumFunctionOnSet, FoldFunctionOnSet, MapThenFoldSet, Fold
<1> QED BY <1>1, FoldCounts

LEMMA BagCounts ==
    ASSUME NEW B, Countable(B, DOMAIN B)
    PROVE  BagCardinality(B) = SumFunctionOnSet(B, DOMAIN B)
<1>1. BagCardinality(B) = Fold(B, DOMAIN B)[DOMAIN B]
  BY DEF BagCardinality, Fold
<1> QED BY <1>1, FoldCounts, SumCounts

LEMMA SumType ==
    ASSUME NEW f, NEW S, Countable(f, S)
    PROVE  SumFunctionOnSet(f, S) \in Nat
BY SumCounts, UnitsFinite, FS_CardinalityType

LEMMA SumEmpty == ASSUME NEW f PROVE SumFunctionOnSet(f, {}) = 0
<1>1. Units(f, {}) = {} /\ Countable(f, {})
  BY FS_EmptySet DEF Units, Countable
<1> QED BY <1>1, SumCounts, FS_EmptySet

LEMMA SumRemove ==
    ASSUME NEW f, NEW S, Countable(f, S), NEW x \in S
    PROVE  SumFunctionOnSet(f, S) = f[x] + SumFunctionOnSet(f, S \ {x})
<1>1. Countable(f, S \ {x})
  BY FS_Subset DEF Countable
<1> QED BY <1>1, SumCounts, UnitsRemove

(* A sum over two disjoint sets, and over a part of a set. *)
LEMMA SumUnion ==
    ASSUME NEW f, NEW S, Countable(f, S), NEW T, Countable(f, T), S \cap T = {}
    PROVE  SumFunctionOnSet(f, S \cup T) = SumFunctionOnSet(f, S) + SumFunctionOnSet(f, T)
<1>1. Countable(f, S \cup T)
  BY FS_Union DEF Countable
<1>2. Units(f, S \cup T) = Units(f, S) \cup Units(f, T) /\ Units(f, S) \cap Units(f, T) = {}
  BY DEF Units
<1>3. IsFiniteSet(Units(f, S)) /\ IsFiniteSet(Units(f, T))
  BY UnitsFinite
<1>4. Cardinality(Units(f, S)) \in Nat /\ Cardinality(Units(f, T)) \in Nat
  BY <1>3, FS_CardinalityType
<1>5. Cardinality(Units(f, S) \cup Units(f, T)) =
          Cardinality(Units(f, S)) + Cardinality(Units(f, T)) - Cardinality({})
  BY <1>2, <1>3, FS_Union
<1>6. Cardinality(Units(f, S \cup T)) = Cardinality(Units(f, S)) + Cardinality(Units(f, T))
  <2>1. Cardinality({}) = 0
    BY FS_EmptySet
  <2>2. Cardinality(Units(f, S) \cup Units(f, T)) = Cardinality(Units(f, S)) + Cardinality(Units(f, T))
    BY <1>4, <1>5, <2>1
  <2> QED BY <1>2, <2>2
<1> QED BY <1>1, <1>6, SumCounts

LEMMA SumMono ==
    ASSUME NEW f, NEW S, Countable(f, S), NEW T \in SUBSET S
    PROVE  SumFunctionOnSet(f, T) <= SumFunctionOnSet(f, S)
<1>1. Countable(f, T)
  BY FS_Subset DEF Countable
<1>2. Units(f, T) \in SUBSET Units(f, S)
  BY DEF Units
<1>3. Cardinality(Units(f, T)) <= Cardinality(Units(f, S))
  BY <1>2, UnitsFinite, FS_Subset
<1> QED BY <1>1, <1>3, SumCounts

LEMMA SumSame ==
    ASSUME NEW f, NEW g, NEW S, Countable(f, S), \A x \in S : f[x] = g[x]
    PROVE  SumFunctionOnSet(f, S) = SumFunctionOnSet(g, S)
<1>1. Countable(g, S) /\ Units(f, S) = Units(g, S)
  BY DEF Countable, Units
<1> QED BY <1>1, SumCounts

(* The sum of sums. *)
LEMMA SumAdd ==
    ASSUME NEW f, NEW g, NEW k, NEW S, Countable(f, S), Countable(g, S),
           \A x \in S : k[x] = f[x] + g[x]
    PROVE  SumFunctionOnSet(k, S) = SumFunctionOnSet(f, S) + SumFunctionOnSet(g, S)
<1> DEFINE sum(e, T) == SumFunctionOnSet(e, T)
           G == {T \in SUBSET S : sum(k, T) = sum(f, T) + sum(g, T)}
<1>1. {} \in G
  BY SumEmpty
<1>2. ASSUME NEW T \in SUBSET S, \A x \in T : T \ {x} \in G PROVE T \in G
  <2>1. CASE T = {}
    BY <1>1, <2>1
  <2>2. CASE T # {}
    <3>1. PICK x \in T : TRUE
      BY <2>2
    <3>2. Countable(f, T) /\ Countable(g, T) /\ Countable(k, T)
      BY FS_Subset DEF Countable
    <3>3. Countable(f, T \ {x}) /\ Countable(g, T \ {x}) /\ f[x] \in Nat /\ g[x] \in Nat
      BY FS_Subset DEF Countable
    <3>4. sum(f, T \ {x}) \in Nat /\ sum(g, T \ {x}) \in Nat
      BY <3>3, SumType
    <3>5. /\ sum(f, T) = f[x] + sum(f, T \ {x}) /\ sum(g, T) = g[x] + sum(g, T \ {x})
          /\ sum(k, T) = k[x] + sum(k, T \ {x})
      BY <3>2, SumRemove
    <3>6. sum(k, T \ {x}) = sum(f, T \ {x}) + sum(g, T \ {x}) /\ k[x] = f[x] + g[x]
      BY <1>2
    <3> HIDE DEF sum
    <3>7. sum(k, T) = sum(f, T) + sum(g, T)
      BY <3>3, <3>4, <3>5, <3>6
    <3> QED BY <3>7
  <2> QED BY <2>1, <2>2
<1>3. IsFiniteSet(S)
  BY DEF Countable
<1>4. SUBSET S \subseteq G
  <2> HIDE DEF G
  <2> QED BY <1>1, <1>2, <1>3, SetInduct
<1> QED BY <1>4

(* One more unit at x. *)
LEMMA SumBump ==
    ASSUME NEW f, NEW g, NEW S, NEW x \in S, Countable(f, S \ {x}), f[x] \in Nat,
           g[x] = f[x] + 1, \A y \in S \ {x} : g[y] = f[y]
    PROVE  SumFunctionOnSet(g, S) = SumFunctionOnSet(f, S) + 1
<1>1. IsFiniteSet(S \ {x}) /\ S = (S \ {x}) \cup {x}
  BY DEF Countable
<1>2. IsFiniteSet((S \ {x}) \cup {x})
  BY <1>1, FS_AddElement
<1>3. Countable(f, S) /\ Countable(g, S)
  BY <1>1, <1>2 DEF Countable
<1>4. SumFunctionOnSet(f, S \ {x}) = SumFunctionOnSet(g, S \ {x})
  BY SumSame
<1>5. /\ SumFunctionOnSet(f, S) = f[x] + SumFunctionOnSet(f, S \ {x})
      /\ SumFunctionOnSet(g, S) = g[x] + SumFunctionOnSet(g, S \ {x})
  BY <1>3, SumRemove
<1> QED BY <1>4, <1>5, SumType

-----------------------------------------------------------------------------
(* The edges, the bins and the binary search. *)

(* The assumption about edges, in the form that the proofs use. *)
LEMMA EdgeFacts ==
    /\ NumBins \in Nat \ {0} /\ Bins = 1 .. NumBins /\ Edges[1] = 0
    /\ \A i \in 1 .. NumBins : Edges[i] \in Nat
    /\ \A i, j \in 1 .. NumBins : i < j => Edges[i] < Edges[j]
BY EdgesAssumption DEF NumBins, Bins

(* Every value has a bin, and it has passed the lower edges up to that of its bin only. *)
LEMMA BinOfRight ==
    ASSUME NEW v \in Nat
    PROVE  /\ BinOf(v) \in 1 .. NumBins
           /\ \A j \in 1 .. NumBins : Edges[j] <= v <=> j <= BinOf(v)
<1> DEFINE T == {i \in 1 .. NumBins : i = NumBins \/ v < Edges[i + 1]}
           Holds(i) == Edges[i] <= v /\ (i = NumBins \/ v < Edges[i + 1])
<1>1. T \subseteq Nat /\ NumBins \in T
  BY EdgeFacts
<1>2. PICK i \in T : \A y \in T : i <= y
  <2> HIDE DEF T
  <2> QED BY <1>1, Least
<1>3. i \in Bins /\ Holds(i)
  <2>1. CASE i = 1
    BY <1>2, <2>1, EdgeFacts
  <2>2. CASE i # 1
    <3>0. i \in 1 .. NumBins
      OBVIOUS
    <3>1. i - 1 \in 1 .. NumBins /\ i - 1 \notin T
      <4> HIDE DEF T
      <4> QED BY <1>2, <2>2, <3>0, EdgeFacts
    <3>2. ~(v < Edges[i])
      BY <1>2, <3>1
    <3> QED BY <1>2, <3>2, EdgeFacts
  <2> QED BY <2>1, <2>2
<1>4. BinOf(v) \in Bins /\ Holds(BinOf(v))
  BY <1>3 DEF BinOf
<1> HIDE DEF T
<1>5. ASSUME NEW k \in 1 .. NumBins, Holds(k), NEW j \in 1 .. NumBins PROVE Edges[j] <= v <=> j <= k
  <2>1. CASE j <= k
    <3>1. Edges[j] <= Edges[k]
      BY <2>1, EdgeFacts
    <3> QED BY <1>5, <2>1, <3>1, EdgeFacts
  <2>2. CASE j > k
    <3>1. k + 1 \in 1 .. NumBins /\ v < Edges[k + 1]
      BY <1>5, <2>2, EdgeFacts
    <3>2. Edges[k + 1] <= Edges[j]
      BY <2>2, <3>1, EdgeFacts
    <3> QED BY <2>2, <3>1, <3>2, EdgeFacts
  <2> QED BY <2>1, <2>2, EdgeFacts
<1> QED BY <1>4, <1>5, EdgeFacts

(* The binary search finds the bin that the definition of the bins names.  Any function  *)
(* that solves the equation of the search clamps the bin to the range searched.          *)
LEMMA SearchFindsBin ==
    ASSUME NEW v \in Nat
    PROVE  BinIndex(v) = BinOf(v)
<1> DEFINE K == BinOf(v)
           R == (0 .. NumBins) \X (0 .. NumBins)
           mid(r) == (r[1] + r[2]) \div 2
           Step(g, r) == IF r[1] >= r[2] THEN r[1]
                         ELSE IF Edges[mid(r) + 1] <= v THEN g[<<mid(r) + 1, r[2]>>]
                         ELSE g[<<r[1], mid(r)>>]
           Eq(g) == g = [r \in R |-> Step(g, r)]
           clamp == [r \in R |-> IF r[1] >= r[2] \/ K < r[1] THEN r[1]
                                 ELSE IF K > r[2] THEN r[2] ELSE K]
           search == CHOOSE g : Eq(g)
<1>1. BinIndex(v) = IF search[<<0, NumBins>>] = 0 THEN 1 ELSE search[<<0, NumBins>>]
  BY DEF BinIndex
<1>2. K \in 1 .. NumBins /\ NumBins \in Nat \ {0}
  BY BinOfRight, EdgeFacts
<1>3. ASSUME NEW r \in R, r[1] < r[2]
      PROVE  /\ <<mid(r) + 1, r[2]>> \in R /\ <<r[1], mid(r)>> \in R
             /\ mid(r) \in Nat /\ r[1] <= mid(r) /\ mid(r) < r[2]
             /\ Edges[mid(r) + 1] <= v <=> mid(r) < K
  <2>1. r[1] \in 0 .. NumBins /\ r[2] \in 0 .. NumBins
    OBVIOUS
  <2>2. mid(r) \in Nat /\ r[1] <= mid(r) /\ mid(r) < r[2]
    BY <1>2, <1>3, <2>1
  <2> HIDE DEF mid
  <2>3. mid(r) + 1 \in 1 .. NumBins /\ mid(r) \in 0 .. NumBins
    BY <1>2, <2>1, <2>2
  <2>4. Edges[mid(r) + 1] <= v <=> mid(r) + 1 <= K
    BY <2>3, BinOfRight
  <2> QED BY <1>2, <2>1, <2>2, <2>3, <2>4
<1>4. \A lo, hi \in 0 .. NumBins :
          clamp[<<lo, hi>>] = IF lo >= hi \/ K < lo THEN lo ELSE IF K > hi THEN hi ELSE K
  <2> HIDE DEF K
  <2> QED OBVIOUS
<1>5. Eq(clamp)
  <2>1. ASSUME NEW r \in R PROVE clamp[r] = Step(clamp, r)
    <3>1. CASE r[1] >= r[2]
      BY <3>1
    <3>2. CASE ~(r[1] >= r[2])
      <4>1. r[1] \in 0 .. NumBins /\ r[2] \in 0 .. NumBins /\ r[1] < r[2]
        BY <3>2, <1>2
      <4>2. mid(r) \in Nat /\ r[1] <= mid(r) /\ mid(r) < r[2]
        BY <1>3, <4>1
      <4> HIDE DEF mid, K
      <4>3. Step(clamp, r) = IF Edges[mid(r) + 1] <= v THEN clamp[<<mid(r) + 1, r[2]>>]
                             ELSE clamp[<<r[1], mid(r)>>]
        BY <3>2
      <4>4. CASE mid(r) < K
        <5>1. clamp[<<mid(r) + 1, r[2]>>] = IF K > r[2] THEN r[2] ELSE K
          <6>1. mid(r) + 1 \in 0 .. NumBins /\ r[2] \in 0 .. NumBins /\ mid(r) + 1 <= r[2]
            BY <1>2, <4>1, <4>2
          <6> HIDE DEF clamp
          <6> QED BY <1>4, <1>2, <4>1, <4>2, <4>4, <6>1
        <5> QED BY <1>2, <1>3, <4>1, <4>3, <4>4, <5>1
      <4>5. CASE ~(mid(r) < K)
        <5>1. clamp[<<r[1], mid(r)>>] = IF K < r[1] THEN r[1] ELSE K
          <6>1. mid(r) \in 0 .. NumBins /\ r[1] \in 0 .. NumBins /\ r[1] <= mid(r)
            BY <1>2, <4>1, <4>2
          <6> HIDE DEF clamp
          <6> QED BY <1>4, <1>2, <4>1, <4>2, <4>5, <6>1
        <5> QED BY <1>2, <1>3, <4>1, <4>3, <4>5, <5>1
      <4> QED BY <4>4, <4>5
    <3> QED BY <3>1, <3>2
  <2> HIDE DEF Step
  <2>2. clamp = [r \in R |-> clamp[r]]
    OBVIOUS
  <2> HIDE DEF clamp
  <2> QED BY <2>1, <2>2
<1>6. Eq(search)
  <2> HIDE DEF Eq, clamp
  <2> QED BY <1>5
<1> DEFINE G == {n \in Nat : \A r \in R : r[2] - r[1] <= n => search[r] = clamp[r]}
<1> HIDE DEF mid, K, search
<1>7. 0 \in G
  <2>1. ASSUME NEW r \in R, r[2] - r[1] <= 0 PROVE search[r] = clamp[r]
    <3>1. r[1] >= r[2]
      BY <1>2, <2>1
    <3> QED BY <1>6, <3>1
  <2> QED BY <2>1
<1>8. ASSUME NEW n \in Nat, n \in G PROVE n + 1 \in G
  <2>1. ASSUME NEW r \in R, r[2] - r[1] <= n + 1 PROVE search[r] = clamp[r]
    <3>1. CASE r[1] >= r[2]
      BY <1>6, <3>1
    <3>2. CASE r[1] < r[2]
      <4>1. r[1] \in Nat /\ r[2] \in Nat
        BY <1>2
      <4>2. /\ search[<<mid(r) + 1, r[2]>>] = clamp[<<mid(r) + 1, r[2]>>]
            /\ search[<<r[1], mid(r)>>] = clamp[<<r[1], mid(r)>>]
        BY <1>3, <1>8, <2>1, <3>2, <4>1
      <4>3. search[r] = Step(search, r) /\ clamp[r] = Step(clamp, r)
        <5> HIDE DEF Step, clamp
        <5> QED BY <1>5, <1>6
      <4> HIDE DEF clamp
      <4> QED BY <4>2, <4>3
    <3> QED BY <1>2, <3>1, <3>2
  <2> QED BY <2>1
<1>9. NumBins \in G
  <2> HIDE DEF G
  <2> QED BY <1>2, <1>7, <1>8, NatInduct
<1>10. search[<<0, NumBins>>] = clamp[<<0, NumBins>>]
  BY <1>2, <1>9
<1>11. clamp[<<0, NumBins>>] = K
  BY <1>2
<1> QED BY <1>1, <1>2, <1>10, <1>11 DEF K

-----------------------------------------------------------------------------
(* Arithmetic on products, which the solver does not find by itself. *)

LEMMA MulMono ==
    ASSUME NEW r \in Nat, NEW a \in Int, NEW b \in Int, a <= b
    PROVE  r * a <= r * b /\ a * r <= b * r
<1>1. r * b = r * a + r * (b - a) /\ r * (b - a) >= 0
  OBVIOUS
<1>2. r * a = a * r /\ r * b = b * r
  OBVIOUS
<1> QED BY <1>1, <1>2

LEMMA MulType == ASSUME NEW a \in Nat, NEW b \in Nat PROVE a * b \in Nat
OBVIOUS

LEMMA MulPositive == ASSUME NEW a \in Nat \ {0}, NEW b \in Nat \ {0} PROVE a * b \in Nat \ {0}
<1>1. 1 * b <= a * b
  BY MulMono
<1> QED BY <1>1, MulType

-----------------------------------------------------------------------------
(* Cumulative counts, and the bin a quantile is taken from. *)

Hist == [Bins -> Nat]

(* Cumulative counts rise from 0 to the total, by the count of each bin. *)
LEMMA CumFacts ==
    ASSUME NEW H \in Hist
    PROVE  /\ Cum(H, 0) = 0 /\ Cum(H, NumBins) = Total(H)
           /\ \A i \in 0 .. NumBins : Cum(H, i) \in Nat
           /\ \A i \in 1 .. NumBins : Cum(H, i) = Cum(H, i - 1) + H[i] /\ H[i] \in Nat
           /\ \A i, j \in 0 .. NumBins : i <= j => Cum(H, i) <= Cum(H, j)
<1>1. \A i \in 0 .. NumBins : Countable(H, 1 .. i)
  <2> SUFFICES ASSUME NEW i \in 0 .. NumBins PROVE Countable(H, 1 .. i)
    OBVIOUS
  <2>1. i \in Nat /\ 1 .. i \subseteq 1 .. NumBins
    BY EdgeFacts
  <2>2. IsFiniteSet(1 .. i)
    BY <2>1, IntervalSize
  <2> QED BY <2>1, <2>2, EdgeFacts DEF Countable, Hist
<1>2. Cum(H, 0) = 0
  <2>1. 1 .. 0 = {}
    OBVIOUS
  <2> QED BY <2>1, SumEmpty DEF Cum
<1>3. Cum(H, NumBins) = Total(H)
  <2>1. DOMAIN H = 1 .. NumBins
    BY EdgeFacts DEF Hist
  <2> QED BY <2>1 DEF Cum, Total, SumFunction
<1>4. \A i \in 0 .. NumBins : Cum(H, i) \in Nat
  BY <1>1, SumType DEF Cum
<1>5. ASSUME NEW i \in 1 .. NumBins PROVE Cum(H, i) = Cum(H, i - 1) + H[i] /\ H[i] \in Nat
  <2>1. i \in 1 .. i /\ (1 .. i) \ {i} = 1 .. (i - 1)
    OBVIOUS
  <2>2. H[i] \in Nat /\ Cum(H, i - 1) \in Nat
    BY <1>4, EdgeFacts DEF Hist
  <2>3. Countable(H, 1 .. i)
    BY <1>1
  <2>4. SumFunctionOnSet(H, 1 .. i) = H[i] + SumFunctionOnSet(H, (1 .. i) \ {i})
    BY <2>1, <2>3, SumRemove
  <2>5. Cum(H, i) = SumFunctionOnSet(H, 1 .. i) /\ Cum(H, i - 1) = SumFunctionOnSet(H, 1 .. (i - 1))
    BY DEF Cum
  <2>6. Cum(H, i) = H[i] + Cum(H, i - 1)
    BY <2>1, <2>4, <2>5
  <2> QED BY <2>2, <2>6
<1>6. ASSUME NEW i \in 0 .. NumBins, NEW j \in 0 .. NumBins, i <= j PROVE Cum(H, i) <= Cum(H, j)
  <2>1. 1 .. i \in SUBSET (1 .. j)
    BY <1>6
  <2> QED BY <1>1, <2>1, SumMono DEF Cum
<1> QED BY <1>2, <1>3, <1>4, <1>5, <1>6

LEMMA TotalType == ASSUME NEW H \in Hist PROVE Total(H) \in Nat
<1>1. NumBins \in 0 .. NumBins
  BY EdgeFacts
<1> QED BY <1>1, CumFacts

(* Rank i of H: the samples up to the i-th bin reach n/d of all. *)
Reached(H, i, n, d) == d * Cum(H, i) >= n * Total(H)

(* What Quantile computes in bin i. *)
In(H, i, n, d) ==
    IF i = NumBins THEN [n |-> Edges[i], d |-> 1]
    ELSE [n |-> Edges[i] * d * H[i] + (n * Total(H) - d * Cum(H, i - 1)) * (Edges[i + 1] - Edges[i]),
          d |-> d * H[i]]

(* A quantile's bin is the first that reaches the rank; it has samples, so that the code, *)
(* which looks at bins with samples only, stops there.                                   *)
LEMMA QuantileBin ==
    ASSUME NEW H \in Hist, Total(H) > 0, NEW n \in Nat \ {0}, NEW d \in Nat, n <= d
    PROVE  \E i \in 1 .. NumBins :
               /\ H[i] > 0 /\ Reached(H, i, n, d) /\ ~Reached(H, i - 1, n, d)
               /\ \A j \in 0 .. NumBins : Reached(H, j, n, d) <=> i <= j
               /\ Quantile(H, n, d) = In(H, i, n, d)
<1> DEFINE T == {k \in 1 .. NumBins : Reached(H, k, n, d)}
           First(k) == Reaches(H, k, n, d) /\ \A j \in 1 .. k - 1 : ~Reaches(H, j, n, d)
<1>1. \A j \in 0 .. NumBins : d * Cum(H, j) \in Nat
  BY CumFacts, MulType
<1>2. n * Total(H) \in Nat \ {0} /\ d * Cum(H, NumBins) >= n * Total(H) /\ d * Cum(H, 0) = 0
  <2>1. Total(H) \in Nat \ {0} /\ Cum(H, NumBins) = Total(H) /\ Cum(H, 0) = 0
    BY CumFacts, EdgeFacts
  <2>2. n * Total(H) \in Nat \ {0}
    BY <2>1, MulPositive
  <2>3. n * Total(H) <= d * Total(H)
    BY <2>1, MulMono
  <2> QED BY <2>1, <2>2, <2>3
<1>3. T \subseteq Nat /\ NumBins \in T
  BY <1>2, EdgeFacts DEF Reached
<1>4. PICK i \in T : \A y \in T : i <= y
  <2> HIDE DEF T
  <2> QED BY <1>3, Least
<1>5. i \in 1 .. NumBins /\ Reached(H, i, n, d)
  OBVIOUS
<1>6. \A j \in 0 .. NumBins : j < i => ~Reached(H, j, n, d)
  <2>1. ~Reached(H, 0, n, d)
    BY <1>2 DEF Reached
  <2>2. \A j \in 1 .. NumBins : j \notin T => ~Reached(H, j, n, d)
    OBVIOUS
  <2> HIDE DEF T
  <2> QED BY <1>4, <1>5, <2>1, <2>2, EdgeFacts
<1>7. \A j \in 0 .. NumBins : i <= j => Reached(H, j, n, d)
  <2> SUFFICES ASSUME NEW j \in 0 .. NumBins, i <= j PROVE Reached(H, j, n, d)
    OBVIOUS
  <2>1. i \in 0 .. NumBins /\ Cum(H, i) \in Nat /\ Cum(H, j) \in Nat /\ Cum(H, i) <= Cum(H, j)
    BY <1>5, CumFacts
  <2>2. d * Cum(H, i) <= d * Cum(H, j)
    BY <2>1, MulMono
  <2> QED BY <1>1, <1>2, <1>5, <2>1, <2>2 DEF Reached
<1>8. H[i] > 0
  <2>1. i - 1 \in 0 .. NumBins /\ ~Reached(H, i - 1, n, d)
    BY <1>5, <1>6, EdgeFacts
  <2>2. H[i] = 0 => Cum(H, i) = Cum(H, i - 1)
    BY <1>5, <2>1, CumFacts
  <2> QED BY <1>5, <2>1, <2>2, CumFacts DEF Reached
<1>9. First(i) /\ i \in Bins
  BY <1>5, <1>6, <1>8, EdgeFacts DEF Reaches, Reached
<1>10. ASSUME NEW k \in Bins, First(k) PROVE k = i
  <2>1. k \in 1 .. NumBins /\ Reached(H, k, n, d)
    BY <1>10, EdgeFacts DEF Reaches, Reached
  <2>2. i <= k
    BY <1>4, <2>1
  <2>3. ~(i < k)
    BY <1>9, <1>10, <1>5, <2>1
  <2> QED BY <1>5, <2>1, <2>2, <2>3
<1>11. (CHOOSE k \in Bins : First(k)) = i
  <2> HIDE DEF First
  <2> QED BY <1>9, <1>10
<1>12. Quantile(H, n, d) = In(H, i, n, d)
  <2>1. Total(H) # 0
    BY CumFacts, EdgeFacts
  <2> QED BY <1>11, <2>1 DEF Quantile, In
<1> QED BY <1>5, <1>6, <1>7, <1>8, <1>12, EdgeFacts

(* The part of bin i, in units of 1/d sample, that the rank reaches into; for a bin that *)
(* it passes more than all of it, for one that it does not reach nothing.                *)
Part(H, i, n, d) == n * Total(H) - d * Cum(H, i - 1)

LEMMA PartFacts ==
    ASSUME NEW H \in Hist, NEW n \in Nat, NEW d \in Nat, NEW i \in 1 .. NumBins
    PROVE  /\ Part(H, i, n, d) \in Int /\ d * H[i] \in Nat
           /\ Reached(H, i, n, d) <=> Part(H, i, n, d) <= d * H[i]
           /\ Reached(H, i - 1, n, d) <=> Part(H, i, n, d) <= 0
<1>1. /\ Cum(H, i - 1) \in Nat /\ Cum(H, i) \in Nat /\ Total(H) \in Nat /\ H[i] \in Nat
      /\ Cum(H, i) = Cum(H, i - 1) + H[i]
  BY CumFacts, EdgeFacts
<1>2. d * Cum(H, i) = d * Cum(H, i - 1) + d * H[i]
  BY <1>1
<1>3. d * Cum(H, i - 1) \in Nat /\ d * H[i] \in Nat /\ n * Total(H) \in Nat
  BY <1>1, MulType
<1> QED BY <1>2, <1>3 DEF Part, Reached

(* The interpolation stays in its bin: beyond the lower edge, at most at the upper one. *)
LEMMA InBin ==
    ASSUME NEW H \in Hist, NEW n \in Nat, NEW d \in Nat \ {0}, NEW i \in 1 .. NumBins, i < NumBins,
           H[i] > 0, Reached(H, i, n, d), ~Reached(H, i - 1, n, d)
    PROVE  /\ d * H[i] \in Nat \ {0}
           /\ In(H, i, n, d).d = d * H[i]
           /\ In(H, i, n, d).n = Edges[i] * (d * H[i]) + Part(H, i, n, d) * (Edges[i + 1] - Edges[i])
           /\ In(H, i, n, d).n \in Nat
           /\ Edges[i] * (d * H[i]) < In(H, i, n, d).n
           /\ In(H, i, n, d).n <= Edges[i + 1] * (d * H[i])
<1> DEFINE D == d * H[i]
           t == Part(H, i, n, d)
           w == Edges[i + 1] - Edges[i]
<1>1. H[i] \in Nat \ {0} /\ D \in Nat \ {0}
  BY CumFacts, MulPositive
<1>2. Edges[i] \in Nat /\ Edges[i + 1] \in Nat /\ w \in Nat \ {0}
  BY EdgeFacts
<1>3. t \in Nat \ {0} /\ t <= D
  <2>1. /\ Part(H, i, n, d) \in Int
        /\ Reached(H, i, n, d) <=> Part(H, i, n, d) <= d * H[i]
        /\ Reached(H, i - 1, n, d) <=> Part(H, i, n, d) <= 0
    BY PartFacts
  <2>2. t \in Int /\ t <= D /\ ~(t <= 0)
    BY <2>1
  <2> HIDE DEF t, D
  <2> QED BY <2>2
<1>4. In(H, i, n, d).d = D /\ In(H, i, n, d).n = Edges[i] * d * H[i] + t * w
  BY DEF In, Part
<1>5. Edges[i] * d * H[i] = Edges[i] * D
  BY <1>1, <1>2
<1> HIDE DEF D, t
<1>6. t * w \in Nat \ {0}
  BY <1>2, <1>3, MulPositive
<1>7. t * w <= D * w
  BY <1>1, <1>2, <1>3, MulMono
<1>8. Edges[i + 1] * D = Edges[i] * D + D * w /\ Edges[i] * D \in Nat
  BY <1>1, <1>2
<1> HIDE DEF w
<1>9. In(H, i, n, d).n \in Nat /\ Edges[i] * D < In(H, i, n, d).n /\ In(H, i, n, d).n <= Edges[i + 1] * D
  BY <1>1, <1>2, <1>4, <1>5, <1>6, <1>7, <1>8
<1> QED BY <1>1, <1>4, <1>5, <1>9 DEF D, t, w

(* A fraction that the search can return. *)
IsFraction(q) == q.n \in Nat /\ q.d \in Nat \ {0}

(* The place of an estimate among the edges: it lies in its bin, whose lower edge it may *)
(* reach only in the overflow bin.                                                      *)
LEMMA InPlace ==
    ASSUME NEW H \in Hist, NEW n \in Nat, NEW d \in Nat \ {0}, NEW i \in 1 .. NumBins,
           H[i] > 0, Reached(H, i, n, d), ~Reached(H, i - 1, n, d), NEW k \in 1 .. NumBins
    PROVE  LET q == In(H, i, n, d)
           IN  /\ IsFraction(q)
               /\ k <= i => Edges[k] * q.d <= q.n
               /\ k <= i /\ k < NumBins => Edges[k] * q.d < q.n
               /\ i < k \/ k = NumBins => q.n <= Edges[k] * q.d
               /\ i + 1 < k => q.n < Edges[k] * q.d
<1> DEFINE q == In(H, i, n, d)
<1>1. \A j \in 1 .. NumBins : Edges[j] \in Nat
  BY EdgeFacts
<1>2. CASE i = NumBins
  <2>1. q.n = Edges[i] /\ q.d = 1
    BY <1>2 DEF In
  <2>2. k < i => Edges[k] < Edges[i]
    BY EdgeFacts
  <2> HIDE DEF q
  <2>3. IsFraction(q)
    BY <1>1, <2>1 DEF IsFraction
  <2>4. Edges[k] * q.d = Edges[k] /\ Edges[i] * q.d = Edges[i]
    BY <1>1, <2>1
  <2>5. ~(i < k) /\ ~(i + 1 < k) /\ (k <= i => k < i \/ k = i) /\ i \in Nat
    BY <1>2, EdgeFacts
  <2> QED BY <1>1, <1>2, <2>1, <2>2, <2>3, <2>4, <2>5 DEF q
<1>3. CASE i < NumBins
  <2>1. /\ q.d \in Nat \ {0} /\ q.n \in Nat
        /\ Edges[i] * q.d < q.n /\ q.n <= Edges[i + 1] * q.d
    BY <1>3, InBin
  <2>2. i + 1 \in 1 .. NumBins
    BY <1>3, EdgeFacts
  <2> HIDE DEF q
  <2>3. \A j \in 1 .. NumBins : Edges[j] * q.d \in Nat
    BY <1>1, <2>1, MulType
  <2>4. ASSUME k <= i PROVE Edges[k] * q.d <= Edges[i] * q.d
    <3>1. Edges[k] <= Edges[i]
      BY <2>4, EdgeFacts
    <3> QED BY <1>1, <2>1, <3>1, MulMono
  <2>5. ASSUME i < k PROVE Edges[i + 1] * q.d <= Edges[k] * q.d
    <3>1. Edges[i + 1] <= Edges[k]
      BY <2>2, <2>5, EdgeFacts
    <3> QED BY <1>1, <2>1, <2>2, <3>1, MulMono
  <2>6. ASSUME i + 1 < k PROVE Edges[i + 1] * q.d < Edges[k] * q.d
    <3>1. Edges[i + 1] + 1 <= Edges[k]
      BY <1>1, <2>2, <2>6, EdgeFacts
    <3>2. (Edges[i + 1] + 1) * q.d <= Edges[k] * q.d
      BY <1>1, <2>1, <2>2, <3>1, MulMono
    <3>3. (Edges[i + 1] + 1) * q.d = Edges[i + 1] * q.d + q.d
      BY <1>1, <2>1, <2>2
    <3> QED BY <2>1, <2>2, <2>3, <3>2, <3>3
  <2>7. IsFraction(q)
    BY <2>1 DEF IsFraction
  <2>8. k <= i => Edges[k] * q.d < q.n
    BY <2>1, <2>3, <2>4
  <2>9. i < k => q.n <= Edges[k] * q.d
    BY <2>1, <2>2, <2>3, <2>5
  <2>10. i + 1 < k => q.n < Edges[k] * q.d
    BY <2>1, <2>2, <2>3, <2>6
  <2> QED BY <1>3, <2>1, <2>3, <2>7, <2>8, <2>9, <2>10 DEF q
<1> QED BY <1>2, <1>3, EdgeFacts

(* An estimate below an edge means that the bins before it reach the rank; it is above an *)
(* edge just when they do not, but for the last edge, above which no estimate is.         *)
LEMMA QuantileAtEdge ==
    ASSUME NEW H \in Hist, Total(H) > 0, NEW n \in Nat \ {0}, NEW d \in Nat, n <= d,
           NEW k \in 1 .. NumBins
    PROVE  /\ IsFraction(Quantile(H, n, d))
           /\ Below(Quantile(H, n, d), Edges[k]) => Reached(H, k - 1, n, d)
           /\ Above(Quantile(H, n, d), Edges[k]) <=> k < NumBins /\ ~Reached(H, k - 1, n, d)
<1>1. PICK i \in 1 .. NumBins :
               /\ H[i] > 0 /\ Reached(H, i, n, d) /\ ~Reached(H, i - 1, n, d)
               /\ \A j \in 0 .. NumBins : Reached(H, j, n, d) <=> i <= j
               /\ Quantile(H, n, d) = In(H, i, n, d)
  BY QuantileBin
<1> DEFINE q == Quantile(H, n, d)
<1>2. d \in Nat \ {0}
  OBVIOUS
<1>3. /\ IsFraction(q)
      /\ k <= i => Edges[k] * q.d <= q.n
      /\ k <= i /\ k < NumBins => Edges[k] * q.d < q.n
      /\ i < k \/ k = NumBins => q.n <= Edges[k] * q.d
  BY <1>1, <1>2, InPlace
<1>4. k - 1 \in 0 .. NumBins /\ (Reached(H, k - 1, n, d) <=> i <= k - 1)
  BY <1>1, EdgeFacts
<1> HIDE DEF q
<1>5. Edges[k] * q.d \in Nat /\ q.n \in Nat
  BY <1>3, EdgeFacts, MulType DEF IsFraction
<1>6. Below(q, Edges[k]) => Reached(H, k - 1, n, d)
  BY <1>3, <1>4, <1>5, EdgeFacts DEF Below
<1>7. Above(q, Edges[k]) <=> k < NumBins /\ ~Reached(H, k - 1, n, d)
  BY <1>3, <1>4, <1>5, EdgeFacts DEF Above
<1> QED BY <1>3, <1>6, <1>7 DEF q

(* An estimate that has passed an edge leaves at most the rank of the samples before it. *)
LEMMA QuantilePassed ==
    ASSUME NEW H \in Hist, Total(H) > 0, NEW n \in Nat \ {0}, NEW d \in Nat, n <= d,
           NEW k \in 2 .. NumBins, ~Below(Quantile(H, n, d), Edges[k])
    PROVE  d * Cum(H, k - 1) <= n * Total(H)
<1>1. PICK i \in 1 .. NumBins :
               /\ H[i] > 0 /\ Reached(H, i, n, d) /\ ~Reached(H, i - 1, n, d)
               /\ \A j \in 0 .. NumBins : Reached(H, j, n, d) <=> i <= j
               /\ Quantile(H, n, d) = In(H, i, n, d)
  BY QuantileBin
<1> DEFINE q == In(H, i, n, d)
<1>2. d \in Nat \ {0} /\ k \in 1 .. NumBins /\ k - 1 \in 1 .. NumBins /\ k - 1 \in 0 .. NumBins
  BY EdgeFacts
<1>3. d * Cum(H, k - 1) \in Nat /\ n * Total(H) \in Nat
  <2>1. Cum(H, k - 1) \in Nat /\ Total(H) \in Nat
    BY <1>2, CumFacts, TotalType
  <2> QED BY <2>1, MulType
<1>4. ~(q.n < Edges[k] * q.d)
  BY <1>1 DEF Below
<1>5. CASE k - 1 < i
  <2>1. ~Reached(H, k - 1, n, d)
    BY <1>1, <1>2, <1>5
  <2> QED BY <1>3, <2>1 DEF Reached
<1>6. CASE i = k - 1
  <2> DEFINE D == d * H[i]
             t == Part(H, i, n, d)
             w == Edges[k] - Edges[i]
  <2>1. i < NumBins /\ i + 1 = k
    BY <1>2, <1>6, EdgeFacts
  <2>2. D \in Nat \ {0} /\ q.d = D /\ q.n = Edges[i] * D + t * w
    <3>1. /\ In(H, i, n, d).d = d * H[i] /\ d * H[i] \in Nat \ {0}
          /\ In(H, i, n, d).n = Edges[i] * (d * H[i]) + Part(H, i, n, d) * (Edges[i + 1] - Edges[i])
      BY <1>1, <1>2, <2>1, InBin
    <3> QED BY <2>1, <3>1
  <2>3. Edges[i] \in Nat /\ Edges[k] \in Nat /\ w \in Nat \ {0}
    BY <1>2, <2>1, EdgeFacts
  <2>4. t \in Int /\ (Reached(H, i, n, d) <=> t <= D)
    BY <1>2, PartFacts
  <2> HIDE DEF q, D, t
  <2>5. ASSUME t < D PROVE FALSE
    <3>1. (t + 1) * w <= D * w
      BY <2>2, <2>3, <2>4, <2>5, MulMono
    <3>2. (t + 1) * w = t * w + w /\ Edges[k] * D = Edges[i] * D + D * w
      BY <2>2, <2>3, <2>4
    <3>3. t * w \in Int /\ D * w \in Int /\ Edges[i] * D \in Int
      BY <2>2, <2>3, <2>4
    <3> HIDE DEF w
    <3> QED BY <1>4, <2>2, <2>3, <3>1, <3>2, <3>3
  <2>6. D <= t
    BY <2>2, <2>4, <2>5
  <2>7. /\ Cum(H, i) = Cum(H, i - 1) + H[i] /\ H[i] \in Nat /\ Cum(H, i - 1) \in Nat
        /\ Total(H) \in Nat
    BY <1>2, CumFacts, EdgeFacts
  <2>8. d * Cum(H, i) = d * Cum(H, i - 1) + d * H[i]
    BY <2>7
  <2>9. /\ t = n * Total(H) - d * Cum(H, i - 1) /\ D = d * H[i]
        /\ d * Cum(H, i - 1) \in Nat
    BY <2>7, MulType DEF t, D, Part
  <2> QED BY <1>3, <1>6, <2>6, <2>8, <2>9, <2>2
<1>7. CASE i < k - 1
  <2>1. i + 1 < k
    BY <1>2, <1>7
  <2>2. q.n < Edges[k] * q.d
    BY <1>1, <1>2, <2>1, InPlace
  <2> QED BY <1>4, <2>2
<1> QED BY <1>2, <1>5, <1>6, <1>7, EdgeFacts

-----------------------------------------------------------------------------
(* The base line. *)

(* The values of a function on a finite set have a bound. *)
LEMMA BoundExists ==
    ASSUME NEW S, IsFiniteSet(S), NEW f, \A x \in S : f[x] \in Nat
    PROVE  \E m \in Nat : \A x \in S : f[x] <= m
<1> DEFINE G == {T \in SUBSET S : \E m \in Nat : \A x \in T : f[x] <= m}
<1>1. {} \in G
  OBVIOUS
<1>2. ASSUME NEW T \in SUBSET S, \A x \in T : T \ {x} \in G PROVE T \in G
  <2>1. CASE T = {}
    BY <1>1, <2>1
  <2>2. CASE T # {}
    <3>1. PICK x \in T : TRUE
      BY <2>2
    <3>2. PICK m \in Nat : \A y \in T \ {x} : f[y] <= m
      BY <1>2, <3>1
    <3>3. \A y \in T : f[y] \in Nat
      OBVIOUS
    <3>4. \A y \in T : f[y] <= m + f[x]
      BY <3>2, <3>3
    <3> QED BY <3>3, <3>4
  <2> QED BY <2>1, <2>2
<1>3. SUBSET S \subseteq G
  <2> HIDE DEF G
  <2> QED BY <1>1, <1>2, SetInduct
<1> QED BY <1>3

(* Each rank has its sample: the least number that as many samples are not above. *)
LEMMA RankExists ==
    ASSUME NEW s \in Seq(Nat), NEW k \in 1 .. Len(s)
    PROVE  \E v \in ToSet(s) : IsKth(v, k, s)
<1> DEFINE below(v) == {j \in DOMAIN s : s[j] < v}
           upto(v) == {j \in DOMAIN s : s[j] <= v}
           U == {v \in Nat : Cardinality(upto(v)) >= k}
<1>1. /\ IsFiniteSet(DOMAIN s) /\ Cardinality(DOMAIN s) = Len(s) /\ DOMAIN s = 1 .. Len(s)
      /\ k \in Nat \ {0} /\ k <= Len(s) /\ Len(s) \in Nat
  <2>1. DOMAIN s = 1 .. Len(s) /\ Len(s) \in Nat /\ k \in Nat \ {0} /\ k <= Len(s)
    OBVIOUS
  <2>2. IsFiniteSet(1 .. Len(s)) /\ Cardinality(1 .. Len(s)) = Len(s)
    BY <2>1, IntervalSize
  <2> QED BY <2>1, <2>2
<1>2. \E m \in Nat : \A j \in DOMAIN s : s[j] <= m
  <2>1. \A j \in DOMAIN s : s[j] \in Nat
    BY <1>1
  <2> QED BY <1>1, <2>1, BoundExists
<1>3. U \subseteq Nat /\ U # {}
  <2>1. PICK m \in Nat : \A j \in DOMAIN s : s[j] <= m
    BY <1>2
  <2>2. upto(m) = DOMAIN s
    BY <2>1
  <2>3. m \in U
    <3> HIDE DEF upto
    <3> QED BY <1>1, <2>2
  <2> QED BY <2>3
<1>4. PICK u \in U : \A v \in U : u <= v
  <2> HIDE DEF U
  <2> QED BY <1>3, Least
<1>5. u \in Nat /\ Cardinality(upto(u)) >= k /\ \A j \in DOMAIN s : s[j] \in Nat
  BY <1>1
<1>6. \A v \in Nat : Cardinality(upto(v)) \in Nat
  BY <1>1, FS_Subset, FS_CardinalityType
<1>7. Cardinality(below(u)) < k
  <2>1. CASE u = 0
    <3>1. below(u) = {}
      BY <1>5, <2>1
    <3> HIDE DEF below
    <3> QED BY <1>1, <3>1, FS_EmptySet
  <2>2. CASE u # 0
    <3>0. u - 1 \in Nat
      BY <1>5, <2>2
    <3>1. below(u) = upto(u - 1)
      BY <1>5, <3>0
    <3>2. u - 1 \notin U
      <4> HIDE DEF U
      <4> QED BY <1>4, <1>5, <2>2
    <3>3. ~(Cardinality(upto(u - 1)) >= k)
      <4> HIDE DEF upto
      <4> QED BY <3>0, <3>2
    <3> HIDE DEF upto, below
    <3> QED BY <1>1, <1>6, <3>0, <3>1, <3>3
  <2> QED BY <2>1, <2>2
<1>8. u \in ToSet(s)
  <2>1. ASSUME \A j \in DOMAIN s : s[j] # u PROVE FALSE
    <3>1. upto(u) = below(u)
      BY <1>5, <2>1
    <3> HIDE DEF upto, below
    <3> QED BY <1>1, <1>5, <1>6, <1>7, <3>1
  <2> QED BY <2>1 DEF ToSet
<1> QED BY <1>5, <1>7, <1>8 DEF IsKth

(* The sorted samples are numbers, as many as there were. *)
LEMMA AscendingType ==
    ASSUME NEW s \in Seq(Nat)
    PROVE  Ascending(s) \in Seq(Nat) /\ Len(Ascending(s)) = Len(s)
<1>1. ASSUME NEW k \in 1 .. Len(s) PROVE Ascending(s)[k] \in Nat
  <2>1. Ascending(s)[k] = CHOOSE v \in ToSet(s) : IsKth(v, k, s)
    BY DEF Ascending
  <2>2. \E v \in ToSet(s) : IsKth(v, k, s)
    BY RankExists
  <2>3. Ascending(s)[k] \in ToSet(s)
    BY <2>1, <2>2
  <2> QED BY <2>3 DEF ToSet
<1>2. Ascending(s) = [k \in 1 .. Len(s) |-> Ascending(s)[k]]
  <2>1. DOMAIN s = 1 .. Len(s)
    OBVIOUS
  <2>2. Ascending(s) = [k \in DOMAIN s |-> Ascending(s)[k]]
    BY DEF Ascending
  <2> QED BY <2>1, <2>2
<1> HIDE DEF Ascending
<1> QED BY <1>1, <1>2

LEMMA BaseType ==
    ASSUME NEW samples \in Seq(Nat)
    PROVE  BaseRTT(samples) \in Int
<1> DEFINE s == Ascending(samples)
           idx == PctN * (Len(s) - 1)
           lo == idx \div PctD
<1>1. CASE s = <<>>
  BY <1>1 DEF BaseRTT
<1>2. CASE s # <<>>
  <2>1. Len(s) \in Nat \ {0} /\ s \in Seq(Nat)
    BY <1>2, AscendingType
  <2> HIDE DEF s
  <2>2. idx \in Nat /\ idx <= PctD * (Len(s) - 1) /\ PctD \in Nat \ {0}
    <3>1. Len(s) - 1 \in Nat /\ PctN \in Nat /\ PctD \in Nat \ {0} /\ PctN <= PctD
      BY <2>1, PctAssumption
    <3> QED BY <3>1, MulMono, MulType
  <2> HIDE DEF idx
  <2>3. lo \in Nat /\ lo <= Len(s) - 1 /\ idx % PctD \in Nat
    <3>1. lo \in Nat /\ PctD * lo <= idx /\ idx % PctD \in Nat
      BY <2>2
    <3>2. ASSUME ~(lo <= Len(s) - 1) PROVE FALSE
      <4>0. Len(s) <= lo /\ Len(s) \in Int /\ lo \in Int /\ PctD \in Nat
        BY <2>1, <2>2, <3>1, <3>2
      <4>1. PctD * Len(s) <= PctD * lo
        <5> HIDE DEF lo
        <5> QED BY <4>0, MulMono
      <4>2. PctD * Len(s) = PctD * (Len(s) - 1) + PctD
        BY <2>1, <2>2
      <4> QED BY <2>1, <2>2, <3>1, <4>1, <4>2
    <3> QED BY <3>1, <3>2
  <2> HIDE DEF lo
  <2>4. s[lo + 1] \in Nat /\ (lo + 1 < Len(s) => s[lo + 2] \in Nat)
    BY <2>1, <2>3
  <2>5. PctD * s[lo + 1] \in Int
    BY <2>2, <2>4
  <2>6. lo + 1 < Len(s) => PctD * s[lo + 1] + (idx % PctD) * (s[lo + 2] - s[lo + 1]) \in Int
    BY <2>3, <2>4, <2>5
  <2> QED BY <1>2, <2>5, <2>6 DEF BaseRTT, s, idx, lo
<1> QED BY <1>1, <1>2

LEMMA DeltaType ==
    ASSUME NEW rtt \in Nat, NEW b \in Int
    PROVE  WorkingDelta(rtt, b) \in Nat
<1>1. PctD * rtt \in Nat
  BY PctAssumption, MulType
<1> QED BY <1>1 DEF WorkingDelta

(* K has one sample more than H, in bin b. *)
OneMore(H, K, b) == \A j \in 1 .. NumBins : K[j] = IF j = b THEN H[j] + 1 ELSE H[j]

(* One more sample raises the cumulative counts from its bin on. *)
LEMMA CumBump ==
    ASSUME NEW H \in Hist, NEW b \in 1 .. NumBins, NEW K \in Hist, OneMore(H, K, b)
    PROVE  /\ Total(K) = Total(H) + 1
           /\ \A j \in 0 .. NumBins : Cum(K, j) = IF b <= j THEN Cum(H, j) + 1 ELSE Cum(H, j)
<1> DEFINE G == {j \in Nat : j <= NumBins => Cum(K, j) = IF b <= j THEN Cum(H, j) + 1 ELSE Cum(H, j)}
<1>1. \A j \in 1 .. NumBins : K[j] = IF j = b THEN H[j] + 1 ELSE H[j]
  BY DEF OneMore
<1>2. 0 \in G
  BY <1>1, CumFacts, EdgeFacts
<1>3. ASSUME NEW j \in Nat, j \in G PROVE j + 1 \in G
  <2> SUFFICES ASSUME j + 1 <= NumBins
               PROVE  Cum(K, j + 1) = IF b <= j + 1 THEN Cum(H, j + 1) + 1 ELSE Cum(H, j + 1)
    OBVIOUS
  <2>1. j + 1 \in 1 .. NumBins /\ j \in 0 .. NumBins /\ (j + 1) - 1 = j
    BY EdgeFacts
  <2>2. Cum(K, j + 1) = Cum(K, (j + 1) - 1) + K[j + 1] /\ Cum(H, j + 1) = Cum(H, (j + 1) - 1) + H[j + 1]
    BY <1>1, <2>1, CumFacts
  <2>3. Cum(K, j) = IF b <= j THEN Cum(H, j) + 1 ELSE Cum(H, j)
    BY <1>3, <2>1, EdgeFacts
  <2>4. K[j + 1] = IF j + 1 = b THEN H[j + 1] + 1 ELSE H[j + 1]
    BY <1>1, <2>1
  <2>5. Cum(H, j) \in Nat /\ H[j + 1] \in Nat /\ b \in Nat
    BY <2>1, CumFacts, EdgeFacts
  <2> QED BY <2>1, <2>2, <2>3, <2>4, <2>5
<1>4. Nat \subseteq G
  <2> HIDE DEF G
  <2> QED BY <1>2, <1>3, NatInduct
<1>5. \A j \in 0 .. NumBins : Cum(K, j) = IF b <= j THEN Cum(H, j) + 1 ELSE Cum(H, j)
  BY <1>4, EdgeFacts
<1>6. Total(K) = Total(H) + 1
  <2>1. NumBins \in 0 .. NumBins /\ b <= NumBins
    BY EdgeFacts
  <2>2. Cum(K, NumBins) = Cum(H, NumBins) + 1
    BY <1>5, <2>1
  <2> QED BY <1>1, <2>2, CumFacts
<1> QED BY <1>5, <1>6

-----------------------------------------------------------------------------
(* Histograms and the samples they are made of. *)

SampleBag(B) == IsABag(B) /\ IsFiniteSet(DOMAIN B) /\ DOMAIN B \subseteq Nat

InBinOf(B, i) == {x \in DOMAIN B : BinOf(x) = i}

(* A histogram counts in each bin the samples that belong there. *)
Follows(H, B) == H \in Hist /\ \A i \in 1 .. NumBins : H[i] = SumFunctionOnSet(B, InBinOf(B, i))

Tallied ==
    /\ deltas = [leg \in Leg |-> deltas[leg]]
    /\ \A leg \in Leg : SampleBag(deltas[leg]) /\ Follows(h[leg], deltas[leg])

(* The low-latency echoes are counted once for the delay and once for the survival. *)
Marked == marks \in Nat \X Nat /\ marks[2] = Total(h["ll"])

(* The inductive invariant. *)
IInv == TypeOK /\ Tallied /\ Marked

LEMMA PartCountable ==
    ASSUME NEW B, SampleBag(B), NEW S \in SUBSET (DOMAIN B)
    PROVE  Countable(B, S)
<1>1. IsFiniteSet(S)
  BY FS_Subset DEF SampleBag
<1>2. \A x \in S : B[x] \in Nat
  BY DEF SampleBag, IsABag
<1> QED BY <1>1, <1>2 DEF Countable

(* Observing a value keeps a histogram in step with the samples. *)
LEMMA ObserveFollows ==
    ASSUME NEW H, NEW B, SampleBag(B), Follows(H, B), NEW v \in Nat
    PROVE  SampleBag(B (+) SetToBag({v})) /\ Follows(Observe(H, v), B (+) SetToBag({v}))
<1> DEFINE C == B (+) SetToBag({v})
           old == [x \in DOMAIN B \cup {v} |-> IF x \in DOMAIN B THEN B[x] ELSE 0]
<1>1. /\ DOMAIN C = DOMAIN B \cup {v}
      /\ C = [x \in DOMAIN B \cup {v} |-> old[x] + IF x = v THEN 1 ELSE 0]
  BY DEF (+), SetToBag
<1>2. \A x \in DOMAIN B : x \in Nat /\ B[x] \in Nat \ {0}
  BY DEF SampleBag, IsABag
<1>3. \A x \in DOMAIN B \cup {v} : old[x] \in Nat
  BY <1>2
<1> HIDE DEF C
<1>4. SampleBag(C)
  <2>1. IsFiniteSet(DOMAIN C)
    BY <1>1, FS_AddElement DEF SampleBag
  <2>2. \A x \in DOMAIN B \cup {v} : C[x] \in {n \in Nat : n > 0}
    BY <1>1, <1>2, <1>3
  <2>3. C \in [DOMAIN C -> {n \in Nat : n > 0}]
    <3> HIDE DEF old
    <3> QED BY <1>1, <2>2
  <2> QED BY <1>1, <1>2, <2>1, <2>3 DEF SampleBag, IsABag
<1>5. BinOf(v) \in 1 .. NumBins /\ BinIndex(v) = BinOf(v)
  BY BinOfRight, SearchFindsBin
<1>6. /\ Observe(H, v) \in Hist
      /\ \A i \in 1 .. NumBins : Observe(H, v)[i] = IF i = BinOf(v) THEN H[i] + 1 ELSE H[i]
  BY <1>5, EdgeFacts DEF Observe, Follows, Hist
<1>7. ASSUME NEW i \in 1 .. NumBins PROVE Observe(H, v)[i] = SumFunctionOnSet(C, InBinOf(C, i))
  <2>1. H[i] = SumFunctionOnSet(B, InBinOf(B, i))
    BY DEF Follows
  <2>2. Countable(B, InBinOf(B, i))
    BY PartCountable DEF InBinOf
  <2>3. CASE i # BinOf(v)
    <3>1. InBinOf(C, i) = InBinOf(B, i)
      BY <1>1, <2>3 DEF InBinOf
    <3>2. \A x \in InBinOf(B, i) : B[x] = C[x]
      BY <1>1, <1>2, <2>3 DEF InBinOf
    <3>3. SumFunctionOnSet(B, InBinOf(B, i)) = SumFunctionOnSet(C, InBinOf(B, i))
      BY <2>2, <3>2, SumSame
    <3> QED BY <1>6, <2>1, <2>3, <3>1, <3>3
  <2>4. CASE i = BinOf(v)
    <3> DEFINE S == InBinOf(B, i) \cup {v}
    <3>1. InBinOf(C, i) = S /\ S \subseteq DOMAIN C /\ S \ {v} \subseteq DOMAIN B /\ v \in S
      BY <1>1, <2>4 DEF InBinOf
    <3>2. Countable(B, S \ {v})
      <4> HIDE DEF S
      <4> QED BY <3>1, PartCountable
    <3>3. /\ Countable(old, S \ {v}) /\ \A x \in S \ {v} : old[x] = B[x]
          /\ old[v] \in Nat /\ C[v] = old[v] + 1 /\ \A x \in S \ {v} : C[x] = old[x]
      BY <1>1, <1>2, <1>3, <3>1, <3>2 DEF Countable
    <3>4. SumFunctionOnSet(C, S) = SumFunctionOnSet(old, S) + 1
      <4> HIDE DEF S, old
      <4> QED BY <3>1, <3>3, SumBump
    <3>5. SumFunctionOnSet(old, S \ {v}) = SumFunctionOnSet(B, S \ {v})
      <4> HIDE DEF S, old
      <4> QED BY <3>2, <3>3, SumSame
    <3>6. SumFunctionOnSet(old, S) = SumFunctionOnSet(B, InBinOf(B, i))
      <4>1. CASE v \in DOMAIN B
        <5>1. S = InBinOf(B, i)
          BY <2>4, <4>1 DEF InBinOf
        <5>2. \A x \in InBinOf(B, i) : B[x] = old[x]
          BY DEF InBinOf
        <5> HIDE DEF S, old
        <5> QED BY <2>2, <5>1, <5>2, SumSame
      <4>2. CASE v \notin DOMAIN B
        <5>1. S \ {v} = InBinOf(B, i) /\ old[v] = 0
          BY <4>2 DEF InBinOf
        <5>2. IsFiniteSet((S \ {v}) \cup {v})
          BY <3>2, FS_AddElement DEF Countable
        <5>3. Countable(old, S)
          <6>1. (S \ {v}) \cup {v} = S
            BY <3>1
          <6> HIDE DEF S, old
          <6> QED BY <3>3, <5>2, <6>1 DEF Countable
        <5>4. SumFunctionOnSet(old, S) = old[v] + SumFunctionOnSet(old, S \ {v})
          <6> HIDE DEF S, old
          <6> QED BY <3>1, <5>3, SumRemove
        <5>5. SumFunctionOnSet(B, S \ {v}) \in Nat
          BY <3>2, SumType
        <5> HIDE DEF S, old
        <5> QED BY <3>5, <5>1, <5>4, <5>5
      <4> QED BY <4>1, <4>2
    <3> HIDE DEF S, old
    <3> QED BY <1>6, <2>1, <2>4, <3>1, <3>4, <3>6
  <2> QED BY <2>3, <2>4
<1> QED BY <1>4, <1>6, <1>7 DEF Follows, C

(* Empty histograms count no samples. *)
LEMMA InitIInv == Init => IInv
<1> SUFFICES ASSUME Init PROVE IInv
  OBVIOUS
<1> USE DEF Init
<1>1. EmptyBag = <<>> /\ DOMAIN EmptyBag = {}
  BY DEF EmptyBag, SetToBag
<1>2. SampleBag(EmptyBag)
  BY <1>1, FS_EmptySet DEF SampleBag, IsABag
<1>3. NewHistogram \in Hist /\ \A i \in 1 .. NumBins : NewHistogram[i] = 0
  BY EdgeFacts DEF NewHistogram, Hist
<1>4. ASSUME NEW i \in 1 .. NumBins PROVE SumFunctionOnSet(EmptyBag, InBinOf(EmptyBag, i)) = 0
  <2>1. InBinOf(EmptyBag, i) = {}
    BY <1>1 DEF InBinOf
  <2> QED BY <2>1, SumEmpty
<1>5. Follows(NewHistogram, EmptyBag)
  BY <1>3, <1>4 DEF Follows
<1>6. Tallied
  BY <1>2, <1>5 DEF Tallied
<1>7. base \in Bases /\ <<gates, thr>> \in Scalars
  <2>1. PICK s \in Scalars : gates = s[1] /\ thr = s[2]
    OBVIOUS
  <2>2. <<gates, thr>> = s
    BY <2>1, ScalarsAssumption
  <2> QED BY <2>2
<1>8. marks = <<0, 0>> /\ marks \in Nat \X Nat
  OBVIOUS
<1>9. TypeOK
  BY <1>2, <1>3, <1>7, <1>8 DEF TypeOK, SampleBag, BagToSet, Hist
<1>10. Total(NewHistogram) = 0
  <2> DEFINE G == {j \in Nat : j <= NumBins => Cum(NewHistogram, j) = 0}
  <2>1. 0 \in G
    BY <1>3, CumFacts
  <2>2. ASSUME NEW j \in Nat, j \in G PROVE j + 1 \in G
    <3> SUFFICES ASSUME j + 1 <= NumBins PROVE Cum(NewHistogram, j + 1) = 0
      OBVIOUS
    <3>1. j + 1 \in 1 .. NumBins /\ (j + 1) - 1 = j /\ Cum(NewHistogram, j) = 0
      BY <2>2, EdgeFacts
    <3>2. Cum(NewHistogram, j + 1) = Cum(NewHistogram, (j + 1) - 1) + NewHistogram[j + 1]
      BY <1>3, <3>1, CumFacts
    <3> QED BY <1>3, <3>1, <3>2
  <2>3. Nat \subseteq G
    <3> HIDE DEF G
    <3> QED BY <2>1, <2>2, NatInduct
  <2>4. Cum(NewHistogram, NumBins) = 0
    BY <2>3, EdgeFacts
  <2> QED BY <1>3, <2>4, CumFacts
<1>11. Marked
  <2>1. h["ll"] = NewHistogram
    BY DEF Leg
  <2> QED BY <1>8, <1>10, <2>1 DEF Marked
<1> QED BY <1>6, <1>9, <1>11 DEF IInv

(* HistSample observes in the histogram what it adds to the samples. *)
LEMMA NextIInv == IInv /\ [Next]_vars => IInv'
<1> SUFFICES ASSUME IInv, [Next]_vars PROVE IInv'
  OBVIOUS
<1>1. ASSUME NEW leg \in Leg, NEW rtt \in Rtt, HistSample(leg, rtt) PROVE IInv'
  <2> DEFINE v == WorkingDelta(rtt, BaseRTT(base))
  <2>1. v \in Nat
    BY BaseType, DeltaType, SamplesAssumption DEF IInv, TypeOK
  <2> HIDE DEF v
  <2>2. /\ h' = [h EXCEPT ![leg] = Observe(@, v)]
        /\ deltas' = [deltas EXCEPT ![leg] = @ (+) SetToBag({v})]
        /\ UNCHANGED <<base, gates, thr>>
    BY <1>1 DEF HistSample, v
  <2>3. DOMAIN h = Leg /\ DOMAIN deltas = Leg
    BY DEF IInv, TypeOK, Tallied
  <2>4. ASSUME NEW l \in Leg PROVE SampleBag(deltas'[l]) /\ Follows(h'[l], deltas'[l])
    <3>1. SampleBag(deltas[l]) /\ Follows(h[l], deltas[l])
      BY DEF IInv, Tallied
    <3>2. CASE l = leg
      <4>1. h'[l] = Observe(h[l], v) /\ deltas'[l] = deltas[l] (+) SetToBag({v})
        BY <2>2, <2>3, <3>2
      <4>2. SampleBag(deltas[l] (+) SetToBag({v})) /\ Follows(Observe(h[l], v), deltas[l] (+) SetToBag({v}))
        BY <2>1, <3>1, ObserveFollows
      <4> QED BY <4>1, <4>2
    <3>3. CASE l # leg
      <4>1. h'[l] = h[l] /\ deltas'[l] = deltas[l]
        BY <2>2, <2>3, <3>3
      <4> QED BY <3>1, <4>1
    <3> QED BY <3>2, <3>3
  <2>5. DOMAIN h' = Leg /\ deltas' = [l \in Leg |-> deltas'[l]] /\ h' = [l \in Leg |-> h'[l]]
    BY <2>2, <2>3 DEF IInv, TypeOK, Tallied
  <2>6. Tallied'
    BY <2>4, <2>5 DEF Tallied
  <2>7. h' \in [Leg -> [Bins -> Nat]]
    <3>1. \A l \in Leg : h'[l] \in [Bins -> Nat]
      BY <2>4 DEF Follows, Hist
    <3> QED BY <2>5, <3>1
  <2>8. Marked'
    <3>1. PICK kept \in {0, 1} : marks' = IF leg = "ll" THEN <<marks[1] + kept, marks[2] + 1>> ELSE marks
      BY <1>1 DEF HistSample
    <3>2. marks[1] \in Nat /\ marks[2] \in Nat /\ marks \in Nat \X Nat /\ marks[2] = Total(h["ll"])
      BY DEF IInv, Marked
    <3>3. "ll" \in Leg
      BY DEF Leg
    <3>4. CASE leg # "ll"
      <4>1. marks' = marks
        BY <3>1, <3>4
      <4>2. h'["ll"] = h["ll"]
        BY <2>2, <2>3, <3>3, <3>4
      <4> QED BY <3>2, <4>1, <4>2 DEF Marked
    <3>5. CASE leg = "ll"
      <4> DEFINE b == BinOf(v)
      <4>1. b \in 1 .. NumBins /\ BinIndex(v) = b
        BY <2>1, BinOfRight, SearchFindsBin
      <4> HIDE DEF b
      <4>2. h["ll"] \in Hist /\ h'["ll"] \in Hist
        BY <2>4, <3>3 DEF IInv, Tallied, Follows
      <4>3. h'["ll"] = [h["ll"] EXCEPT ![b] = @ + 1]
        BY <2>2, <2>3, <3>3, <3>5, <4>1 DEF Observe
      <4>4. OneMore(h["ll"], h'["ll"], b)
        BY <4>1, <4>2, <4>3, EdgeFacts DEF OneMore, Hist
      <4>5. Total(h'["ll"]) = Total(h["ll"]) + 1
        BY <4>1, <4>2, <4>4, CumBump
      <4>6. marks' = <<marks[1] + kept, marks[2] + 1>>
        BY <3>1, <3>5
      <4>7. marks' \in Nat \X Nat /\ marks'[2] = marks[2] + 1
        BY <3>1, <3>2, <4>6
      <4> QED BY <3>2, <4>5, <4>7 DEF Marked
    <3> QED BY <3>4, <3>5
  <2>9. TypeOK'
    BY <2>2, <2>4, <2>7, <2>8 DEF IInv, TypeOK, SampleBag, BagToSet, Marked
  <2> QED BY <2>6, <2>8, <2>9 DEF IInv
<1>2. CASE UNCHANGED vars
  BY <1>2 DEF vars, IInv, TypeOK, Tallied, Marked
<1> QED BY <1>1, <1>2 DEF Next

(* Each bin of each leg's histogram counts exactly the samples that belong there, for    *)
(* every sequence of echoes, every base line and every edge set (engine.go:217-227,       *)
(* histogram.go:40-59).                                                                  *)
THEOREM Invariance == Spec => []IInv
<1>1. Init => IInv
  BY InitIInv
<1>2. IInv /\ [Next]_vars => IInv'
  BY NextIInv
<1> QED BY <1>1, <1>2, PTL DEF Spec

-----------------------------------------------------------------------------
(* The samples up to an edge, counted by the histogram. *)

(* A cumulative count is the number of samples in the bins so far. *)
LEMMA CumSamples ==
    ASSUME NEW H, NEW B, SampleBag(B), Follows(H, B), NEW i \in 0 .. NumBins
    PROVE  Cum(H, i) = SumFunctionOnSet(B, {x \in DOMAIN B : BinOf(x) <= i})
<1> DEFINE S(k) == {x \in DOMAIN B : BinOf(x) <= k}
           G == {k \in Nat : k <= NumBins => Cum(H, k) = SumFunctionOnSet(B, S(k))}
<1>1. \A x \in DOMAIN B : BinOf(x) \in 1 .. NumBins
  BY BinOfRight DEF SampleBag
<1>2. 0 \in G
  <2>1. S(0) = {}
    BY <1>1
  <2> QED BY <2>1, SumEmpty, CumFacts DEF Follows
<1>3. ASSUME NEW k \in Nat, k \in G PROVE k + 1 \in G
  <2> SUFFICES ASSUME k + 1 <= NumBins PROVE Cum(H, k + 1) = SumFunctionOnSet(B, S(k + 1))
    OBVIOUS
  <2>1. k + 1 \in 1 .. NumBins /\ k <= NumBins
    BY EdgeFacts
  <2>2. S(k + 1) = S(k) \cup InBinOf(B, k + 1) /\ S(k) \cap InBinOf(B, k + 1) = {}
    BY <1>1, <2>1 DEF InBinOf
  <2>3. Countable(B, S(k)) /\ Countable(B, InBinOf(B, k + 1))
    BY PartCountable DEF InBinOf
  <2>4. SumFunctionOnSet(B, S(k + 1)) = SumFunctionOnSet(B, S(k)) + SumFunctionOnSet(B, InBinOf(B, k + 1))
    <3> HIDE DEF S
    <3> QED BY <2>2, <2>3, SumUnion
  <2>5. Cum(H, k + 1) = Cum(H, k) + H[k + 1] /\ H[k + 1] = SumFunctionOnSet(B, InBinOf(B, k + 1))
    <3>1. H \in Hist
      BY DEF Follows
    <3>2. Cum(H, k + 1) = Cum(H, (k + 1) - 1) + H[k + 1]
      BY <2>1, <3>1, CumFacts
    <3> QED BY <2>1, <3>2 DEF Follows
  <2>6. Cum(H, k) = SumFunctionOnSet(B, S(k))
    BY <1>3, <2>1
  <2> QED BY <2>4, <2>5, <2>6
<1>4. i \in G
  <2>1. i \in Nat
    BY EdgeFacts
  <2> HIDE DEF G
  <2> QED BY <1>2, <1>3, <2>1, NatInduct
<1> QED BY <1>4, EdgeFacts

(* A histogram's total is the number of its samples. *)
LEMMA TotalIsCardinality ==
    ASSUME NEW H, NEW B, SampleBag(B), Follows(H, B)
    PROVE  /\ Total(H) = BagCardinality(B) /\ Total(H) \in Nat
           /\ Total(H) = 0 <=> B = EmptyBag
<1> DEFINE all == {x \in DOMAIN B : BinOf(x) <= NumBins}
<1>1. all = DOMAIN B
  <2>1. \A x \in DOMAIN B : BinOf(x) \in 1 .. NumBins
    BY BinOfRight DEF SampleBag
  <2> QED BY <2>1, EdgeFacts
<1>2. H \in Hist /\ NumBins \in 0 .. NumBins
  BY EdgeFacts DEF Follows
<1>3. Total(H) = SumFunctionOnSet(B, DOMAIN B)
  <2>1. Cum(H, NumBins) = SumFunctionOnSet(B, all)
    BY <1>2, CumSamples
  <2>2. Cum(H, NumBins) = Total(H)
    BY <1>2, CumFacts
  <2> QED BY <1>1, <2>1, <2>2
<1>4. Countable(B, DOMAIN B)
  BY PartCountable
<1>5. Total(H) = BagCardinality(B) /\ Total(H) \in Nat
  BY <1>3, <1>4, BagCounts, SumType
<1>6. CASE DOMAIN B = {}
  <2>1. B = EmptyBag
    BY <1>6 DEF SampleBag, IsABag, EmptyBag, SetToBag
  <2>2. Total(H) = 0
    BY <1>3, <1>6, SumEmpty
  <2> QED BY <1>5, <2>1, <2>2
<1>7. CASE DOMAIN B # {}
  <2>1. PICK x \in DOMAIN B : TRUE
    BY <1>7
  <2>2. B # EmptyBag
    BY <1>7 DEF EmptyBag, SetToBag
  <2>3. Total(H) = B[x] + SumFunctionOnSet(B, (DOMAIN B) \ {x})
    BY <1>3, <1>4, SumRemove
  <2>4. SumFunctionOnSet(B, (DOMAIN B) \ {x}) \in Nat
    BY PartCountable, SumType
  <2>5. B[x] \in Nat \ {0}
    BY DEF SampleBag, IsABag
  <2> QED BY <1>5, <2>2, <2>3, <2>4, <2>5
<1> QED BY <1>6, <1>7

(* What the invariant says of one leg: below an edge the histogram and the samples *)
(* agree.                                                                          *)
LEMMA LegFacts ==
    ASSUME IInv, NEW leg \in Leg
    PROVE  /\ SampleBag(deltas[leg]) /\ Follows(h[leg], deltas[leg]) /\ h[leg] \in Hist
           /\ Total(h[leg]) = BagCardinality(deltas[leg]) /\ Total(h[leg]) \in Nat
           /\ Total(h[leg]) = 0 <=> deltas[leg] = EmptyBag
           /\ \A k \in 2 .. NumBins : SamplesBelow(leg, Edges[k]) = Cum(h[leg], k - 1)
<1>1. SampleBag(deltas[leg]) /\ Follows(h[leg], deltas[leg]) /\ h[leg] \in Hist
  BY DEF IInv, Tallied, Follows
<1>2. ASSUME NEW k \in 2 .. NumBins PROVE SamplesBelow(leg, Edges[k]) = Cum(h[leg], k - 1)
  <2>1. k - 1 \in 0 .. NumBins /\ k \in 1 .. NumBins
    BY EdgeFacts
  <2>2. Cum(h[leg], k - 1) = SumFunctionOnSet(deltas[leg], {x \in DOMAIN deltas[leg] : BinOf(x) <= k - 1})
    BY <1>1, <2>1, CumSamples
  <2>3. \A x \in DOMAIN deltas[leg] : x < Edges[k] <=> BinOf(x) <= k - 1
    <3> SUFFICES ASSUME NEW x \in DOMAIN deltas[leg] PROVE x < Edges[k] <=> BinOf(x) <= k - 1
      OBVIOUS
    <3>1. x \in Nat /\ Edges[k] \in Nat
      BY <1>1, <2>1, EdgeFacts DEF SampleBag
    <3>2. BinOf(x) \in 1 .. NumBins /\ (Edges[k] <= x <=> k <= BinOf(x))
      BY <2>1, <3>1, BinOfRight
    <3> QED BY <2>1, <3>1, <3>2
  <2>4. {x \in DOMAIN deltas[leg] : x < Edges[k]} = {x \in DOMAIN deltas[leg] : BinOf(x) <= k - 1}
    BY <2>3
  <2> QED BY <2>2, <2>4 DEF SamplesBelow
<1> QED BY <1>1, <1>2, TotalIsCardinality

LEMMA RankFacts == QN \in Nat \ {0} /\ QD \in Nat \ {0} /\ QN < QD /\ QN <= QD
BY ThresholdsAssumption

LEMMA LimitFacts ==
    /\ \E k \in 2 .. NumBins : LLMax = Edges[k]
    /\ \E k \in 2 .. NumBins : ClassicMin = Edges[k]
    /\ \E k \in 2 .. NumBins : QueueMin = Edges[k]
BY ThresholdsAssumption

-----------------------------------------------------------------------------
(* The distribution that engineers see and the quantile of the verdict agree at every    *)
(* point of the distribution below the last edge, for any set of samples (cdf.go:19-33,   *)
(* histogram.go:86-112).                                                                *)
THEOREM DistributionAgrees == Spec => []CdfAgrees
<1>1. ASSUME IInv PROVE CdfAgrees
  <2> SUFFICES ASSUME NEW leg \in Leg, NEW i \in 1 .. NumBins - 2, Total(h[leg]) > 0
               PROVE  QD * CDF(h[leg])[i].cum >= QN * Total(h[leg]) <=> ~Above(P99(leg), CDF(h[leg])[i].ms)
    BY DEF CdfAgrees
  <2>1. i \in Bins /\ i + 1 \in 1 .. NumBins /\ i + 1 < NumBins /\ (i + 1) - 1 = i
    BY EdgeFacts
  <2>2. CDF(h[leg])[i].cum = Cum(h[leg], i) /\ CDF(h[leg])[i].ms = Edges[i + 1]
    BY <2>1, EdgeFacts DEF CDF, UpperEdge
  <2>3. Above(P99(leg), Edges[i + 1]) <=> ~Reached(h[leg], i, QN, QD)
    <3>1. Above(P99(leg), Edges[i + 1]) <=> i + 1 < NumBins /\ ~Reached(h[leg], (i + 1) - 1, QN, QD)
      BY <1>1, <2>1, LegFacts, RankFacts, QuantileAtEdge DEF P99
    <3> QED BY <2>1, <3>1
  <2> QED BY <2>2, <2>3 DEF Reached
<1>2. IInv => CdfAgrees
  BY <1>1
<1> QED BY <1>2, Invariance, PTL

(* The three checks and the gates behind a pass. *)
LEMMA PassMeans ==
    Passes <=> gates = {} /\ StandingQueueOK /\ EvalDirection /\ MarkingOK /\ NoHarm
<1>1. AllPass <=> EvalDirection /\ MarkingOK /\ NoHarm
  <2>1. SubResults["working"] = Status(EvalDirection)
    BY DEF SubResults, Check
  <2>2. SubResults["marking_survival"] = Status(MarkingOK)
    BY DEF SubResults, Check
  <2>3. SubResults["no_harm"] = Status(NoHarm)
    BY DEF SubResults, Check
  <2>4. \A ok \in BOOLEAN : Status(ok) = "pass" <=> ok
    BY DEF Status
  <2>5. EvalDirection \in BOOLEAN /\ MarkingOK \in BOOLEAN /\ NoHarm \in BOOLEAN
    BY DEF EvalDirection, MarkingOK, NoHarm
  <2> QED BY <2>1, <2>2, <2>3, <2>4, <2>5 DEF AllPass, Check
<1>2. Failed = {} <=> gates = {} /\ StandingQueueOK
  BY DEF Failed
<1> QED BY <1>1, <1>2 DEF Passes, Evaluate, Status

(* A pass is true of the samples, not only of their bins: 0.99 of the low-latency samples *)
(* are below the limit and nearly all of them kept their marks, at most half of the        *)
(* classic ones lie below the standing queue and more than 0.01 of them reach their limit,  *)
(* because the thresholds are edges (verdict.go:59-117, engine.go:143, histogram.go:12-13). *)
THEOREM PassesAreEarned == Spec => []PassIsEarned
<1>1. ASSUME IInv, Passes PROVE
        /\ gates = {}
        /\ deltas["ll"] # EmptyBag /\ deltas["classic"] # EmptyBag
        /\ QD * SamplesBelow("ll", LLMax) >= QN * BagCardinality(deltas["ll"])
        /\ SurvivalD * marks[1] >= SurvivalN * BagCardinality(deltas["ll"])
        /\ 2 * SamplesBelow("classic", QueueMin) <= BagCardinality(deltas["classic"])
        /\ QD * SamplesBelow("classic", ClassicMin) < QN * BagCardinality(deltas["classic"])
        /\ 10 * (thr[1] - thr[2]) <= thr[1]
  <2>1. gates = {} /\ StandingQueueOK /\ EvalDirection /\ MarkingOK /\ NoHarm
    BY <1>1, PassMeans
  <2>2. "ll" \in Leg /\ "classic" \in Leg
    BY DEF Leg
  <2>3. deltas["ll"] # EmptyBag /\ deltas["classic"] # EmptyBag
    BY <1>1, <2>1, <2>2, LegFacts DEF EvalDirection
  <2>4. QD * SamplesBelow("ll", LLMax) >= QN * BagCardinality(deltas["ll"])
    <3>1. PICK k \in 2 .. NumBins : LLMax = Edges[k]
      BY LimitFacts
    <3>2. Below(P99("ll"), Edges[k]) /\ Total(h["ll"]) > 0
      BY <2>1, <3>1 DEF EvalDirection
    <3>3. Reached(h["ll"], k - 1, QN, QD)
      BY <1>1, <2>2, <3>2, LegFacts, RankFacts, EdgeFacts, QuantileAtEdge DEF P99
    <3> QED BY <1>1, <2>2, <3>1, <3>3, LegFacts DEF Reached
  <2>5. QD * SamplesBelow("classic", ClassicMin) < QN * BagCardinality(deltas["classic"])
    <3>1. PICK k \in 2 .. NumBins : ClassicMin = Edges[k]
      BY LimitFacts
    <3>2. Above(P99("classic"), Edges[k]) /\ Total(h["classic"]) > 0
      BY <2>1, <3>1 DEF EvalDirection
    <3>3. ~Reached(h["classic"], k - 1, QN, QD)
      BY <1>1, <2>2, <3>2, LegFacts, RankFacts, EdgeFacts, QuantileAtEdge DEF P99
    <3>4. Cum(h["classic"], k - 1) \in Nat /\ Total(h["classic"]) \in Nat
      BY <1>1, <2>2, LegFacts, EdgeFacts, CumFacts
    <3>5. QD * Cum(h["classic"], k - 1) \in Nat /\ QN * Total(h["classic"]) \in Nat
      BY <3>4, RankFacts, MulType
    <3> QED BY <1>1, <2>2, <3>1, <3>3, <3>5, LegFacts DEF Reached
  <2>6. SurvivalD * marks[1] >= SurvivalN * BagCardinality(deltas["ll"])
    <3>1. marks[2] = BagCardinality(deltas["ll"])
      BY <1>1, <2>2, LegFacts DEF IInv, Marked
    <3> QED BY <2>1, <3>1 DEF MarkingOK
  <2>7. 2 * SamplesBelow("classic", QueueMin) <= BagCardinality(deltas["classic"])
    <3>1. PICK k \in 2 .. NumBins : QueueMin = Edges[k]
      BY LimitFacts
    <3>2. ~Below(Quantile(h["classic"], 1, 2), Edges[k]) /\ Total(h["classic"]) > 0
      BY <2>1, <3>1 DEF EvalDirection, StandingQueueOK
    <3>3. 2 * Cum(h["classic"], k - 1) <= 1 * Total(h["classic"])
      BY <1>1, <2>2, <3>2, LegFacts, QuantilePassed
    <3> QED BY <1>1, <2>2, <3>1, <3>3, LegFacts
  <2>8. thr \in Nat \X Nat
    BY <1>1, ScalarsAssumption DEF IInv, TypeOK
  <2>9. 10 * (thr[1] - thr[2]) <= thr[1]
    BY <2>1, <2>8 DEF NoHarm
  <2> QED BY <2>1, <2>3, <2>4, <2>5, <2>6, <2>7, <2>9
<1>2. IInv => PassIsEarned
  BY <1>1 DEF PassIsEarned
<1> QED BY <1>2, Invariance, PTL

(* The checklist and the headline say the same of every run: all lines good just when it  *)
(* passed, a bad one when it failed, nothing claimed when it was not judged               *)
(* (render.go:54-96, verdict.go:59-117).                                                *)
THEOREM ChecklistAgrees == Spec => []FieldAgrees
<1>1. FieldAgrees
  <2> DEFINE list == Field(Evaluate)
             Shows(v) == {c \in Check : list[c] = v}
  <2>1. CASE Failed # {}
    <3>1. Evaluate = [verdict |-> "inconclusive", subs |-> <<>>, caveats |-> Failed]
      BY <2>1 DEF Evaluate
    <3>2. \A c \in Check : list[c] = "inconclusive"
      BY <3>1 DEF Field, Check
    <3> HIDE DEF list
    <3>3. Evaluate.verdict = "inconclusive" /\ Shows("inconclusive") = Check
      BY <3>1, <3>2
    <3> QED BY <3>3 DEF FieldAgrees, list
  <2>2. CASE Failed = {}
    <3>1. Evaluate = [verdict |-> Status(AllPass), subs |-> SubResults, caveats |-> {}]
      BY <2>2 DEF Evaluate
    <3>2. DOMAIN SubResults = Check
      BY DEF SubResults
    <3>3. \A c \in Check : list[c] = SubResults[c]
      BY <3>1, <3>2 DEF Field, Check
    <3>4. list["path"] = "pass"
      BY <3>1 DEF Field, Check, Status
    <3>5. \A c \in Check : SubResults[c] \in {"pass", "fail"}
      BY DEF SubResults, Status
    <3> HIDE DEF list
    <3>6. CASE AllPass
      <4>1. Evaluate.verdict = "pass" /\ Shows("pass") = Check
        BY <3>1, <3>3, <3>6 DEF Status, AllPass
      <4> QED BY <3>4, <4>1 DEF FieldAgrees, list
    <3>7. CASE ~AllPass
      <4>1. Evaluate.verdict = "fail"
        BY <3>1, <3>7 DEF Status
      <4>2. Shows("fail") # {} /\ Shows("inconclusive") = {}
        BY <3>3, <3>5, <3>7 DEF AllPass
      <4> QED BY <4>1, <4>2 DEF FieldAgrees, list
    <3> QED BY <3>6, <3>7
  <2> QED BY <2>1, <2>2
<1> QED BY <1>1, PTL

-----------------------------------------------------------------------------
(* The bin that the true quantile lies in. *)

LEMMA BelowType ==
    ASSUME IInv, NEW leg \in Leg, NEW x \in Int
    PROVE  SamplesBelow(leg, x) \in Nat /\ QD * SamplesBelow(leg, x) \in Nat
<1>1. Countable(deltas[leg], {d \in DOMAIN deltas[leg] : d < x})
  BY LegFacts, PartCountable
<1>2. SamplesBelow(leg, x) \in Nat
  BY <1>1, SumType DEF SamplesBelow
<1> QED BY <1>2, RankFacts, MulType

(* Some sample has the target rank. *)
LEMMA RankSampleExists ==
    ASSUME IInv, NEW leg \in Leg, deltas[leg] # EmptyBag
    PROVE  /\ RankSample(leg) \in DOMAIN deltas[leg]
           /\ QD * SamplesUpTo(leg, RankSample(leg)) >= QN * BagCardinality(deltas[leg])
           /\ QD * SamplesBelow(leg, RankSample(leg)) < QN * BagCardinality(deltas[leg])
<1> DEFINE B == deltas[leg]
           card == BagCardinality(B)
           X == {x \in Nat : QD * SamplesBelow(leg, x) >= QN * card}
           Ranked(d) == /\ QD * SamplesUpTo(leg, d) >= QN * card
                        /\ QD * SamplesBelow(leg, d) < QN * card
<1>1. SampleBag(B) /\ card \in Nat \ {0} /\ card = SumFunctionOnSet(B, DOMAIN B)
  BY LegFacts, PartCountable, BagCounts
<1>2. QN * card \in Nat \ {0} /\ QN * card <= QD * card
  BY <1>1, RankFacts, MulPositive, MulMono
<1>3. \A x \in DOMAIN B : x \in Nat
  BY <1>1 DEF SampleBag
<1>4. X # {}
  <2> DEFINE id == [x \in DOMAIN B |-> x]
  <2>1. \E m \in Nat : \A x \in DOMAIN B : id[x] <= m
    <3>1. \A x \in DOMAIN B : id[x] \in Nat
      BY <1>3
    <3> HIDE DEF id
    <3> QED BY <1>1, <3>1, BoundExists DEF SampleBag
  <2>2. PICK m \in Nat : \A x \in DOMAIN B : x <= m
    BY <2>1
  <2>3. {d \in DOMAIN B : d < m + 1} = DOMAIN B
    BY <1>3, <2>2
  <2>4. SamplesBelow(leg, m + 1) = card
    BY <1>1, <2>3 DEF SamplesBelow
  <2>5. m + 1 \in X
    <3> HIDE DEF card
    <3> QED BY <1>2, <2>4
  <2> QED BY <2>5
<1>5. PICK x \in X : \A y \in X : x <= y
  <2>1. X \subseteq Nat
    OBVIOUS
  <2> HIDE DEF X
  <2> QED BY <1>4, <2>1, Least
<1>6. x \in Nat /\ QD * SamplesBelow(leg, x) >= QN * card
  OBVIOUS
<1>7. x # 0
  <2>1. {d \in DOMAIN B : d < 0} = {}
    BY <1>3
  <2>2. SamplesBelow(leg, 0) = 0
    BY <2>1, SumEmpty DEF SamplesBelow
  <2>3. QD * SamplesBelow(leg, 0) = 0
    BY <2>2, RankFacts
  <2> HIDE DEF card
  <2> QED BY <1>2, <1>6, <2>3
<1> DEFINE r == x - 1
<1>8. r \in Nat /\ r \notin X /\ r + 1 = x
  <2> HIDE DEF X
  <2> QED BY <1>5, <1>6, <1>7
<1>9. ~(QD * SamplesBelow(leg, r) >= QN * card)
  <2> HIDE DEF r
  <2> QED BY <1>8
<1>10. QD * SamplesBelow(leg, r) \in Nat
  BY <1>8, BelowType
<1> HIDE DEF r, X, card
<1>11. Ranked(r)
  BY <1>2, <1>6, <1>8, <1>9, <1>10 DEF SamplesUpTo
<1>12. r \in DOMAIN B
  <2> SUFFICES ASSUME r \notin DOMAIN B PROVE FALSE
    OBVIOUS
  <2>1. {d \in DOMAIN B : d < r} = {d \in DOMAIN B : d < r + 1}
    BY <1>3, <1>8
  <2>2. SamplesBelow(leg, r) = SamplesUpTo(leg, r)
    BY <2>1 DEF SamplesBelow, SamplesUpTo
  <2> QED BY <1>2, <1>9, <1>11, <2>2
<1>13. RankSample(leg) = CHOOSE d \in DOMAIN B : Ranked(d)
  BY DEF RankSample, card
<1>14. RankSample(leg) \in DOMAIN B /\ Ranked(RankSample(leg))
  <2> HIDE DEF Ranked
  <2> QED BY <1>11, <1>12, <1>13
<1> QED BY <1>14 DEF card

(* The estimate of the p99 lies in the bin of the true p99, for every set of samples:     *)
(* the binary search, the counts, the cumulative search and the interpolation agree with  *)
(* the definition of the bins (histogram.go:6-15, 40-59, 83-112).                        *)
THEOREM EstimateInBin == Spec => []QuantileInBin
<1>1. ASSUME IInv, NEW leg \in Leg, deltas[leg] # EmptyBag
      PROVE  LET i == BinOf(RankSample(leg))
             IN ~Below(P99(leg), Edges[i]) /\ ~Above(P99(leg), UpperEdge(i))
  <2> DEFINE B == deltas[leg]
             H == h[leg]
             r == RankSample(leg)
             i == BinOf(r)
             upto(j) == {x \in DOMAIN B : BinOf(x) <= j}
  <2>1. /\ r \in DOMAIN B /\ r \in Nat /\ SampleBag(B) /\ Follows(H, B) /\ H \in Hist
        /\ Total(H) = BagCardinality(B) /\ Total(H) \in Nat \ {0}
    BY <1>1, RankSampleExists, LegFacts DEF SampleBag
  <2>2. QD * SamplesUpTo(leg, r) >= QN * Total(H) /\ QD * SamplesBelow(leg, r) < QN * Total(H)
    BY <1>1, <2>1, RankSampleExists
  <2> HIDE DEF r
  <2>3. i \in 1 .. NumBins /\ i - 1 \in 0 .. NumBins /\ i \in 0 .. NumBins
    <3>1. i \in 1 .. NumBins
      BY <2>1, BinOfRight
    <3> HIDE DEF i
    <3> QED BY <3>1, EdgeFacts
  <2>4. ASSUME NEW x \in DOMAIN B PROVE (x <= r => BinOf(x) <= i) /\ (BinOf(x) <= i - 1 => x < r)
    <3>1. x \in Nat /\ BinOf(x) \in 1 .. NumBins
      BY <2>1, BinOfRight DEF SampleBag
    <3>2. Edges[BinOf(x)] <= x /\ (Edges[BinOf(x)] <= r <=> BinOf(x) <= i)
      BY <2>1, <3>1, BinOfRight
    <3>3. Edges[i] <= r /\ (Edges[i] <= x <=> i <= BinOf(x))
      BY <2>1, <2>3, <3>1, BinOfRight
    <3>4. Edges[i] \in Nat /\ Edges[BinOf(x)] \in Nat
      BY <2>3, <3>1, EdgeFacts
    <3> HIDE DEF i
    <3> QED BY <2>1, <2>3, <3>1, <3>2, <3>3, <3>4
  <2> HIDE DEF i
  <2>5. SamplesUpTo(leg, r) <= Cum(H, i)
    <3>1. {x \in DOMAIN B : x < r + 1} \in SUBSET upto(i)
      BY <2>1, <2>4 DEF SampleBag
    <3>2. Countable(B, upto(i))
      BY <2>1, PartCountable
    <3>3. Cum(H, i) = SumFunctionOnSet(B, upto(i))
      BY <2>1, <2>3, CumSamples
    <3> HIDE DEF upto
    <3>4. SumFunctionOnSet(B, {x \in DOMAIN B : x < r + 1}) <= SumFunctionOnSet(B, upto(i))
      BY <3>1, <3>2, SumMono
    <3> QED BY <3>3, <3>4 DEF SamplesUpTo, SamplesBelow
  <2>6. Cum(H, i - 1) <= SamplesBelow(leg, r)
    <3>1. upto(i - 1) \in SUBSET {x \in DOMAIN B : x < r}
      BY <2>4
    <3>2. Countable(B, {x \in DOMAIN B : x < r})
      BY <2>1, PartCountable
    <3>3. Cum(H, i - 1) = SumFunctionOnSet(B, upto(i - 1))
      BY <2>1, <2>3, CumSamples
    <3> HIDE DEF upto
    <3>4. SumFunctionOnSet(B, upto(i - 1)) <= SumFunctionOnSet(B, {x \in DOMAIN B : x < r})
      BY <3>1, <3>2, SumMono
    <3> QED BY <3>3, <3>4 DEF SamplesBelow
  <2>7. Cum(H, i) \in Nat /\ Cum(H, i - 1) \in Nat
    BY <2>1, <2>3, CumFacts
  <2>8. SamplesUpTo(leg, r) \in Nat /\ SamplesBelow(leg, r) \in Nat
    BY <1>1, <2>1, BelowType DEF SamplesUpTo
  <2>9. Reached(H, i, QN, QD) /\ ~Reached(H, i - 1, QN, QD)
    <3>1. /\ QD * SamplesUpTo(leg, r) <= QD * Cum(H, i)
          /\ QD * Cum(H, i - 1) <= QD * SamplesBelow(leg, r)
      BY <2>5, <2>6, <2>7, <2>8, RankFacts, MulMono
    <3>2. /\ QD * Cum(H, i) \in Nat /\ QD * Cum(H, i - 1) \in Nat /\ QN * Total(H) \in Nat
          /\ QD * SamplesUpTo(leg, r) \in Nat /\ QD * SamplesBelow(leg, r) \in Nat
      BY <2>1, <2>7, <2>8, RankFacts, MulType
    <3> HIDE DEF H
    <3> QED BY <2>2, <3>1, <3>2 DEF Reached
  <2>10. ~Below(P99(leg), Edges[i])
    BY <2>1, <2>3, <2>9, RankFacts, QuantileAtEdge DEF P99
  <2>11. ~Above(P99(leg), UpperEdge(i))
    <3>1. CASE i = NumBins
      BY <2>1, <2>3, <3>1, RankFacts, QuantileAtEdge DEF P99, UpperEdge
    <3>2. CASE i < NumBins
      <4>1. i + 1 \in 1 .. NumBins /\ (i + 1) - 1 = i /\ UpperEdge(i) = Edges[i + 1]
        BY <2>3, <3>2, EdgeFacts DEF UpperEdge
      <4>2. Above(P99(leg), Edges[i + 1]) => ~Reached(H, (i + 1) - 1, QN, QD)
        BY <2>1, <4>1, RankFacts, QuantileAtEdge DEF P99
      <4> QED BY <2>9, <4>1, <4>2
    <3> QED BY <2>3, <3>1, <3>2, EdgeFacts
  <2> QED BY <2>10, <2>11 DEF i, r
<1>2. IInv => QuantileInBin
  BY <1>1 DEF QuantileInBin
<1> QED BY <1>2, Invariance, PTL

-----------------------------------------------------------------------------
(* What one more sample does to an estimate. *)

(* A sample beyond an edge never brings the estimate below it. *)
LEMMA SlowSample ==
    ASSUME NEW H \in Hist, NEW b \in 1 .. NumBins, NEW k \in 1 .. NumBins, k <= b,
           NEW n \in Nat \ {0}, NEW d \in Nat, n <= d, NEW K \in Hist, OneMore(H, K, b),
           Below(Quantile(K, n, d), Edges[k])
    PROVE  Total(H) > 0 /\ Below(Quantile(H, n, d), Edges[k])
<1>1. /\ K \in Hist /\ Total(K) = Total(H) + 1
      /\ \A j \in 1 .. NumBins : K[j] = IF j = b THEN H[j] + 1 ELSE H[j]
      /\ \A j \in 0 .. NumBins : Cum(K, j) = IF b <= j THEN Cum(H, j) + 1 ELSE Cum(H, j)
  BY CumBump DEF OneMore
<1>2. Total(H) \in Nat /\ Total(K) > 0 /\ d \in Nat \ {0}
  BY <1>1, TotalType
<1>3. PICK i \in 1 .. NumBins :
        /\ K[i] > 0 /\ Reached(K, i, n, d) /\ ~Reached(K, i - 1, n, d)
        /\ Quantile(K, n, d) = In(K, i, n, d)
  BY <1>1, <1>2, QuantileBin
<1> DEFINE q == In(K, i, n, d)
<1>4. i < k
  <2>1. IsFraction(q) /\ (k <= i => Edges[k] * q.d <= q.n)
    BY <1>1, <1>2, <1>3, InPlace
  <2>2. q.n < Edges[k] * q.d
    BY <1>3 DEF Below
  <2> HIDE DEF q
  <2>3. q.n \in Nat /\ Edges[k] * q.d \in Nat
    BY <2>1, EdgeFacts, MulType DEF IsFraction
  <2> QED BY <2>1, <2>2, <2>3, EdgeFacts
<1>5. /\ i \in 0 .. NumBins /\ i - 1 \in 0 .. NumBins /\ ~(b <= i) /\ ~(b <= i - 1) /\ i # b /\ i < NumBins
  BY <1>4, EdgeFacts
<1>6. Cum(K, i) = Cum(H, i) /\ Cum(K, i - 1) = Cum(H, i - 1) /\ K[i] = H[i] /\ Cum(H, i) \in Nat /\ Cum(H, i - 1) \in Nat
  BY <1>1, <1>5, CumFacts
<1>7. n * Total(K) = n * Total(H) + n /\ n * Total(H) \in Nat
  BY <1>1, <1>2, MulType
<1>8. d * Cum(H, i) \in Nat /\ d * Cum(H, i) >= n * Total(H) + n /\ d * Cum(H, i - 1) \in Nat
  BY <1>2, <1>3, <1>6, <1>7, MulType DEF Reached
<1>9. Total(H) > 0
  <2>1. ASSUME Total(H) = 0 PROVE FALSE
    <3>1. Cum(H, i) <= Cum(H, NumBins) /\ Cum(H, NumBins) = Total(H)
      BY <1>5, CumFacts, EdgeFacts
    <3>2. Cum(H, i) = 0
      BY <1>6, <2>1, <3>1
    <3>3. d * Cum(H, i) = 0
      BY <1>2, <3>2
    <3> QED BY <1>7, <1>8, <3>3
  <2> QED BY <1>2, <2>1
<1>10. PICK m \in 1 .. NumBins :
        /\ H[m] > 0 /\ Reached(H, m, n, d) /\ ~Reached(H, m - 1, n, d)
        /\ \A j \in 0 .. NumBins : Reached(H, j, n, d) <=> m <= j
        /\ Quantile(H, n, d) = In(H, m, n, d)
  BY <1>9, QuantileBin
<1> DEFINE p == In(H, m, n, d)
<1>11. m <= i
  <2>1. Reached(H, i, n, d)
    BY <1>7, <1>8 DEF Reached
  <2> QED BY <1>5, <1>10, <2>1
<1>12. CASE m < i
  <2>1. m + 1 < k
    BY <1>4, <1>12, EdgeFacts
  <2>2. p.n < Edges[k] * p.d
    BY <1>2, <1>10, <2>1, InPlace
  <2> QED BY <1>9, <1>10, <2>2 DEF Below
<1>13. CASE m = i
  <2> DEFINE D == d * H[i]
             w == Edges[i + 1] - Edges[i]
  <2>1. /\ p.d = D /\ p.n = Edges[i] * D + Part(H, i, n, d) * w
    BY <1>2, <1>5, <1>10, <1>13, InBin
  <2>2. /\ q.d = D /\ q.n = Edges[i] * D + Part(K, i, n, d) * w
    <3>1. \A L \in Hist : L[i] > 0 /\ Reached(L, i, n, d) /\ ~Reached(L, i - 1, n, d) =>
            /\ In(L, i, n, d).d = d * L[i]
            /\ In(L, i, n, d).n = Edges[i] * (d * L[i]) + Part(L, i, n, d) * (Edges[i + 1] - Edges[i])
      BY <1>2, <1>5, InBin
    <3>2. q.d = d * K[i] /\ q.n = Edges[i] * (d * K[i]) + Part(K, i, n, d) * (Edges[i + 1] - Edges[i])
      BY <1>1, <1>3, <3>1, Zenon
    <3> HIDE DEF q
    <3> QED BY <3>2, <1>6
  <2>3. Part(H, i, n, d) \in Int /\ Part(K, i, n, d) \in Int /\ Part(H, i, n, d) <= Part(K, i, n, d)
    BY <1>6, <1>7, <1>8 DEF Part
  <2>4. w \in Nat /\ D \in Nat /\ Edges[i] \in Nat /\ Edges[k] \in Nat
    <3>1. Edges[i] \in Nat /\ Edges[i + 1] \in Nat /\ Edges[i] < Edges[i + 1] /\ Edges[k] \in Nat
      BY <1>5, EdgeFacts
    <3>2. H[i] \in Nat
      BY EdgeFacts DEF Hist
    <3> QED BY <1>2, <3>1, <3>2, MulType
  <2> HIDE DEF w, D
  <2>5. Part(H, i, n, d) * w <= Part(K, i, n, d) * w
    BY <2>3, <2>4, MulMono
  <2>6. q.n < Edges[k] * q.d
    BY <1>3 DEF Below
  <2> HIDE DEF p, q
  <2>7. p.n <= q.n
    <3>1. Edges[i] * D \in Int /\ Part(H, i, n, d) * w \in Int /\ Part(K, i, n, d) * w \in Int
      BY <2>3, <2>4
    <3> QED BY <2>1, <2>2, <2>5, <3>1
  <2>8. p.n \in Int /\ q.n \in Int /\ Edges[k] * D \in Int
    BY <2>1, <2>2, <2>3, <2>4
  <2>9. p.n < Edges[k] * p.d
    BY <2>1, <2>2, <2>6, <2>7, <2>8
  <2> QED BY <1>9, <1>10, <2>9 DEF Below, p
<1> QED BY <1>11, <1>12, <1>13, EdgeFacts

(* A sample before an edge never brings the estimate above it. *)
LEMMA FastSample ==
    ASSUME NEW H \in Hist, NEW b \in 1 .. NumBins, NEW k \in 1 .. NumBins, b < k \/ k = NumBins,
           NEW n \in Nat \ {0}, NEW d \in Nat, n <= d, NEW K \in Hist, OneMore(H, K, b),
           Above(Quantile(K, n, d), Edges[k])
    PROVE  Total(H) > 0 /\ Above(Quantile(H, n, d), Edges[k])
<1>1. /\ K \in Hist /\ Total(K) = Total(H) + 1
      /\ \A j \in 0 .. NumBins : Cum(K, j) = IF b <= j THEN Cum(H, j) + 1 ELSE Cum(H, j)
  BY CumBump
<1>2. Total(H) \in Nat /\ Total(K) > 0 /\ d \in Nat \ {0}
  BY <1>1, TotalType
<1>3. k < NumBins /\ ~Reached(K, k - 1, n, d)
  BY <1>1, <1>2, QuantileAtEdge
<1>4. k - 1 \in 0 .. NumBins /\ b <= k - 1
  BY <1>3, EdgeFacts
<1>5. Cum(K, k - 1) = Cum(H, k - 1) + 1 /\ Cum(H, k - 1) \in Nat
  BY <1>1, <1>4, CumFacts
<1>6. /\ n * Total(K) = n * Total(H) + n /\ n * Total(H) \in Nat
      /\ d * Cum(K, k - 1) = d * Cum(H, k - 1) + d /\ d * Cum(H, k - 1) \in Nat
  BY <1>1, <1>2, <1>5, MulType
<1>7. d * Cum(H, k - 1) < n * Total(H)
  BY <1>2, <1>3, <1>6 DEF Reached
<1>8. ~Reached(H, k - 1, n, d)
  BY <1>6, <1>7 DEF Reached
<1>9. Total(H) > 0
  <2>1. Total(H) = 0 => n * Total(H) = 0
    OBVIOUS
  <2> QED BY <1>2, <1>6, <1>7, <2>1
<1> QED BY <1>3, <1>8, <1>9, QuantileAtEdge

(* A sample before an edge never brings the estimate up to it. *)
LEMMA FastSampleStays ==
    ASSUME NEW H \in Hist, NEW b \in 1 .. NumBins, NEW k \in 1 .. NumBins, b < k,
           NEW n \in Nat \ {0}, NEW d \in Nat, n < d, NEW K \in Hist, OneMore(H, K, b),
           ~Below(Quantile(K, n, d), Edges[k])
    PROVE  ~Below(Quantile(H, n, d), Edges[k])
<1>1. /\ Total(K) = Total(H) + 1
      /\ \A j \in 0 .. NumBins : Cum(K, j) = IF b <= j THEN Cum(H, j) + 1 ELSE Cum(H, j)
  BY CumBump
<1>2. Total(H) \in Nat /\ Total(K) > 0 /\ n <= d
  BY <1>1, TotalType
<1>3. k \in 2 .. NumBins /\ k - 1 \in 0 .. NumBins /\ b <= k - 1
  BY EdgeFacts
<1>4. d * Cum(K, k - 1) <= n * Total(K)
  BY <1>2, <1>3, QuantilePassed
<1>5. Cum(K, k - 1) = Cum(H, k - 1) + 1 /\ Cum(H, k - 1) \in Nat
  BY <1>1, <1>3, CumFacts
<1>6. /\ n * Total(K) = n * Total(H) + n /\ n * Total(H) \in Nat
      /\ d * Cum(K, k - 1) = d * Cum(H, k - 1) + d /\ d * Cum(H, k - 1) \in Nat
  BY <1>1, <1>2, <1>5, MulType
<1>7. d * Cum(H, k - 1) < n * Total(H)
  BY <1>4, <1>6
<1>8. ~Reached(H, k - 1, n, d)
  BY <1>6, <1>7 DEF Reached
<1>9. Total(H) > 0
  <2>1. Total(H) = 0 => n * Total(H) = 0
    OBVIOUS
  <2> QED BY <1>2, <1>6, <1>7, <2>1
<1> QED BY <1>2, <1>8, <1>9, QuantileAtEdge

(* One more slow low-latency sample, or classic sample that saw little queue, never makes  *)
(* the path look like a working one, and turns another verdict into a pass only when it is  *)
(* an echo that kept its mark, whatever was observed before and however it falls into bins  *)
(* (verdict.go:59-117, engine.go:143, 192-227).                                           *)
THEOREM WorseNeverRewarded == Spec => NoRewardForWorse
<1>1. ASSUME IInv, NEW leg \in Leg, NEW rtt \in Rtt, HistSample(leg, rtt), NEW i \in Bins,
             \/ h'["ll"][i] > h["ll"][i] /\ Edges[i] >= LLMax
             \/ h'["classic"][i] > h["classic"][i] /\ Edges[i] < ClassicMin /\ Edges[i] < QueueMin
      PROVE  /\ EvalDirection' => EvalDirection
             /\ marks'[1] = marks[1] => (Passes' => Passes)
  <2> DEFINE v == WorkingDelta(rtt, BaseRTT(base))
             b == BinOf(v)
  <2>1. v \in Nat
    BY <1>1, BaseType, DeltaType, SamplesAssumption DEF IInv, TypeOK
  <2> HIDE DEF v
  <2>2. b \in 1 .. NumBins /\ BinIndex(v) = b
    BY <2>1, BinOfRight, SearchFindsBin
  <2> HIDE DEF b
  <2>3. /\ h' = [h EXCEPT ![leg] = Observe(@, v)] /\ DOMAIN h = Leg
        /\ gates' = gates /\ thr' = thr
    BY <1>1 DEF HistSample, v, IInv, TypeOK
  <2>4. h'[leg] = [h[leg] EXCEPT ![b] = @ + 1] /\ \A l \in Leg \ {leg} : h'[l] = h[l]
    BY <2>2, <2>3 DEF Observe
  <2>5. h'[leg] \in Hist /\ OneMore(h[leg], h'[leg], b)
    BY <1>1, <2>2, <2>4, LegFacts, EdgeFacts DEF Hist, OneMore
  <2>6. {"ll", "classic", "solo", "withLL"} = Leg
    BY DEF Leg
  <2>7. h["ll"] \in Hist /\ h["classic"] \in Hist /\ h[leg] \in Hist
    BY <1>1, <2>6, LegFacts
  <2>8. i \in 1 .. NumBins /\ h["ll"][i] \in Nat /\ h["classic"][i] \in Nat
    BY <2>7, EdgeFacts DEF Hist
  <2>9. Passes' <=> gates' = {} /\ StandingQueueOK' /\ EvalDirection' /\ MarkingOK' /\ NoHarm'
    <3>1. (Passes <=> gates = {} /\ StandingQueueOK /\ EvalDirection /\ MarkingOK /\ NoHarm)'
      BY PassMeans, PTL
    <3> QED BY <3>1
  <2>10. CASE h'["ll"][i] > h["ll"][i] /\ Edges[i] >= LLMax
    <3>1. leg = "ll" /\ i = b
      <4>1. leg # "ll" => h'["ll"] = h["ll"]
        BY <2>4, <2>6
      <4>2. leg = "ll"
        BY <2>8, <2>10, <4>1
      <4>3. i # b => h'["ll"][i] = h["ll"][i]
        BY <2>4, <2>7, <2>8, <4>2 DEF Hist, Bins, NumBins
      <4> QED BY <2>8, <2>10, <4>2, <4>3
    <3>2. h'["classic"] = h["classic"] /\ h'["solo"] = h["solo"] /\ h'["withLL"] = h["withLL"]
      BY <2>4, <2>6, <3>1
    <3>3. (NoHarm' => NoHarm) /\ (StandingQueueOK' => StandingQueueOK)
      BY <2>3, <3>2 DEF NoHarm, StandingQueueOK, P99
    <3>4. PICK k \in 2 .. NumBins : LLMax = Edges[k]
      BY LimitFacts
    <3>5. k <= b /\ k \in 1 .. NumBins
      BY <2>10, <3>1, <3>4, <2>8, EdgeFacts
    <3>6. ASSUME EvalDirection' PROVE EvalDirection
      <4>1. Below(Quantile(h'["ll"], QN, QD), Edges[k])
        BY <3>4, <3>6 DEF EvalDirection, P99
      <4>2. Total(h["ll"]) > 0 /\ Below(Quantile(h["ll"], QN, QD), Edges[k])
        BY <2>2, <2>5, <2>7, <3>1, <3>5, <4>1, RankFacts, SlowSample
      <4>3. Total(h["classic"]) > 0 /\ Above(P99("classic"), ClassicMin)
        BY <3>2, <3>6 DEF EvalDirection, P99
      <4> QED BY <3>4, <4>2, <4>3 DEF EvalDirection, P99
    <3>7. ASSUME EvalDirection, MarkingOK', marks'[1] = marks[1] PROVE MarkingOK
      <4>1. /\ marks[1] \in Nat /\ marks[2] \in Nat /\ marks[2] = Total(h["ll"])
        BY <1>1 DEF IInv, Marked
      <4>2. PICK kept \in {0, 1} : marks' = <<marks[1] + kept, marks[2] + 1>>
        BY <1>1, <3>1 DEF HistSample
      <4>3. marks'[2] = marks[2] + 1
        BY <4>2
      <4>4. SurvivalD * marks[1] >= SurvivalN * (marks[2] + 1)
        BY <3>7, <4>3 DEF MarkingOK
      <4>5. SurvivalN * marks[2] <= SurvivalN * (marks[2] + 1)
        BY <4>1, ThresholdsAssumption, MulMono
      <4>6. /\ SurvivalN * marks[2] \in Nat /\ SurvivalN * (marks[2] + 1) \in Nat
            /\ SurvivalD * marks[1] \in Nat
        BY <4>1, ThresholdsAssumption, MulType
      <4>7. marks[2] > 0
        BY <3>7, <4>1 DEF EvalDirection
      <4> QED BY <4>4, <4>5, <4>6, <4>7 DEF MarkingOK
    <3> QED BY <2>3, <2>9, <3>3, <3>6, <3>7, PassMeans
  <2>11. CASE h'["classic"][i] > h["classic"][i] /\ Edges[i] < ClassicMin /\ Edges[i] < QueueMin
    <3>1. leg = "classic" /\ i = b
      <4>1. leg # "classic" => h'["classic"] = h["classic"]
        BY <2>4, <2>6
      <4>2. leg = "classic"
        BY <2>8, <2>11, <4>1
      <4>3. i # b => h'["classic"][i] = h["classic"][i]
        BY <2>4, <2>7, <2>8, <4>2 DEF Hist, Bins, NumBins
      <4> QED BY <2>8, <2>11, <4>2, <4>3
    <3>2. h'["ll"] = h["ll"] /\ h'["solo"] = h["solo"] /\ h'["withLL"] = h["withLL"]
      BY <2>4, <2>6, <3>1
    <3>3. marks' = marks
      BY <1>1, <3>1 DEF HistSample
    <3>4. (NoHarm' => NoHarm) /\ (MarkingOK' => MarkingOK)
      BY <2>3, <3>2, <3>3 DEF NoHarm, MarkingOK, P99
    <3>5. PICK k \in 2 .. NumBins : ClassicMin = Edges[k]
      BY LimitFacts
    <3>6. PICK m \in 2 .. NumBins : QueueMin = Edges[m]
      BY LimitFacts
    <3>7. k \in 1 .. NumBins /\ m \in 1 .. NumBins /\ b < k /\ b < m
      <4>1. k \in 1 .. NumBins /\ m \in 1 .. NumBins
        BY EdgeFacts
      <4>2. Edges[b] < Edges[k] /\ Edges[b] < Edges[m]
        BY <2>11, <3>1, <3>5, <3>6
      <4>3. \A x \in 1 .. NumBins : Edges[b] < Edges[x] => b < x
        BY <2>2, EdgeFacts
      <4> QED BY <4>1, <4>2, <4>3
    <3>8. ASSUME EvalDirection' PROVE EvalDirection
      <4>1. Above(Quantile(h'["classic"], QN, QD), Edges[k])
        BY <3>5, <3>8 DEF EvalDirection, P99
      <4>2. Total(h["classic"]) > 0 /\ Above(Quantile(h["classic"], QN, QD), Edges[k])
        BY <2>2, <2>5, <2>7, <3>1, <3>7, <4>1, RankFacts, FastSample
      <4>3. Total(h["ll"]) > 0 /\ Below(P99("ll"), LLMax)
        BY <3>2, <3>8 DEF EvalDirection, P99
      <4> QED BY <3>5, <4>2, <4>3 DEF EvalDirection, P99
    <3>9. ASSUME StandingQueueOK' PROVE StandingQueueOK
      <4>1. ~Below(Quantile(h'["classic"], 1, 2), Edges[m])
        BY <3>6, <3>9 DEF StandingQueueOK
      <4>2. ~Below(Quantile(h["classic"], 1, 2), Edges[m])
        BY <2>2, <2>5, <2>7, <3>1, <3>7, <4>1, FastSampleStays
      <4> QED BY <3>6, <4>2 DEF StandingQueueOK
    <3> QED BY <2>3, <2>9, <3>4, <3>8, <3>9, PassMeans
  <2> QED BY <1>1, <2>10, <2>11
<1>2. IInv /\ [Next]_vars =>
        [(\E i \in Bins :
             \/ h'["ll"][i] > h["ll"][i] /\ Edges[i] >= LLMax
             \/ h'["classic"][i] > h["classic"][i] /\ Edges[i] < ClassicMin /\ Edges[i] < QueueMin)
         => /\ EvalDirection' => EvalDirection
            /\ marks'[1] = marks[1] => (Passes' => Passes)]_vars
  BY <1>1 DEF Next
<1> QED BY <1>2, Invariance, PTL DEF Spec, NoRewardForWorse

-----------------------------------------------------------------------------
(* Merging histograms.  Whether an estimate is at most z depends on a count below z that *)
(* is linear in the histogram: it adds up when histograms are merged.                   *)

LEMMA MulCancel ==
    ASSUME NEW c \in Nat \ {0}, NEW a \in Int, NEW b \in Int
    PROVE  c * a <= c * b <=> a <= b
<1>1. b < a => c * b + c <= c * a
  <2>1. ASSUME b < a PROVE c * b + c <= c * a
    <3>1. c * (b + 1) <= c * a
      BY <2>1, MulMono
    <3>2. c * (b + 1) = c * b + c
      OBVIOUS
    <3> QED BY <3>1, <3>2
  <2> QED BY <2>1
<1>2. a <= b => c * a <= c * b
  BY MulMono
<1>3. c * a \in Int /\ c * b \in Int
  OBVIOUS
<1> QED BY <1>1, <1>2, <1>3

(* p/d1 <= q/d2 through a value x between them, and p/d1 > q/d2 likewise. *)
LEMMA Separate ==
    ASSUME NEW p \in Nat, NEW c \in Nat \ {0}, NEW q \in Nat, NEW d \in Nat \ {0}, NEW x \in Nat
    PROVE  /\ p <= x * c /\ x * d <= q => p * d <= q * c
           /\ x * c < p /\ q <= x * d => q * c < p * d
<1>1. ASSUME p <= x * c, x * d <= q PROVE p * d <= q * c
  <2>1. d * p <= d * (x * c) /\ c * (x * d) <= c * q
    BY <1>1, MulMono
  <2>2. d * (x * c) = c * (x * d) /\ d * p = p * d /\ c * q = q * c
    OBVIOUS
  <2>3. d * p \in Nat /\ c * q \in Nat /\ d * (x * c) \in Nat
    BY MulType
  <2> QED BY <2>1, <2>2, <2>3
<1>2. ASSUME x * c < p, q <= x * d PROVE q * c < p * d
  <2>1. d * (x * c + 1) <= d * p /\ c * q <= c * (x * d)
    BY <1>2, MulMono
  <2>2. d * (x * c + 1) = c * (x * d) + d /\ d * p = p * d /\ c * q = q * c
    OBVIOUS
  <2>3. d * p \in Nat /\ c * q \in Nat /\ c * (x * d) \in Nat
    BY MulType
  <2> QED BY <2>1, <2>2, <2>3
<1> QED BY <1>1, <1>2

LEMMA LeqTransitive ==
    ASSUME NEW p, NEW q, NEW r, IsFraction(p), IsFraction(q), IsFraction(r), Leq(p, q), Leq(q, r)
    PROVE  Leq(p, r)
<1> DEFINE a == p.n  b == p.d  c == q.n  d == q.d  e == r.n  f == r.d
<1>1. /\ a \in Nat /\ c \in Nat /\ e \in Nat
      /\ b \in Nat \ {0} /\ d \in Nat \ {0} /\ f \in Nat \ {0}
      /\ a * d <= c * b /\ c * f <= e * d
  BY DEF IsFraction, Leq
<1> HIDE DEF a, b, c, d, e, f
<1>2. f * (a * d) <= f * (c * b) /\ b * (c * f) <= b * (e * d)
  BY <1>1, MulMono
<1>3. f * (a * d) = d * (a * f) /\ f * (c * b) = b * (c * f) /\ b * (e * d) = d * (e * b)
  BY <1>1
<1>4. d * (a * f) <= d * (e * b)
  <2>1. f * (a * d) \in Nat /\ b * (c * f) \in Nat /\ b * (e * d) \in Nat
    BY <1>1, MulType
  <2> QED BY <1>2, <1>3, <2>1
<1>5. a * f <= e * b
  BY <1>1, <1>4, MulCancel
<1> QED BY <1>5 DEF Leq, a, b, c, d, e, f

(* Merging adds counts, cumulative counts and totals. *)
LEMMA MergeFacts ==
    ASSUME NEW H \in Hist, NEW K \in Hist
    PROVE  /\ Merge(H, K) \in Hist /\ Total(Merge(H, K)) = Total(H) + Total(K)
           /\ \A j \in 1 .. NumBins : Merge(H, K)[j] = H[j] + K[j]
           /\ \A j \in 0 .. NumBins : Cum(Merge(H, K), j) = Cum(H, j) + Cum(K, j)
<1> DEFINE M == Merge(H, K)
<1>1. M \in Hist /\ \A j \in 1 .. NumBins : M[j] = H[j] + K[j] /\ H[j] \in Nat /\ K[j] \in Nat
  BY EdgeFacts DEF Merge, Hist
<1> HIDE DEF M
<1>2. ASSUME NEW j \in 0 .. NumBins PROVE Cum(M, j) = Cum(H, j) + Cum(K, j)
  <2>1. j \in Nat /\ 1 .. j \subseteq 1 .. NumBins
    BY EdgeFacts
  <2>2. IsFiniteSet(1 .. j)
    BY <2>1, IntervalSize
  <2>3. Countable(H, 1 .. j) /\ Countable(K, 1 .. j) /\ \A x \in 1 .. j : M[x] = H[x] + K[x]
    BY <1>1, <2>1, <2>2 DEF Countable
  <2> QED BY <2>3, SumAdd DEF Cum
<1>3. Total(M) = Total(H) + Total(K)
  <2>1. NumBins \in 0 .. NumBins
    BY EdgeFacts
  <2> QED BY <1>1, <1>2, <2>1, CumFacts
<1> QED BY <1>1, <1>2, <1>3 DEF M

(* An estimate is at most z, in bin j and before the last edge, just when the samples    *)
(* below z reach the rank, those of bin j being counted as spread evenly over it.        *)
LEMMA LeqInBin ==
    ASSUME NEW H \in Hist, Total(H) > 0, NEW n \in Nat \ {0}, NEW d \in Nat, n <= d,
           NEW j \in 1 .. NumBins, j < NumBins, NEW z, IsFraction(z),
           Edges[j] * z.d < z.n, z.n <= Edges[j + 1] * z.d, z.n < Edges[NumBins] * z.d
    PROVE  Leq(Quantile(H, n, d), z) <=>
               Part(H, j, n, d) * ((Edges[j + 1] - Edges[j]) * z.d)
                   <= (d * H[j]) * (z.n - Edges[j] * z.d)
<1>1. PICK i \in 1 .. NumBins :
               /\ H[i] > 0 /\ Reached(H, i, n, d) /\ ~Reached(H, i - 1, n, d)
               /\ \A k \in 0 .. NumBins : Reached(H, k, n, d) <=> i <= k
               /\ Quantile(H, n, d) = In(H, i, n, d)
  BY QuantileBin
<1> DEFINE q == In(H, i, n, d)
           t == Part(H, j, n, d)
           D == d * H[j]
           x == Edges[j]
           y == Edges[j + 1]
           u == z.n
           e == z.d
<1>2. d \in Nat \ {0} /\ j + 1 \in 1 .. NumBins /\ j \in 0 .. NumBins /\ j - 1 \in 0 .. NumBins
  BY EdgeFacts
<1>3. x \in Nat /\ y \in Nat /\ x < y /\ Edges[NumBins] \in Nat
  BY <1>2, EdgeFacts
<1>4. u \in Nat /\ e \in Nat \ {0} /\ x * e < u /\ u <= y * e /\ u < Edges[NumBins] * e
  BY DEF IsFraction
<1>5. t \in Int /\ D \in Nat /\ (Reached(H, j, n, d) <=> t <= D) /\ (Reached(H, j - 1, n, d) <=> t <= 0)
  BY PartFacts
<1>6. /\ IsFraction(q)
      /\ j <= i => Edges[j] * q.d <= q.n
      /\ i < j => q.n <= x * q.d
      /\ j + 1 <= i /\ j + 1 < NumBins => y * q.d < q.n
  BY <1>1, <1>2, InPlace
<1>7. Leq(Quantile(H, n, d), z) <=> q.n * e <= u * q.d
  BY <1>1 DEF Leq
<1> SUFFICES (q.n * e <= u * q.d) <=> t * ((y - x) * e) <= D * (u - x * e)
  BY <1>7
<1>8. CASE i < j
  <2>1. t <= 0
    BY <1>1, <1>2, <1>5, <1>8
  <2>2. q.n \in Nat /\ q.d \in Nat \ {0} /\ q.n <= x * q.d
    BY <1>6, <1>8 DEF IsFraction
  <2> HIDE DEF q, t, D, x, y, u, e
  <2>3. x * e \in Nat /\ u - x * e \in Nat /\ (y - x) * e \in Nat
    <3>1. x * e \in Nat /\ y - x \in Nat
      BY <1>3, <1>4, MulType
    <3> QED BY <1>4, <3>1, MulType
  <2>4. q.n * e <= u * q.d
    <3>1. x * e <= u
      BY <1>4, <2>3
    <3> QED BY <1>3, <1>4, <2>2, <3>1, Separate
  <2>5. D * (u - x * e) \in Nat
    BY <1>5, <2>3, MulType
  <2>6. t * ((y - x) * e) <= 0 * ((y - x) * e)
    BY <1>5, <2>1, <2>3, MulMono
  <2>7. 0 * ((y - x) * e) = 0 /\ t * ((y - x) * e) \in Int
    BY <1>5, <2>3
  <2> QED BY <2>4, <2>5, <2>6, <2>7
<1>9. CASE i = j
  <2>1. q.d = D /\ q.n = x * D + t * (y - x) /\ D \in Nat \ {0}
    BY <1>1, <1>2, <1>9, InBin
  <2> HIDE DEF q, t, D, x, y, u, e
  <2>2. q.n * e = x * D * e + t * ((y - x) * e)
    BY <1>3, <1>4, <1>5, <2>1
  <2>3. D * (u - x * e) = u * q.d - x * D * e
    BY <1>3, <1>4, <1>5, <2>1
  <2>4. x * D * e \in Int /\ t * ((y - x) * e) \in Int /\ u * q.d \in Int
    BY <1>3, <1>4, <1>5, <2>1
  <2> QED BY <2>2, <2>3, <2>4
<1>10. CASE j < i
  <2>1. D < t
    BY <1>1, <1>2, <1>5, <1>10
  <2>2. q.n \in Nat /\ q.d \in Nat \ {0} /\ (j + 1 < NumBins => y * q.d < q.n)
    BY <1>6, <1>10 DEF IsFraction
  <2>3. i = NumBins => q.n = Edges[NumBins] /\ q.d = 1
    BY DEF In
  <2>4. j + 1 = NumBins => i = NumBins
    BY <1>10, EdgeFacts
  <2> HIDE DEF q, t, D, x, y, u, e
  <2>5. ~(q.n * e <= u * q.d)
    <3>1. CASE j + 1 < NumBins
      <4>1. u * q.d < q.n * e
        BY <1>3, <1>4, <2>2, <3>1, Separate
      <4> QED BY <1>4, <2>2, <4>1, MulType
    <3>2. CASE j + 1 = NumBins
      <4>1. q.n * e = Edges[NumBins] * e /\ u * q.d = u
        BY <1>4, <2>3, <2>4, <3>2
      <4>2. Edges[NumBins] * e \in Nat
        BY <1>3, <1>4, MulType
      <4> QED BY <1>4, <4>1, <4>2
    <3> QED BY <1>2, <3>1, <3>2, EdgeFacts
  <2>6. x * e \in Nat /\ y - x \in Nat \ {0} /\ (y - x) * e \in Nat \ {0} /\ (y - x) * e = y * e - x * e
    BY <1>3, <1>4, MulType, MulPositive
  <2>7. u - x * e \in Nat /\ u - x * e <= (y - x) * e
    <3>1. y * e \in Nat
      BY <1>3, <1>4, MulType
    <3> QED BY <1>4, <2>6, <3>1
  <2>8. D * (u - x * e) <= D * ((y - x) * e)
    BY <1>5, <2>6, <2>7, MulMono
  <2>9. ((y - x) * e) * D < ((y - x) * e) * t
    <3>1. ~(((y - x) * e) * t <= ((y - x) * e) * D)
      BY <1>5, <2>1, <2>6, MulCancel
    <3>2. ((y - x) * e) * t \in Int /\ ((y - x) * e) * D \in Int
      BY <1>5, <2>6
    <3> QED BY <3>1, <3>2
  <2>10. /\ ((y - x) * e) * D = D * ((y - x) * e) /\ ((y - x) * e) * t = t * ((y - x) * e)
         /\ D * ((y - x) * e) \in Int /\ t * ((y - x) * e) \in Int /\ D * (u - x * e) \in Int
    BY <1>5, <2>6, <2>7
  <2> QED BY <2>5, <2>8, <2>9, <2>10
<1> QED BY <1>8, <1>9, <1>10, <1>2, EdgeFacts

(* Where an estimate lies: on the last edge, or in a bin before it. *)
Within(z, j) ==
    /\ j < NumBins /\ Edges[j] * z.d < z.n /\ z.n <= Edges[j + 1] * z.d
    /\ z.n < Edges[NumBins] * z.d

Placed(z) == IsFraction(z) /\ (z.n = Edges[NumBins] * z.d \/ \E j \in 1 .. NumBins : Within(z, j))

(* Every estimate lies on the last edge or in a bin before it. *)
LEMMA EstimatePlaced ==
    ASSUME NEW H \in Hist, Total(H) > 0, NEW n \in Nat \ {0}, NEW d \in Nat, n <= d
    PROVE  Placed(Quantile(H, n, d))
<1>1. PICK i \in 1 .. NumBins :
               /\ H[i] > 0 /\ Reached(H, i, n, d) /\ ~Reached(H, i - 1, n, d)
               /\ Quantile(H, n, d) = In(H, i, n, d)
  BY QuantileBin
<1> DEFINE z == In(H, i, n, d)
<1>2. d \in Nat \ {0} /\ NumBins \in 1 .. NumBins
  BY EdgeFacts
<1>3. IsFraction(z) /\ z.n <= Edges[NumBins] * z.d
  BY <1>1, <1>2, InPlace
<1>4. CASE i = NumBins
  <2>1. z.n = Edges[NumBins] /\ z.d = 1
    BY <1>4 DEF In
  <2> HIDE DEF z
  <2>2. z.n = Edges[NumBins] * z.d
    BY <1>2, <2>1, EdgeFacts
  <2> QED BY <1>1, <1>3, <2>2 DEF Placed, z
<1>5. CASE i < NumBins
  <2>1. z.d = d * H[i] /\ Edges[i] * z.d < z.n /\ z.n <= Edges[i + 1] * z.d
    <3>1. /\ z.d = d * H[i]
          /\ Edges[i] * (d * H[i]) < z.n /\ z.n <= Edges[i + 1] * (d * H[i])
      BY <1>1, <1>2, <1>5, InBin
    <3> HIDE DEF z
    <3> QED BY <3>1
  <2> HIDE DEF z
  <2>2. z.n \in Nat /\ Edges[NumBins] * z.d \in Nat
    BY <1>2, <1>3, EdgeFacts, MulType DEF IsFraction
  <2>3. z.n = Edges[NumBins] * z.d \/ z.n < Edges[NumBins] * z.d
    BY <1>3, <2>2
  <2>4. Placed(z)
    BY <1>3, <1>5, <2>1, <2>3 DEF Placed, Within
  <2> QED BY <1>1, <2>4 DEF z
<1> QED BY <1>4, <1>5, EdgeFacts

(* The estimate of a merged histogram is at most z if both estimates are, and only if one is. *)
LEMMA MergedLeq ==
    ASSUME NEW H \in Hist, NEW K \in Hist, Total(H) > 0, Total(K) > 0,
           NEW n \in Nat \ {0}, NEW d \in Nat, n <= d, NEW z, Placed(z)
    PROVE  LET a == Quantile(H, n, d)
               b == Quantile(K, n, d)
               q == Quantile(Merge(H, K), n, d)
           IN /\ Leq(a, z) /\ Leq(b, z) => Leq(q, z)
              /\ Leq(q, z) => Leq(a, z) \/ Leq(b, z)
<1> DEFINE M == Merge(H, K)
<1>1. /\ M \in Hist /\ Total(M) = Total(H) + Total(K)
      /\ \A j \in 1 .. NumBins : M[j] = H[j] + K[j]
      /\ \A j \in 0 .. NumBins : Cum(M, j) = Cum(H, j) + Cum(K, j)
  BY MergeFacts
<1> HIDE DEF M
<1>2. Total(H) \in Nat /\ Total(K) \in Nat /\ Total(M) > 0
  BY <1>1, CumFacts, EdgeFacts
<1>3. IsFraction(z)
  BY DEF Placed
<1>4. CASE z.n = Edges[NumBins] * z.d
  <2>1. ASSUME NEW L \in Hist, Total(L) > 0 PROVE Leq(Quantile(L, n, d), z)
    <3> DEFINE q == Quantile(L, n, d)
    <3>1. NumBins \in 1 .. NumBins /\ Edges[NumBins] \in Nat
      BY EdgeFacts
    <3>2. IsFraction(q) /\ ~Above(q, Edges[NumBins])
      BY <2>1, <3>1, QuantileAtEdge
    <3> HIDE DEF q
    <3>3. q.n <= Edges[NumBins] * q.d
      <4>1. q.n \in Nat /\ Edges[NumBins] * q.d \in Nat
        BY <3>1, <3>2, MulType DEF IsFraction
      <4> QED BY <3>2, <4>1 DEF Above
    <3>4. Edges[NumBins] * z.d <= z.n
      BY <1>3, <1>4, <3>1 DEF IsFraction
    <3>5. q.n * z.d <= z.n * q.d
      BY <1>3, <3>1, <3>2, <3>3, <3>4, Separate DEF IsFraction
    <3> QED BY <3>5 DEF Leq, q
  <2>2. Leq(Quantile(H, n, d), z) /\ Leq(Quantile(M, n, d), z)
    BY <1>1, <1>2, <2>1
  <2> QED BY <2>2 DEF M
<1>5. ASSUME NEW j \in 1 .. NumBins, Within(z, j)
      PROVE  /\ Leq(Quantile(H, n, d), z) /\ Leq(Quantile(K, n, d), z) => Leq(Quantile(M, n, d), z)
             /\ Leq(Quantile(M, n, d), z) => Leq(Quantile(H, n, d), z) \/ Leq(Quantile(K, n, d), z)
  <2> DEFINE c == (Edges[j + 1] - Edges[j]) * z.d
             e == z.n - Edges[j] * z.d
             below(L) == Part(L, j, n, d) * c <= (d * L[j]) * e
  <2>1. \A L \in Hist : Total(L) > 0 => (Leq(Quantile(L, n, d), z) <=> below(L))
    BY <1>3, <1>5, LeqInBin DEF Within
  <2>2. c \in Int /\ e \in Int
    <3>1. Edges[j] \in Nat /\ Edges[j + 1] \in Nat
      BY <1>5, EdgeFacts DEF Within
    <3> QED BY <1>3, <3>1 DEF IsFraction
  <2>3. j - 1 \in 0 .. NumBins
    BY EdgeFacts
  <2>4. /\ H[j] \in Nat /\ K[j] \in Nat /\ M[j] = H[j] + K[j]
        /\ Cum(H, j - 1) \in Nat /\ Cum(K, j - 1) \in Nat
        /\ Cum(M, j - 1) = Cum(H, j - 1) + Cum(K, j - 1)
    BY <1>1, <2>3, CumFacts
  <2>5. /\ Part(H, j, n, d) \in Int /\ Part(K, j, n, d) \in Int
        /\ Part(M, j, n, d) = Part(H, j, n, d) + Part(K, j, n, d)
    BY <1>1, <1>2, <2>4 DEF Part
  <2> HIDE DEF c, e
  <2>6. /\ Part(M, j, n, d) * c = Part(H, j, n, d) * c + Part(K, j, n, d) * c
        /\ (d * M[j]) * e = (d * H[j]) * e + (d * K[j]) * e
    BY <2>2, <2>4, <2>5
  <2>7. /\ Part(H, j, n, d) * c \in Int /\ Part(K, j, n, d) * c \in Int
        /\ (d * H[j]) * e \in Int /\ (d * K[j]) * e \in Int
    BY <2>2, <2>4, <2>5
  <2>8. (below(H) /\ below(K) => below(M)) /\ (below(M) => below(H) \/ below(K))
    BY <2>6, <2>7
  <2> HIDE DEF below
  <2> QED BY <1>1, <1>2, <2>1, <2>8
<1> QED BY <1>4, <1>5 DEF Placed, M

LEMMA LeqReflexive == ASSUME NEW q, IsFraction(q) PROVE Leq(q, q)
<1>1. q.n * q.d \in Nat
  BY MulType DEF IsFraction
<1> QED BY <1>1 DEF Leq

(* The quantile of merged runs lies between theirs, and Merge loses no sample: merging    *)
(* histograms is not averaging percentiles (histogram.go:15, 70-80).                     *)
THEOREM MergeIsBetween == Spec => []MergedBetween
<1>1. ASSUME IInv PROVE MergedBetween
  <2> SUFFICES
        ASSUME NEW a \in Leg, NEW b \in Leg
        PROVE  LET m == Merge(h[a], h[b])
                   q == Quantile(m, QN, QD)
               IN /\ Total(m) = BagCardinality(deltas[a]) + BagCardinality(deltas[b])
                  /\ Total(h[a]) > 0 /\ Total(h[b]) > 0 /\ Leq(P99(a), P99(b)) =>
                       Leq(P99(a), q) /\ Leq(q, P99(b))
    BY DEF MergedBetween
  <2> DEFINE M == Merge(h[a], h[b])
             q == Quantile(M, QN, QD)
             r == P99(a)
             s == P99(b)
  <2>1. h[a] \in Hist /\ h[b] \in Hist
    BY <1>1, LegFacts
  <2>2. Total(M) = BagCardinality(deltas[a]) + BagCardinality(deltas[b])
    BY <1>1, <2>1, MergeFacts, LegFacts
  <2>3. ASSUME Total(h[a]) > 0, Total(h[b]) > 0, Leq(r, s) PROVE Leq(r, q) /\ Leq(q, s)
    <3>1. M \in Hist /\ Total(M) > 0
      <4>1. M \in Hist /\ Total(M) = Total(h[a]) + Total(h[b])
        BY <2>1, MergeFacts
      <4>2. Total(h[a]) \in Nat /\ Total(h[b]) \in Nat
        BY <2>1, CumFacts, EdgeFacts
      <4> HIDE DEF M
      <4> QED BY <2>3, <4>1, <4>2
    <3>2. Placed(q) /\ Placed(r) /\ Placed(s)
      BY <2>1, <2>3, <3>1, EstimatePlaced, RankFacts DEF P99
    <3>3. IsFraction(q) /\ IsFraction(r) /\ IsFraction(s)
      BY <3>2 DEF Placed
    <3>4. Leq(r, s) /\ Leq(s, s) => Leq(q, s)
      BY <2>1, <2>3, <3>2, RankFacts, MergedLeq DEF P99
    <3>5. Leq(q, q) => Leq(r, q) \/ Leq(s, q)
      BY <2>1, <2>3, <3>2, RankFacts, MergedLeq DEF P99
    <3> HIDE DEF q, r, s
    <3>6. Leq(q, s)
      BY <2>3, <3>3, <3>4, LeqReflexive
    <3>7. Leq(s, q) => Leq(r, q)
      BY <2>3, <3>3, LeqTransitive
    <3> QED BY <3>3, <3>5, <3>6, <3>7, LeqReflexive
  <2> QED BY <2>2, <2>3
<1> QED BY <1>1, Invariance, PTL

=============================================================================
