---------------------------- MODULE FoldTheorems ----------------------------
(***************************************************************************)
(* What folds compute: that the recursive functions behind them exist, and *)
(* the sums of SumFunctionOnSet, which takes the indices in an order of    *)
(* its own.  There is no induction rule to cite, hence the lemmas start    *)
(* from a least number.                                                    *)
(***************************************************************************)
EXTENDS Functions, FiniteSetTheorems, TLAPS

\* A set of numbers has a least one.
LEMMA LeastNumber ==
    ASSUME NEW N \in SUBSET Nat, N # {}
    PROVE  \E n \in N : \A m \in N : n <= m
<1> DEFINE R == {ss \in Nat \X Nat : ss[1] < ss[2]}
<1>1. IsWellFoundedOn(R, Nat)
  BY NatLessThanWellFounded DEF OpToRel
<1>2. PICK n \in N : \A m \in N : ~(<<m, n>> \in R)
  <2> HIDE DEF R
  <2> QED
    BY <1>1, WFMin
<1>3. \A m \in N : ~(m < n)
  BY <1>2
<1> QED
  BY <1>3

\* What holds of 0, and of each number after its predecessor, holds up to n.
LEMMA Upwards ==
    ASSUME NEW n \in Nat, NEW K, 0 \in K, \A i \in 1..n : i - 1 \in K => i \in K
    PROVE  \A i \in 0..n : i \in K
<1> DEFINE others == {i \in 0..n : i \notin K}
<1>1. ASSUME NEW i \in others, \A j \in others : i <= j
      PROVE  FALSE
  <2>1. i \in 0..n /\ i \notin K /\ i # 0
    OBVIOUS
  <2>2. i \in 1..n /\ i - 1 \in 0..n /\ ~(i <= i - 1)
    BY <2>1
  <2>3. i - 1 \in K
    BY <1>1, <2>2
  <2> QED
    BY <2>1, <2>2, <2>3
<1>2. others \in SUBSET Nat
  OBVIOUS
<1>3. others = {}
  <2> HIDE DEF others
  <2> QED
    BY <1>1, <1>2, LeastNumber
<1> QED
  BY <1>3

\* What a set inherits from its proper subsets, all subsets of a finite set have.
LEMMA SubsetsInherit ==
    ASSUME NEW S, IsFiniteSet(S), NEW K,
           \A s \in SUBSET S : (\A t \in SUBSET s : t # s => t \in K) => s \in K
    PROVE  \A s \in SUBSET S : s \in K
<1> SUFFICES ASSUME NEW u \in SUBSET S, u \notin K
             PROVE  FALSE
  OBVIOUS
<1> DEFINE others == {s \in SUBSET S : s \notin K}
           sizes == {Cardinality(s) : s \in others}
<1>1. \A s \in SUBSET S : IsFiniteSet(s) /\ Cardinality(s) \in Nat
  BY FS_Subset, FS_CardinalityType
<1>2. PICK n \in sizes : \A m \in sizes : n <= m
  <2>1. sizes \in SUBSET Nat /\ sizes # {}
    BY <1>1
  <2> HIDE DEF sizes
  <2> QED
    BY <2>1, LeastNumber
<1>3. PICK s \in others : Cardinality(s) = n
  BY <1>2
<1>4. ASSUME NEW t \in SUBSET s, t # s
      PROVE  t \in K
  <2>1. Cardinality(t) <= Cardinality(s) /\ Cardinality(t) # Cardinality(s)
    BY <1>1, <1>4, FS_Subset
  <2>2. t \in SUBSET S /\ Cardinality(t) \in Nat /\ n \in Nat
    BY <1>1, <1>2
  <2>3. t \in others => n <= Cardinality(t)
    BY <1>2
  <2>4. t \notin others
    BY <1>3, <2>1, <2>2, <2>3
  <2> QED
    BY <2>2, <2>4
<1> QED
  BY <1>3, <1>4

----------------------------------------------------------------------------
(* Folds over the elements of a set, taken in the order of a choice.       *)

\* g folds every set of the family D.
Folding(base, step, choice, D, g) ==
    \A s \in D : g[s] = IF s = {} THEN base
                        ELSE step[<<choice[s], g[s \ {choice[s]}]>>]

LEMMA FoldExists ==
    ASSUME NEW S, IsFiniteSet(S), NEW V, NEW base \in V,
           NEW choice, \A s \in SUBSET S : s # {} => choice[s] \in s,
           NEW step, \A x \in S, v \in V : step[<<x, v>>] \in V
    PROVE  \E g \in [SUBSET S -> V] : Folding(base, step, choice, SUBSET S, g)
<1> DEFINE Upto(n) == {s \in SUBSET S : Cardinality(s) <= n}
           bad == {n \in Nat : ~ \E g \in [Upto(n) -> V] : Folding(base, step, choice, Upto(n), g)}
<1>1. \A s \in SUBSET S : IsFiniteSet(s) /\ Cardinality(s) \in Nat
  BY FS_Subset, FS_CardinalityType
<1>2. ASSUME NEW n \in bad, \A m \in bad : n <= m
      PROVE  FALSE
  <2>1. CASE n = 0
    <3> DEFINE g == [s \in Upto(0) |-> base]
    <3>1. \A s \in Upto(0) : s = {}
      BY <1>1, FS_EmptySet
    <3> HIDE DEF Upto
    <3>2. g \in [Upto(0) -> V] /\ Folding(base, step, choice, Upto(0), g)
      BY <3>1 DEF Folding
    <3> QED
      BY <2>1, <3>2
  <2>2. CASE n # 0
    <3>1. n - 1 \in Nat /\ n - 1 \notin bad
      <4>1. n \in Nat
        OBVIOUS
      <4> HIDE DEF bad
      <4> QED
        BY <1>2, <2>2, <4>1
    <3>2. PICK g \in [Upto(n - 1) -> V] : Folding(base, step, choice, Upto(n - 1), g)
      BY <3>1
    <3> DEFINE rest(s) == s \ {choice[s]}
               h == [s \in Upto(n) |-> IF s = {} THEN base ELSE step[<<choice[s], g[rest(s)]>>]]
    <3>3. \A s \in Upto(n - 1) : s \in Upto(n)
      BY <1>1, <3>1
    <3>4. \A s \in Upto(n) : s # {} => choice[s] \in S /\ rest(s) \in Upto(n - 1)
      BY <1>1, FS_RemoveElement
    <3> HIDE DEF Upto
    <3>5. \A s \in Upto(n) : h[s] = IF s = {} THEN base ELSE step[<<choice[s], g[rest(s)]>>]
      OBVIOUS
    <3>6. \A s \in Upto(n - 1) : h[s] = g[s]
      BY <3>2, <3>3, <3>5 DEF Folding
    <3>7. h \in [Upto(n) -> V]
      BY <3>2, <3>4
    <3> HIDE DEF h
    <3>8. Folding(base, step, choice, Upto(n), h)
      BY <3>4, <3>5, <3>6 DEF Folding
    <3> QED
      BY <3>7, <3>8
  <2> QED
    BY <2>1, <2>2
<1>3. bad = {}
  <2>1. bad \in SUBSET Nat
    OBVIOUS
  <2> HIDE DEF bad
  <2> QED
    BY <1>2, <2>1, LeastNumber
<1>4. Cardinality(S) \in Nat /\ Upto(Cardinality(S)) = SUBSET S
  BY <1>1, FS_Subset
<1>5. \E g \in [Upto(Cardinality(S)) -> V] : Folding(base, step, choice, Upto(Cardinality(S)), g)
  <2> HIDE DEF Upto
  <2> QED
    BY <1>3, <1>4
<1> HIDE DEF Upto
<1> QED
  BY <1>4, <1>5

----------------------------------------------------------------------------
(* Sums.                                                                   *)

Pick(s) == CHOOSE x \in s : TRUE

LEMMA PickIsIn ==
    ASSUME NEW s, s # {}
    PROVE  Pick(s) \in s
BY DEF Pick

\* g adds f up over every subset of S.
AddsUp(f, S, g) ==
    g = [s \in SUBSET S |-> IF s = {} THEN 0 ELSE f[Pick(s)] + g[s \ {Pick(s)}]]

LEMMA AddingExists ==
    ASSUME NEW S, IsFiniteSet(S), NEW f, \A x \in S : f[x] \in Int
    PROVE  \E g : AddsUp(f, S, g)
<1> DEFINE choice == [s \in SUBSET S |-> Pick(s)]
           step == [p \in S \X Int |-> f[p[1]] + p[2]]
<1>1. /\ \A s \in SUBSET S : choice[s] = Pick(s)
      /\ \A x \in S, v \in Int : step[<<x, v>>] = f[x] + v
  OBVIOUS
<1> HIDE DEF choice, step
<1>2. /\ \A s \in SUBSET S : s # {} => choice[s] \in s
      /\ \A x \in S, v \in Int : step[<<x, v>>] \in Int
      /\ 0 \in Int
  BY <1>1, PickIsIn
<1>3. PICK g \in [SUBSET S -> Int] : Folding(0, step, choice, SUBSET S, g)
  BY <1>2, FoldExists
<1>4. ASSUME NEW s \in SUBSET S
      PROVE  g[s] = IF s = {} THEN 0 ELSE f[Pick(s)] + g[s \ {Pick(s)}]
  <2>1. s # {} => Pick(s) \in S /\ g[s \ {Pick(s)}] \in Int
    BY PickIsIn
  <2> QED
    BY <1>1, <1>3, <2>1 DEF Folding
<1>5. g = [s \in SUBSET S |-> IF s = {} THEN 0 ELSE f[Pick(s)] + g[s \ {Pick(s)}]]
  BY <1>4
<1> QED
  BY <1>5 DEF AddsUp

LEMMA AddingAgrees ==
    ASSUME NEW f, NEW S, IsFiniteSet(S), NEW T \in SUBSET S,
           NEW g, AddsUp(f, S, g), NEW h, AddsUp(f, T, h)
    PROVE  g[T] = h[T]
<1> DEFINE K == {t \in SUBSET T : g[t] = h[t]}
<1>1. IsFiniteSet(T)
  BY FS_Subset
<1>2. ASSUME NEW s \in SUBSET T, \A t \in SUBSET s : t # s => t \in K
      PROVE  s \in K
  <2>1. /\ g[s] = IF s = {} THEN 0 ELSE f[Pick(s)] + g[s \ {Pick(s)}]
        /\ h[s] = IF s = {} THEN 0 ELSE f[Pick(s)] + h[s \ {Pick(s)}]
    BY DEF AddsUp
  <2>2. s # {} => s \ {Pick(s)} \in K
    BY <1>2, PickIsIn
  <2> QED
    BY <2>1, <2>2
<1> HIDE DEF K
<1>3. \A s \in SUBSET T : s \in K
  BY <1>1, <1>2, SubsetsInherit
<1> QED
  BY <1>3 DEF K

LEMMA SumOfAdding ==
    ASSUME NEW f, NEW S, IsFiniteSet(S), \A x \in S : f[x] \in Int
    PROVE  \E g : AddsUp(f, S, g) /\ SumFunctionOnSet(f, S) = g[S]
<1> DEFINE g == CHOOSE g : AddsUp(f, S, g)
<1>1. AddsUp(f, S, g)
  BY AddingExists
<1>2. SumFunctionOnSet(f, S) = g[S]
  BY DEF SumFunctionOnSet, FoldFunctionOnSet, MapThenFoldSet, AddsUp, Pick
<1> QED
  BY <1>1, <1>2

LEMMA SumOfPart ==
    ASSUME NEW f, NEW S, IsFiniteSet(S), \A x \in S : f[x] \in Int,
           NEW T \in SUBSET S, NEW g, AddsUp(f, S, g)
    PROVE  g[T] = SumFunctionOnSet(f, T)
<1>1. IsFiniteSet(T)
  BY FS_Subset
<1>2. PICK h : AddsUp(f, T, h) /\ SumFunctionOnSet(f, T) = h[T]
  BY <1>1, SumOfAdding
<1>3. g[T] = h[T]
  BY <1>2, AddingAgrees
<1> QED
  BY <1>2, <1>3

\* The sum takes an element, and goes on with the others.
LEMMA SumUnfolds ==
    ASSUME NEW f, NEW S, IsFiniteSet(S), \A x \in S : f[x] \in Int
    PROVE  SumFunctionOnSet(f, S) =
             IF S = {} THEN 0 ELSE f[Pick(S)] + SumFunctionOnSet(f, S \ {Pick(S)})
<1>1. PICK g : AddsUp(f, S, g)
  BY AddingExists
<1>2. g[S] = IF S = {} THEN 0 ELSE f[Pick(S)] + g[S \ {Pick(S)}]
  BY <1>1 DEF AddsUp
<1>3. \A T \in SUBSET S : g[T] = SumFunctionOnSet(f, T)
  BY <1>1, SumOfPart
<1> QED
  BY <1>2, <1>3

LEMMA SumType ==
    ASSUME NEW S, IsFiniteSet(S), NEW f, \A x \in S : f[x] \in Int
    PROVE  SumFunctionOnSet(f, S) \in Int
<1> DEFINE K == {s \in SUBSET S : SumFunctionOnSet(f, s) \in Int}
<1>1. ASSUME NEW s \in SUBSET S, \A t \in SUBSET s : t # s => t \in K
      PROVE  s \in K
  <2>1. IsFiniteSet(s)
    BY FS_Subset
  <2>2. s # {} => Pick(s) \in S /\ s \ {Pick(s)} \in K
    BY <1>1, PickIsIn
  <2> QED
    BY <2>1, <2>2, SumUnfolds
<1> HIDE DEF K
<1>2. \A s \in SUBSET S : s \in K
  BY <1>1, SubsetsInherit
<1> QED
  BY <1>2 DEF K

\* The sum only depends on the values at the indices.
LEMMA SumAgrees ==
    ASSUME NEW S, IsFiniteSet(S), NEW f, NEW g,
           \A x \in S : f[x] \in Int /\ f[x] = g[x]
    PROVE  SumFunctionOnSet(f, S) = SumFunctionOnSet(g, S)
<1> DEFINE K == {s \in SUBSET S : SumFunctionOnSet(f, s) = SumFunctionOnSet(g, s)}
<1>1. ASSUME NEW s \in SUBSET S, \A t \in SUBSET s : t # s => t \in K
      PROVE  s \in K
  <2>1. IsFiniteSet(s)
    BY FS_Subset
  <2>2. s # {} => Pick(s) \in S /\ s \ {Pick(s)} \in K
    BY <1>1, PickIsIn
  <2>3. \A x \in s : f[x] \in Int /\ g[x] \in Int /\ f[x] = g[x]
    OBVIOUS
  <2>4. /\ SumFunctionOnSet(f, s) = IF s = {} THEN 0 ELSE f[Pick(s)] + SumFunctionOnSet(f, s \ {Pick(s)})
        /\ SumFunctionOnSet(g, s) = IF s = {} THEN 0 ELSE g[Pick(s)] + SumFunctionOnSet(g, s \ {Pick(s)})
    BY <2>1, <2>3, SumUnfolds
  <2> QED
    BY <2>2, <2>4
<1> HIDE DEF K
<1>2. \A s \in SUBSET S : s \in K
  BY <1>1, SubsetsInherit
<1> QED
  BY <1>2 DEF K

\* It grows with any of them, by as much.
LEMMA SumGrows ==
    ASSUME NEW S, IsFiniteSet(S), NEW f, NEW g, NEW x \in S, NEW d \in Int,
           \A y \in S : f[y] \in Int,
           \A y \in S : g[y] = IF y = x THEN f[y] + d ELSE f[y]
    PROVE  SumFunctionOnSet(g, S) = SumFunctionOnSet(f, S) + d
<1> DEFINE K == {s \in SUBSET S : SumFunctionOnSet(g, s) =
                     SumFunctionOnSet(f, s) + (IF x \in s THEN d ELSE 0)}
<1>1. ASSUME NEW s \in SUBSET S, \A t \in SUBSET s : t # s => t \in K
      PROVE  s \in K
  <2>1. IsFiniteSet(s)
    BY FS_Subset
  <2>2. CASE s = {}
    <3>1. SumFunctionOnSet(f, s) = 0 /\ SumFunctionOnSet(g, s) = 0
      BY <2>1, <2>2, SumUnfolds
    <3> QED
      BY <2>2, <3>1
  <2>3. ASSUME s # {}
        PROVE  s \in K
    <3> DEFINE y == Pick(s)
               t == s \ {y}
    <3>1. y \in s /\ t \in K
      BY <1>1, <2>3, PickIsIn
    <3>2. SumFunctionOnSet(f, t) \in Int
      BY <2>1, FS_Subset, SumType
    <3>3. /\ SumFunctionOnSet(f, s) = f[y] + SumFunctionOnSet(f, t)
          /\ SumFunctionOnSet(g, s) = g[y] + SumFunctionOnSet(g, t)
      BY <2>1, <2>3, SumUnfolds
    <3>4. f[y] \in Int /\ g[y] = IF y = x THEN f[y] + d ELSE f[y]
      BY <3>1
    <3>5. SumFunctionOnSet(g, t) = SumFunctionOnSet(f, t) + (IF x \in t THEN d ELSE 0)
      BY <3>1
    <3>6. x \in s <=> x = y \/ x \in t
      BY <3>1
    <3>7. y \notin t
      OBVIOUS
    <3> HIDE DEF y, t
    <3> QED
      BY <3>2, <3>3, <3>4, <3>5, <3>6, <3>7
  <2> QED
    BY <2>2, <2>3
<1> HIDE DEF K
<1>2. \A s \in SUBSET S : s \in K
  BY <1>1, SubsetsInherit
<1> QED
  BY <1>2 DEF K

LEMMA SumOfZeros ==
    ASSUME NEW S, IsFiniteSet(S), NEW f, \A x \in S : f[x] = 0
    PROVE  SumFunctionOnSet(f, S) = 0
<1> DEFINE K == {s \in SUBSET S : SumFunctionOnSet(f, s) = 0}
<1>1. ASSUME NEW s \in SUBSET S, \A t \in SUBSET s : t # s => t \in K
      PROVE  s \in K
  <2>1. IsFiniteSet(s)
    BY FS_Subset
  <2>2. s # {} => Pick(s) \in S /\ s \ {Pick(s)} \in K
    BY <1>1, PickIsIn
  <2> QED
    BY <2>1, <2>2, SumUnfolds
<1> HIDE DEF K
<1>2. \A s \in SUBSET S : s \in K
  BY <1>1, SubsetsInherit
<1> QED
  BY <1>2 DEF K
============================================================================
