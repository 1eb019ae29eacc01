---------------------------- MODULE CountingFacts ----------------------------
(***************************************************************************)
(* Facts about natural numbers and finite sets that the proofs of several  *)
(* modules rest on.  The induction theorems of the library take the        *)
(* induction hypothesis as an operator; here it is a set of numbers.       *)
(***************************************************************************)
EXTENDS Integers, FiniteSetTheorems, TLAPS

\* A set of natural numbers that is not empty has a least element: the
\* intervals up to its elements are ordered by inclusion, which is well founded.
LEMMA LeastNatural ==
  ASSUME NEW T \in SUBSET Nat, T # {}
  PROVE  \E k \in T : \A m \in T : k <= m
<1> DEFINE I == {1..k : k \in T}
<1>1. \A k \in T : 1..k \in FiniteSubsetsOf(Nat)
  BY FS_Interval DEF FiniteSubsetsOf
<1>2. I \subseteq FiniteSubsetsOf(Nat) /\ I # {}
  BY <1>1
<1>3. PICK U \in I : \A V \in I : ~(<<V, U>> \in StrictSubsetOrdering(Nat))
  <2> HIDE DEF I
  <2>1. QED
    BY <1>2, FS_StrictSubsetOrderingWellFounded, WFMin
<1>4. PICK k \in T : U = 1..k
  OBVIOUS
<1>5. ASSUME NEW m \in T, m < k PROVE FALSE
  <2> DEFINE V == 1..m
  <2>1. V \in I /\ V \subseteq U /\ V # U /\ V \in SUBSET Nat /\ U \in SUBSET Nat
    BY <1>4, <1>5
  <2> HIDE DEF V
  <2>2. <<V, U>> \in StrictSubsetOrdering(Nat)
    BY <2>1 DEF StrictSubsetOrdering
  <2>3. QED
    BY <1>3, <2>1, <2>2
<1>6. QED
  BY <1>5

\* Induction over the natural numbers, the hypothesis being a set.
LEMMA NaturalInduction ==
  ASSUME NEW P \in SUBSET Nat, 0 \in P, \A n \in P : n + 1 \in P
  PROVE  P = Nat
<1> DEFINE T == Nat \ P
<1> SUFFICES ASSUME T # {} PROVE FALSE
  OBVIOUS
<1>1. PICK k \in T : \A m \in T : k <= m
  <2>1. T \in SUBSET Nat
    OBVIOUS
  <2> HIDE DEF T
  <2>2. QED
    BY <2>1, LeastNatural
<1>2. k # 0 /\ k - 1 \in Nat
  OBVIOUS
<1>3. k - 1 \in P
  BY <1>1, <1>2
<1>4. QED
  BY <1>3

\* A finite set of natural numbers that is not empty has a largest element.
LEMMA FiniteMaximum ==
  ASSUME NEW S \in SUBSET Nat, IsFiniteSet(S), S # {}
  PROVE  \E m \in S : \A n \in S : n <= m
<1> DEFINE Bounded(U) == \E m \in U : \A n \in U : n <= m
           T == {U \in FiniteSubsetsOf(S) : U # {} /\ ~Bounded(U)}
<1> SUFFICES ASSUME T # {} PROVE FALSE
  BY DEF FiniteSubsetsOf
<1>1. PICK U \in T : \A V \in T : ~(<<V, U>> \in StrictSubsetOrdering(S))
  <2>1. T \subseteq FiniteSubsetsOf(S)
    OBVIOUS
  <2> HIDE DEF T
  <2>2. QED
    BY <2>1, FS_StrictSubsetOrderingWellFounded, WFMin
<1>2. /\ U \in SUBSET S /\ IsFiniteSet(U) /\ U # {}
      /\ \A m \in U : \E n \in U : ~(n <= m)
  BY DEF FiniteSubsetsOf
<1>3. PICK x \in U : TRUE
  BY <1>2
<1> DEFINE V == U \ {x}
<1>4. V \in SUBSET S /\ IsFiniteSet(V) /\ V # {}
  BY <1>2, FS_RemoveElement
<1>5. \A m \in V : \E n \in V : ~(n <= m)
  <2> SUFFICES ASSUME NEW m \in V, \A n \in V : n <= m PROVE FALSE
    OBVIOUS
  <2>1. CASE x <= m
    BY <1>2, <2>1
  <2>2. CASE ~(x <= m)
    BY <1>2, <1>3, <2>2
  <2>3. QED
    BY <2>1, <2>2
<1>6. V \in T
  BY <1>4, <1>5 DEF FiniteSubsetsOf
<1>7. <<V, U>> \in StrictSubsetOrdering(S)
  <2>1. V \subseteq U /\ V # U /\ V \in SUBSET S /\ U \in SUBSET S
    BY <1>2, <1>3
  <2> HIDE DEF V
  <2>2. QED
    BY <2>1 DEF StrictSubsetOrdering
<1>8. QED
  BY <1>1, <1>6, <1>7

\* A set of positions up to n that is not empty has a largest element.
LEMMA LargestPosition ==
  ASSUME NEW n \in Nat, NEW S \in SUBSET (1..n), S # {}
  PROVE  \E p \in S : \A q \in S : q <= p
<1>1. IsFiniteSet(1..n)
  BY FS_Interval
<1>2. IsFiniteSet(S)
  BY <1>1, FS_Subset
<1>3. S \in SUBSET Nat
  OBVIOUS
<1>4. QED
  BY <1>2, <1>3, FiniteMaximum

\* A one-to-one map between two sets preserves their number of elements.
LEMMA SameCount ==
  ASSUME NEW S, NEW T, IsFiniteSet(S), NEW f \in [S -> T],
         \A x, y \in S : f[x] = f[y] => x = y, \A t \in T : \E x \in S : f[x] = t
  PROVE  IsFiniteSet(T) /\ Cardinality(T) = Cardinality(S)
<1>1. f \in Bijection(S, T)
  BY DEF Bijection, Injection, Surjection, IsInjective
<1>2. ExistsBijection(S, T)
  BY <1>1 DEF ExistsBijection
<1>3. QED
  BY <1>2, FS_Bijection

\* A set without one element.
LEMMA OneLess ==
  ASSUME NEW S, IsFiniteSet(S), NEW x
  PROVE  /\ IsFiniteSet(S \ {x}) /\ Cardinality(S \ {x}) \in Nat /\ Cardinality(S) \in Nat
         /\ Cardinality(S) = Cardinality(S \ {x}) + (IF x \in S THEN 1 ELSE 0)
<1>1. CASE x \in S
  <2> DEFINE T == S \ {x}
  <2>1. IsFiniteSet(T) /\ Cardinality(T) = Cardinality(S) - 1
    BY <1>1, FS_RemoveElement
  <2>2. Cardinality(S) \in Nat /\ Cardinality(T) \in Nat
    BY <2>1, FS_CardinalityType
  <2> HIDE DEF T
  <2>3. Cardinality(S) = Cardinality(T) + 1
    BY <2>1, <2>2
  <2>4. QED
    BY <1>1, <2>1, <2>2, <2>3 DEF T
<1>2. CASE x \notin S
  <2> DEFINE T == S \ {x}
  <2>1. T = S
    BY <1>2
  <2>2. Cardinality(S) \in Nat
    BY FS_CardinalityType
  <2> HIDE DEF T
  <2>3. Cardinality(S) = Cardinality(T) + 0 /\ Cardinality(T) \in Nat /\ IsFiniteSet(T)
    BY <2>1, <2>2
  <2>4. QED
    BY <1>2, <2>2, <2>3 DEF T
<1>3. QED
  BY <1>1, <1>2

\* Two sets that differ in one element at most.
LEMMA DifferInOne ==
  ASSUME NEW S, IsFiniteSet(S), NEW T, IsFiniteSet(T), NEW x, S \ {x} = T \ {x}
  PROVE  /\ Cardinality(S) \in Nat /\ Cardinality(T) \in Nat
         /\ Cardinality(S) + (IF x \in T THEN 1 ELSE 0)
              = Cardinality(T) + (IF x \in S THEN 1 ELSE 0)
<1>1. /\ Cardinality(S \ {x}) \in Nat /\ Cardinality(S) \in Nat
      /\ Cardinality(S) = Cardinality(S \ {x}) + (IF x \in S THEN 1 ELSE 0)
  BY OneLess
<1>2. /\ Cardinality(T) \in Nat
      /\ Cardinality(T) = Cardinality(S \ {x}) + (IF x \in T THEN 1 ELSE 0)
  BY OneLess
<1>3. QED
  BY <1>1, <1>2

\* Counting the positions of a set, one position further.
LEMMA PrefixCount ==
  ASSUME NEW T, NEW j \in Nat
  PROVE  /\ IsFiniteSet((1..j) \intersect T) /\ Cardinality((1..j) \intersect T) \in Nat
         /\ Cardinality((1..(j + 1)) \intersect T)
              = Cardinality((1..j) \intersect T) + (IF j + 1 \in T THEN 1 ELSE 0)
<1> DEFINE S == (1..(j + 1)) \intersect T
           U == (1..j) \intersect T
           x == j + 1
<1>1. IsFiniteSet(1..j) /\ IsFiniteSet(1..(j + 1))
  BY FS_Interval
<1>2. IsFiniteSet(S) /\ IsFiniteSet(U)
  BY <1>1, FS_Subset
<1>3. S \ {x} = U \ {x} /\ x \notin U /\ (x \in S <=> j + 1 \in T)
  OBVIOUS
<1> HIDE DEF S, U
<1>4. /\ Cardinality(S) \in Nat /\ Cardinality(U) \in Nat
      /\ Cardinality(S) + (IF x \in U THEN 1 ELSE 0) = Cardinality(U) + (IF x \in S THEN 1 ELSE 0)
  BY <1>2, <1>3, DifferInOne
<1>5. Cardinality(S) = Cardinality(U) + (IF j + 1 \in T THEN 1 ELSE 0)
  BY <1>3, <1>4
<1>6. QED
  BY <1>2, <1>4, <1>5 DEF S, U
=============================================================================
