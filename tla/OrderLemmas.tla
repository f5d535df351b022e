---------------------------- MODULE OrderLemmas -----------------------------
(***************************************************************************)
(* Facts about natural numbers and finite sets that the proofs about       *)
(* memory and about the order of entries rest on.                          *)
(***************************************************************************)
EXTENDS Integers, FiniteSetTheorems, TLAPS

\* A set of natural numbers has a least element: of the intervals from 1 to its
\* elements one has none of the others as a strict part.
LEMMA LeastNatural ==
  ASSUME NEW T \in SUBSET Nat, T # {}
  PROVE  \E m \in T : \A n \in T : m <= n
<1> DEFINE Intervals == { 1 .. n : n \in T }
<1>1. IsWellFoundedOn(StrictSubsetOrdering(Nat), FiniteSubsetsOf(Nat))
  BY FS_StrictSubsetOrderingWellFounded
<1>2. Intervals \subseteq FiniteSubsetsOf(Nat)
  BY FS_Interval DEF FiniteSubsetsOf
<1>3. PICK I \in Intervals : \A J \in Intervals : <<J, I>> \notin StrictSubsetOrdering(Nat)
  <2>1. Intervals # {}
    OBVIOUS
  <2>. QED BY <1>1, <1>2, <2>1, WFMin
<1>4. PICK m \in T : I = 1 .. m
  OBVIOUS
<1>5. ASSUME NEW n \in T, n < m PROVE FALSE
  <2>1. 1 .. n \subseteq 1 .. m /\ 1 .. n # 1 .. m
    BY <1>5
  <2>2. <<1 .. n, 1 .. m>> \in StrictSubsetOrdering(Nat)
    BY <2>1 DEF StrictSubsetOrdering
  <2>. QED BY <1>3, <1>4, <2>2
<1>. QED BY <1>5

\* A bounded set of natural numbers has a greatest element.
LEMMA GreatestNatural ==
  ASSUME NEW M \in Nat, NEW T \in SUBSET (0 .. M), T # {}
  PROVE  \E m \in T : \A n \in T : n <= m
<1> DEFINE D == { M - n : n \in T }
<1>1. \A n \in T : n \in Int /\ M - n \in Nat
  OBVIOUS
<1>2. D \in SUBSET Nat /\ D # {}
  BY <1>1
<1>3. PICK d \in D : \A e \in D : d <= e
  <2>. HIDE DEF D
  <2>. QED BY <1>2, LeastNatural
<1>4. PICK m \in T : d = M - m
  OBVIOUS
<1>5. ASSUME NEW n \in T PROVE n <= m
  <2>1. M - m <= M - n
    BY <1>3, <1>4
  <2>. QED BY <1>1, <2>1
<1>. QED BY <1>5

\* A bounded set of natural numbers has an ascending arrangement: of the sizes of
\* sets without one there is no least.
LEMMA AscendingExists ==
  ASSUME NEW M \in Nat, NEW S \in SUBSET (0 .. M)
  PROVE  \E s \in [1 .. Cardinality(S) -> S] :
           \A m, n \in 1 .. Cardinality(S) : m < n => s[m] < s[n]
<1> DEFINE Arranged(T) == \E s \in [1 .. Cardinality(T) -> T] :
                            \A m, n \in 1 .. Cardinality(T) : m < n => s[m] < s[n]
           Sizes == { Cardinality(T) : T \in { U \in SUBSET (0 .. M) : ~Arranged(U) } }
<1>1. \A T \in SUBSET (0 .. M) : IsFiniteSet(T) /\ Cardinality(T) \in Nat
  <2>1. IsFiniteSet(0 .. M)
    BY FS_Interval
  <2>. QED BY <2>1, FS_Subset, FS_CardinalityType
<1>2. Sizes \in SUBSET Nat
  BY <1>1
<1>3. ASSUME NEW T \in SUBSET (0 .. M), ~Arranged(T) PROVE FALSE
  <2>. HIDE DEF Arranged
  <2>1. Sizes # {}
    BY <1>3
  <2>2. PICK k \in Sizes : \A l \in Sizes : k <= l
    <3>. HIDE DEF Sizes
    <3>. QED BY <1>2, <2>1, LeastNatural
  <2>3. PICK U \in SUBSET (0 .. M) : ~Arranged(U) /\ k = Cardinality(U)
    BY <2>2
  <2>4. U # {}
    <3> SUFFICES ASSUME U = {} PROVE Arranged(U)
      BY <2>3
    <3>1. Cardinality(U) = 0
      BY FS_EmptySet
    <3>2. [n \in 1 .. 0 |-> n] \in [1 .. Cardinality(U) -> U]
      BY <3>1
    <3>. QED BY <3>1, <3>2 DEF Arranged
  <2>5. PICK top \in U : \A n \in U : n <= top
    BY <2>4, GreatestNatural
  <2> DEFINE V == U \ {top}
  <2>6. V \in SUBSET (0 .. M) /\ Cardinality(V) = k - 1 /\ k \in Nat \ {0}
    <3>1. IsFiniteSet(U)
      BY <1>1
    <3>2. Cardinality(V) = Cardinality(U) - 1
      BY <3>1, FS_RemoveElement
    <3>. QED BY <1>1, <2>3, <3>2
  <2>. HIDE DEF V
  <2>7. Arranged(V)
    <3> SUFFICES ASSUME ~Arranged(V) PROVE FALSE
      OBVIOUS
    <3>1. k - 1 \in Sizes
      BY <2>6
    <3>. QED BY <1>2, <2>2, <2>6, <3>1
  <2>8. PICK s \in [1 .. k - 1 -> V] : \A m, n \in 1 .. k - 1 : m < n => s[m] < s[n]
    BY <2>6, <2>7 DEF Arranged
  <2> DEFINE t == [n \in 1 .. k |-> IF n = k THEN top ELSE s[n]]
  <2>9. \A n \in 1 .. k - 1 : s[n] \in U /\ s[n] < top
    <3>1. \A n \in 1 .. k - 1 : s[n] \in V
      BY <2>8
    <3>2. \A n \in V : n \in U /\ n \in Nat /\ n # top /\ n <= top /\ top \in Nat
      BY <2>5 DEF V
    <3>. QED BY <3>1, <3>2
  <2>10. t \in [1 .. k -> U]
    BY <2>6, <2>9
  <2>11. \A m, n \in 1 .. k : m < n => t[m] < t[n]
    BY <2>6, <2>8, <2>9
  <2>12. Arranged(U)
    <3>. HIDE DEF t
    <3>. QED BY <2>3, <2>10, <2>11 DEF Arranged
  <2>. QED BY <2>3, <2>12
<1>. QED BY <1>3

\* An ascending arrangement of an interval counts through it.
LEMMA AscendingCounts ==
  ASSUME NEW k \in Nat, NEW d \in Nat, NEW p \in [1 .. k -> d + 1 .. d + k],
         \A m, n \in 1 .. k : m < n => p[m] < p[n]
  PROVE  \A n \in 1 .. k : p[n] = d + n
<1>0. \A n \in 1 .. k : p[n] \in Int /\ d + 1 <= p[n] /\ p[n] <= d + k
  <2>1. \A n \in 1 .. k : p[n] \in d + 1 .. d + k
    OBVIOUS
  <2>. QED BY <2>1
<1>1. ASSUME NEW n \in 1 .. k, p[n] < d + n PROVE FALSE
  <2> DEFINE Low == { m \in 1 .. k : p[m] < d + m }
  <2>1. Low \in SUBSET Nat /\ Low # {}
    BY <1>1
  <2>2. PICK m \in Low : \A l \in Low : m <= l
    <3>. HIDE DEF Low
    <3>. QED BY <2>1, LeastNatural
  <2>3. m # 1
    BY <1>0, <2>2
  <2>4. m - 1 \in 1 .. k /\ m - 1 \notin Low
    BY <2>2, <2>3
  <2>5. p[m - 1] >= d + (m - 1) /\ p[m - 1] < p[m]
    BY <1>0, <2>2, <2>4
  <2>. QED BY <1>0, <2>2, <2>4, <2>5
<1>2. ASSUME NEW n \in 1 .. k, p[n] > d + n PROVE FALSE
  <2> DEFINE High == { m \in 1 .. k : p[m] > d + m }
  <2>0. \A m \in 1 .. k : m \in 0 .. k
    OBVIOUS
  <2>1. High \in SUBSET (0 .. k) /\ High # {}
    BY <1>2, <2>0
  <2>2. PICK m \in High : \A l \in High : l <= m
    <3>. HIDE DEF High
    <3>. QED BY <2>1, GreatestNatural
  <2>3. m # k
    BY <1>0, <2>2
  <2>4. m + 1 \in 1 .. k /\ m + 1 \notin High
    BY <2>2, <2>3
  <2>5. p[m + 1] <= d + (m + 1) /\ p[m] < p[m + 1]
    BY <1>0, <2>2, <2>4
  <2>. QED BY <1>0, <2>2, <2>4, <2>5
<1>3. ASSUME NEW n \in 1 .. k PROVE p[n] = d + n
  <2>1. ~(p[n] < d + n)
    BY <1>1
  <2>2. ~(p[n] > d + n)
    BY <1>2
  <2>. QED BY <1>0, <2>1, <2>2
<1>. QED BY <1>3
=============================================================================
