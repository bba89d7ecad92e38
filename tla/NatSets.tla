------------------------------- MODULE NatSets -------------------------------
(***************************************************************************)
(* Induction over the naturals in a form that names sets instead of         *)
(* predicates, and the prefix sums it gives.                                *)
(***************************************************************************)
EXTENDS Integers, Sequences, FiniteSets, TLAPS, WellFoundedInduction, FiniteSetTheorems

\* A nonempty set of naturals has a least element: among the intervals 0..n
\* with n in the set, strict inclusion has a minimal one.
LEMMA LeastNat ==
  ASSUME NEW S, S \subseteq Nat, S # {}
  PROVE  \E n \in S : \A m \in S : n <= m
<1> DEFINE T == {0..n : n \in S}
<1>1. T \subseteq FiniteSubsetsOf(Nat) /\ T # {}
  <2>1. \A n \in S : 0..n \subseteq Nat /\ IsFiniteSet(0..n)
    BY FS_Interval
  <2> QED
    BY <2>1 DEF FiniteSubsetsOf
<1>2. PICK U \in T : \A V \in T : <<V, U>> \notin StrictSubsetOrdering(Nat)
  <2> HIDE DEF T
  <2> QED
    BY <1>1, WFMin, FS_StrictSubsetOrderingWellFounded
<1>3. PICK n \in S : U = 0..n
  BY <1>2
<1>4. ASSUME NEW m \in S, m < n
      PROVE  FALSE
  <2>1. 0..m \subseteq 0..n /\ n \notin 0..m /\ n \in 0..n
    BY <1>4
  <2>2. <<0..m, 0..n>> \in StrictSubsetOrdering(Nat)
    BY <2>1 DEF StrictSubsetOrdering
  <2> QED
    BY <1>2, <1>3, <2>2
<1> QED
  BY <1>4

\* A set that holds 0 and, with every n, n + 1, holds every natural number.
LEMMA SetInduction ==
  ASSUME NEW S, 0 \in S, \A n \in Nat : n \in S => n + 1 \in S
  PROVE  Nat \subseteq S
<1> DEFINE Out == {n \in Nat : n \notin S}
<1> SUFFICES ASSUME Out # {} PROVE FALSE
  OBVIOUS
<1>1. PICK n \in Out : \A m \in Out : n <= m
  <2> Out \subseteq Nat
    OBVIOUS
  <2> HIDE DEF Out
  <2> QED
    BY LeastNat
<1>2. n # 0 /\ n - 1 \in Nat /\ n - 1 \notin Out
  BY <1>1
<1> QED
  BY <1>1, <1>2

-----------------------------------------------------------------------------
\* g lists the partial sums of the first m values of c.
IsPrefixSum(g, c, m) ==
  /\ g \in [0..m -> Int]
  /\ g[0] = 0
  /\ \A i \in 1..m : g[i] = g[i - 1] + c[i]

LEMMA PrefixSumExists ==
  ASSUME NEW n \in Nat, NEW c \in [1..n -> Int]
  PROVE  \E g : IsPrefixSum(g, c, n)
<1> DEFINE S == {m \in Nat : m <= n => \E g : IsPrefixSum(g, c, m)}
<1>1. 0 \in S
  <2>1. IsPrefixSum([i \in 0..0 |-> 0], c, 0)
    BY DEF IsPrefixSum
  <2> QED
    BY <2>1
<1>2. ASSUME NEW m \in Nat, m \in S, m + 1 <= n
      PROVE  \E g : IsPrefixSum(g, c, m + 1)
  <2>1. PICK g : IsPrefixSum(g, c, m)
    BY <1>2
  <2> DEFINE h == [i \in 0..m + 1 |-> IF i = m + 1 THEN g[m] + c[i] ELSE g[i]]
  <2>2. c[m + 1] \in Int /\ g[m] \in Int
    BY <1>2, <2>1 DEF IsPrefixSum
  <2>3. h \in [0..m + 1 -> Int] /\ h[0] = 0
    BY <2>1, <2>2 DEF IsPrefixSum
  <2>4. \A i \in 1..m + 1 : h[i] = h[i - 1] + c[i]
    BY <2>1 DEF IsPrefixSum
  <2> QED
    BY <2>3, <2>4 DEF IsPrefixSum
<1>3. Nat \subseteq S
  <2>1. \A m \in Nat : m \in S => m + 1 \in S
    BY <1>2
  <2> HIDE DEF S
  <2> QED
    BY <1>1, <2>1, SetInduction
<1> QED
  BY <1>3

LEMMA PrefixSumUnique ==
  ASSUME NEW m \in Nat, NEW c, NEW n \in Nat, NEW d, NEW g, NEW h,
         IsPrefixSum(g, c, m), IsPrefixSum(h, d, n), m <= n,
         \A i \in 1..m : c[i] = d[i]
  PROVE  \A i \in 0..m : g[i] = h[i]
<1> DEFINE S == {i \in Nat : i <= m => g[i] = h[i]}
<1>1. 0 \in S
  BY DEF IsPrefixSum
<1>2. ASSUME NEW i \in Nat, i \in S, i + 1 <= m
      PROVE  g[i + 1] = h[i + 1]
  BY <1>2 DEF IsPrefixSum
<1>3. Nat \subseteq S
  <2>1. \A i \in Nat : i \in S => i + 1 \in S
    BY <1>2
  <2> HIDE DEF S
  <2> QED
    BY <1>1, <2>1, SetInduction
<1> QED
  BY <1>3
=============================================================================
