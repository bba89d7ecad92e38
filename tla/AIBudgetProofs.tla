--------------------------- MODULE AIBudgetProofs ---------------------------
(***************************************************************************)
(* Proofs about AIBudget for every finite set of call sites and every cost, *)
(* cap, window and re-arm gap that satisfy the module's assumptions.        *)
(***************************************************************************)
EXTENDS AIBudget, NatSets, SequenceTheorems, FiniteSetTheorems

-----------------------------------------------------------------------------
(* The sum of a ledger.                                                     *)

Costs(es) == [i \in 1..Len(es) |-> es[i].cost]

\* The element type of a ledger, field by field.
LEMMA EntryFields ==
  ASSUME NEW es \in Seq(Entry), NEW i \in 1..Len(es)
  PROVE  es[i] \in Entry /\ es[i].at \in Nat /\ es[i].cost \in Nat
<1>1. es[i] \in Entry
  BY ElementOfSeq
<1> QED
  BY <1>1 DEF Entry

\* totalLocked is the last partial sum of the costs.
LEMMA TotalIsPrefixSum ==
  ASSUME NEW es \in Seq(Entry)
  PROVE  \E g : IsPrefixSum(g, Costs(es), Len(es)) /\ totalLocked(es) = g[Len(es)]
<1> DEFINE Rec(s) == s = [n \in 0..Len(es) |->
                            IF n = 0 THEN 0 ELSE s[n - 1] + es[n].cost]
           f == CHOOSE s : Rec(s)
<1>1. Len(es) \in Nat /\ Costs(es) \in [1..Len(es) -> Int]
  <2>1. \A i \in 1..Len(es) : es[i].cost \in Nat
    BY EntryFields
  <2> QED
    BY <2>1, LenProperties DEF Costs
<1>2. PICK g : IsPrefixSum(g, Costs(es), Len(es))
  BY <1>1, PrefixSumExists
<1>3. Rec(g)
  <2>1. g \in [0..Len(es) -> Int]
    BY <1>2 DEF IsPrefixSum
  <2>2. \A n \in 0..Len(es) : g[n] = IF n = 0 THEN 0 ELSE g[n - 1] + es[n].cost
    BY <1>1, <1>2 DEF IsPrefixSum, Costs
  <2> QED
    BY <2>1, <2>2
<1>4. Rec(f)
  <2> HIDE DEF Rec
  <2> QED
    BY <1>3
<1>5. totalLocked(es) = f[Len(es)]
  BY DEF totalLocked
<1>6. IsPrefixSum(f, Costs(es), Len(es))
  <2> DEFINE S == {i \in Nat : i <= Len(es) => f[i] = g[i]}
  <2> HIDE DEF f
  <2>1. \A n \in 0..Len(es) : f[n] = IF n = 0 THEN 0 ELSE f[n - 1] + es[n].cost
    BY <1>4, <1>1
  <2>2. 0 \in S
    BY <2>1, <1>1, <1>2 DEF IsPrefixSum
  <2>3. ASSUME NEW i \in Nat, i \in S, i + 1 <= Len(es)
        PROVE  f[i + 1] = g[i + 1]
    BY <2>1, <2>3, <1>1, <1>2 DEF IsPrefixSum, Costs
  <2>4. Nat \subseteq S
    <3>1. \A i \in Nat : i \in S => i + 1 \in S
      BY <2>3
    <3> HIDE DEF S
    <3> QED
      BY <2>2, <3>1, SetInduction
  <2>5. \A i \in 0..Len(es) : f[i] = g[i]
    BY <2>4, <1>1
  <2>6. DOMAIN f = 0..Len(es)
    BY <1>4
  <2>7. f = g
    <3> HIDE DEF Rec
    <3>1. f = [n \in 0..Len(es) |-> f[n]]
      BY <1>4, <2>6 DEF Rec
    <3>2. g = [n \in 0..Len(es) |-> g[n]]
      BY <1>2 DEF IsPrefixSum
    <3> QED
      BY <3>1, <3>2, <2>5
  <2> QED
    BY <2>7, <1>2
<1> QED
  <2> HIDE DEF f
  <2> QED
    BY <1>5, <1>6

\* Every ledger but the empty one is its front and its last charge.
LEMMA TotalLast ==
  ASSUME NEW es \in Seq(Entry), es # <<>>
  PROVE  /\ Front(es) \in Seq(Entry)
         /\ Len(Front(es)) = Len(es) - 1
         /\ \A i \in 1..Len(es) - 1 : Front(es)[i] = es[i]
         /\ totalLocked(es) = totalLocked(Front(es)) + es[Len(es)].cost
<1>1. Len(es) \in Nat \ {0}
  BY EmptySeq
<1>2. /\ Front(es) \in Seq(Entry)
      /\ Len(Front(es)) = Len(es) - 1
      /\ \A i \in 1..Len(es) - 1 : Front(es)[i] = es[i]
  <2>1. PICK n \in Nat : n = Len(es) - 1
    BY <1>1
  <2>2. \A i \in 1..n : es[i] \in Entry
    BY <1>1, <2>1, EntryFields
  <2>3. /\ SubSeq(es, 1, n) \in Seq(Entry)
        /\ Len(SubSeq(es, 1, n)) = IF 1 <= n THEN n - 1 + 1 ELSE 0
        /\ \A i \in 1..n - 1 + 1 : SubSeq(es, 1, n)[i] = es[1 + i - 1]
    BY <2>2, SubSeqProperties
  <2>4. /\ SubSeq(es, 1, n) \in Seq(Entry)
        /\ Len(SubSeq(es, 1, n)) = n
        /\ \A i \in 1..n : SubSeq(es, 1, n)[i] = es[i]
    BY <2>3
  <2> QED
    BY <2>1, <2>4 DEF Front
<1>3. PICK g : IsPrefixSum(g, Costs(es), Len(es)) /\ totalLocked(es) = g[Len(es)]
  BY TotalIsPrefixSum
<1>4. PICK h : /\ IsPrefixSum(h, Costs(Front(es)), Len(Front(es)))
               /\ totalLocked(Front(es)) = h[Len(Front(es))]
  BY <1>2, TotalIsPrefixSum
<1>5. \A i \in 0..Len(es) - 1 : h[i] = g[i]
  <2>1. \A i \in 1..Len(es) - 1 : Costs(Front(es))[i] = Costs(es)[i]
    BY <1>1, <1>2 DEF Costs
  <2> QED
    BY <1>1, <1>2, <1>3, <1>4, <2>1, PrefixSumUnique, SMTT(60)
<1>6. g[Len(es)] = g[Len(es) - 1] + es[Len(es)].cost
  BY <1>1, <1>3 DEF IsPrefixSum, Costs
<1> QED
  BY <1>1, <1>2, <1>3, <1>4, <1>5, <1>6

LEMMA TotalEmpty == totalLocked(<<>>) = 0
<1>1. <<>> \in Seq(Entry) /\ Len(<<>>) = 0
  BY EmptySeq
<1> QED
  BY <1>1, TotalIsPrefixSum DEF IsPrefixSum

\* A ledger's total is a natural number, and no suffix of it sums to more.
LEMMA TotalSuffix ==
  ASSUME NEW es \in Seq(Entry), NEW k \in 1..Len(es) + 1
  PROVE  /\ SubSeq(es, k, Len(es)) \in Seq(Entry)
         /\ totalLocked(es) \in Nat
         /\ totalLocked(SubSeq(es, k, Len(es))) \in Nat
         /\ totalLocked(SubSeq(es, k, Len(es))) <= totalLocked(es)
<1> DEFINE fs == SubSeq(es, k, Len(es))
<1>1. Len(es) \in Nat
  BY LenProperties
<1>2. /\ fs \in Seq(Entry)
      /\ Len(fs) = Len(es) + 1 - k
      /\ \A i \in 1..Len(fs) : fs[i] = es[k + i - 1]
  <2>1. \A i \in k..Len(es) : es[i] \in Entry
    BY <1>1, EntryFields
  <2> QED
    BY <1>1, <2>1, SubSeqProperties
<1> HIDE DEF fs
<1>3. PICK g : IsPrefixSum(g, Costs(es), Len(es)) /\ totalLocked(es) = g[Len(es)]
  BY TotalIsPrefixSum
<1>4. PICK h : IsPrefixSum(h, Costs(fs), Len(fs)) /\ totalLocked(fs) = h[Len(fs)]
  BY <1>2, TotalIsPrefixSum
<1>5. \A i \in 0..Len(es) : g[i] \in Nat
  <2> DEFINE S == {i \in Nat : i <= Len(es) => g[i] \in Nat}
  <2>1. 0 \in S
    BY <1>3 DEF IsPrefixSum
  <2>2. ASSUME NEW i \in Nat, i \in S, i + 1 <= Len(es)
        PROVE  g[i + 1] \in Nat
    <3>1. es[i + 1].cost \in Nat
      BY <1>1, <2>2, EntryFields
    <3> QED
      BY <1>1, <1>3, <2>2, <3>1 DEF IsPrefixSum, Costs
  <2>3. Nat \subseteq S
    <3>1. \A i \in Nat : i \in S => i + 1 \in S
      BY <2>2
    <3> HIDE DEF S
    <3> QED
      BY <2>1, <3>1, SetInduction
  <2> QED
    BY <1>1, <2>3
<1>6. \A i \in 0..Len(fs) : h[i] = g[k + i - 1] - g[k - 1]
  <2> DEFINE S == {i \in Nat : i <= Len(fs) => h[i] = g[k + i - 1] - g[k - 1]}
  <2>1. 0 \in S
    BY <1>1, <1>4, <1>5, SMTT(60) DEF IsPrefixSum
  <2>2. ASSUME NEW i \in Nat, i \in S, i + 1 <= Len(fs)
        PROVE  h[i + 1] = g[k + i] - g[k - 1]
    <3>0. i + 1 \in 1..Len(fs) /\ k + i \in 1..Len(es) /\ k + (i + 1) - 1 = k + i
      BY <1>1, <1>2, <2>2
    <3>1. h[i + 1] = h[i] + fs[i + 1].cost
      <4>1. h[i + 1] = h[(i + 1) - 1] + Costs(fs)[i + 1]
        BY <1>4, <3>0 DEF IsPrefixSum
      <4> QED
        BY <3>0, <4>1 DEF Costs
    <3>2. g[k + i] = g[k + i - 1] + es[k + i].cost
      BY <1>3, <3>0 DEF IsPrefixSum, Costs
    <3>3. fs[i + 1] = es[k + i] /\ es[k + i].cost \in Nat
      BY <1>2, <3>0, EntryFields
    <3>4. g[k + i - 1] \in Nat /\ g[k - 1] \in Nat
      BY <1>1, <1>2, <1>5, <2>2
    <3> QED
      BY <2>2, <3>1, <3>2, <3>3, <3>4, SMTT(60)
  <2>3. Nat \subseteq S
    <3>1. \A i \in Nat : i \in S => i + 1 \in S
      BY <1>1, <2>2
    <3> HIDE DEF S
    <3> QED
      BY <2>1, <3>1, SetInduction
  <2> QED
    BY <1>1, <1>2, <2>3
<1>7. /\ totalLocked(fs) = g[Len(es)] - g[k - 1]
      /\ g[k - 1] \in Nat /\ g[Len(es)] \in Nat
  BY <1>1, <1>2, <1>4, <1>5, <1>6
<1>8. h[Len(fs)] \in Nat
  <2>1. h[Len(fs)] \in Int
    BY <1>1, <1>2, <1>4, SMTT(60) DEF IsPrefixSum
  <2> DEFINE S == {i \in Nat : i <= Len(fs) => h[i] \in Nat}
  <2>2. 0 \in S
    BY <1>4 DEF IsPrefixSum
  <2>3. ASSUME NEW i \in Nat, i \in S, i + 1 <= Len(fs)
        PROVE  h[i + 1] \in Nat
    <3>1. fs[i + 1].cost \in Nat
      BY <1>1, <1>2, <2>3, EntryFields
    <3> QED
      BY <1>1, <1>2, <1>4, <2>3, <3>1, SMTT(60) DEF IsPrefixSum, Costs
  <2>4. Nat \subseteq S
    <3>1. \A i \in Nat : i \in S => i + 1 \in S
      BY <2>3
    <3> HIDE DEF S
    <3> QED
      BY <2>2, <3>1, SetInduction
  <2> QED
    BY <1>1, <1>2, <2>4
<1> QED
  BY <1>2, <1>3, <1>4, <1>7, <1>8 DEF fs

-----------------------------------------------------------------------------
(* The tracker's helpers.                                                   *)

\* gcLocked returns a suffix: all it drops is expired, and so is nothing of
\* what is left at the front.
LEMMA GcLockedSuffix ==
  ASSUME NEW es \in Seq(Entry), NEW t
  PROVE  \E k \in 1..Len(es) + 1 :
           /\ gcLocked(es, t) = SubSeq(es, k, Len(es))
           /\ \A i \in 1..k - 1 : Expired(es[i], t)
           /\ k <= Len(es) => ~Expired(es[k], t)
<1> DEFINE Live == {k \in 1..Len(es) + 1 : k <= Len(es) => ~Expired(es[k], t)}
           P(k) == /\ \A i \in 1..k - 1 : Expired(es[i], t)
                   /\ k <= Len(es) => ~Expired(es[k], t)
<1>1. Len(es) \in Nat
  BY LenProperties
<1>2. PICK k \in Live : \A j \in Live : k <= j
  <2>1. Len(es) + 1 \in Live /\ Live \subseteq Nat
    BY <1>1
  <2> HIDE DEF Live
  <2> QED
    BY <2>1, LeastNat
<1>3. k \in 1..Len(es) + 1 /\ P(k)
  <2>1. ASSUME NEW i \in 1..k - 1
        PROVE  Expired(es[i], t)
    <3>1. i \in 1..Len(es) + 1 /\ i <= Len(es) /\ ~(k <= i)
      BY <1>1, <1>2
    <3>2. i \notin Live
      BY <1>2, <3>1
    <3> QED
      BY <3>1, <3>2
  <2> QED
    BY <1>2, <2>1
<1>4. FirstLive(es, t) = CHOOSE j \in 1..Len(es) + 1 : P(j)
  BY DEF FirstLive
<1>5. FirstLive(es, t) \in 1..Len(es) + 1 /\ P(FirstLive(es, t))
  <2> HIDE DEF P
  <2> QED
    BY <1>3, <1>4
<1> QED
  BY <1>5 DEF gcLocked

\* Allow's charge: the old ledger and one charge behind it.
LEMMA ChargeProperties ==
  ASSUME NEW es \in Seq(Entry), NEW t \in Nat, NEW c \in Nat
  PROVE  /\ Charge(es, t, c) \in Seq(Entry)
         /\ Len(Charge(es, t, c)) = Len(es) + 1
         /\ \A i \in 1..Len(es) : Charge(es, t, c)[i] = es[i]
         /\ Charge(es, t, c)[Len(es) + 1] = [at |-> t, cost |-> c]
         /\ Charge(es, t, c) # <<>>
         /\ Front(Charge(es, t, c)) = es
         /\ totalLocked(Charge(es, t, c)) = totalLocked(es) + c
<1> DEFINE fs == Charge(es, t, c)
<1>1. [at |-> t, cost |-> c] \in Entry
  BY DEF Entry
<1>2. /\ fs \in Seq(Entry)
      /\ Len(fs) = Len(es) + 1
      /\ \A i \in 1..Len(es) : fs[i] = es[i]
      /\ fs[Len(es) + 1] = [at |-> t, cost |-> c]
  BY <1>1, AppendProperties DEF Charge
<1> HIDE DEF fs
<1>3. Len(es) \in Nat
  BY LenProperties
<1>4. fs # <<>>
  BY <1>2, <1>3, EmptySeq
<1>5. Front(fs) = es
  <2>1. /\ Front(fs) \in Seq(Entry)
        /\ Len(Front(fs)) = Len(es)
        /\ \A i \in 1..Len(es) : Front(fs)[i] = es[i]
    <3>1. /\ Front(fs) \in Seq(Entry)
          /\ Len(Front(fs)) = Len(fs) - 1
          /\ \A i \in 1..Len(fs) - 1 : Front(fs)[i] = fs[i]
      BY <1>2, <1>4, TotalLast
    <3>2. Len(fs) - 1 = Len(es)
      BY <1>2, <1>3
    <3> QED
      BY <1>2, <3>1, <3>2
  <2> QED
    BY <2>1, SeqEqual
<1>6. totalLocked(fs) = totalLocked(Front(fs)) + fs[Len(fs)].cost
  BY <1>2, <1>4, TotalLast
<1> QED
  BY <1>2, <1>4, <1>5, <1>6 DEF fs

LEMMA ChargeTotal ==
  ASSUME NEW es \in Seq(Entry), NEW t \in Nat, NEW c \in Nat
  PROVE  totalLocked(Charge(es, t, c)) = totalLocked(es) + c
  BY ChargeProperties, Zenon

\* Reconcile's rewriting of the last charge.
LEMMA ReconcileProperties ==
  ASSUME NEW es \in Seq(Entry), NEW t \in Nat, NEW c \in Nat, es # <<>>
  PROVE  /\ ReconcileLast(es, t, c) \in Seq(Entry)
         /\ Len(ReconcileLast(es, t, c)) = Len(es)
         /\ \A i \in 1..Len(es) - 1 : ReconcileLast(es, t, c)[i] = es[i]
         /\ ReconcileLast(es, t, c)[Len(es)] = [es[Len(es)] EXCEPT !.cost = c]
         /\ ReconcileLast(es, t, c) # <<>>
         /\ Front(ReconcileLast(es, t, c)) = Front(es)
         /\ totalLocked(ReconcileLast(es, t, c)) = totalLocked(Front(es)) + c
<1> DEFINE fs == ReconcileLast(es, t, c)
           e == [es[Len(es)] EXCEPT !.cost = c]
<1>1. Len(es) \in Nat \ {0} /\ Len(es) \in 1..Len(es)
  BY EmptySeq
<1>2. e \in Entry /\ e.cost = c
  <2>1. es[Len(es)] \in Entry
    BY <1>1, EntryFields
  <2> QED
    BY <2>1 DEF Entry
<1>3. fs = [es EXCEPT ![Len(es)] = e]
  BY DEF ReconcileLast
<1> HIDE DEF e
<1>4. /\ fs \in Seq(Entry)
      /\ Len(fs) = Len(es)
      /\ \A j \in 1..Len(es) : fs[j] = IF j = Len(es) THEN e ELSE es[j]
  <2> HIDE DEF fs
  <2> QED
    BY <1>1, <1>2, <1>3, ExceptSeq
<1> HIDE DEF fs
<1>5. fs # <<>>
  BY <1>1, <1>4, EmptySeq
<1>6. Front(fs) = Front(es)
  <2>1. /\ Front(fs) \in Seq(Entry) /\ Front(es) \in Seq(Entry)
        /\ Len(Front(fs)) = Len(es) - 1 /\ Len(Front(es)) = Len(es) - 1
        /\ \A i \in 1..Len(es) - 1 : Front(fs)[i] = fs[i] /\ Front(es)[i] = es[i]
    BY <1>4, <1>5, TotalLast
  <2>2. \A i \in 1..Len(es) - 1 : fs[i] = es[i]
    BY <1>1, <1>4
  <2> QED
    BY <2>1, <2>2, SeqEqual
<1>7. totalLocked(fs) = totalLocked(Front(fs)) + fs[Len(fs)].cost
  BY <1>4, <1>5, TotalLast
<1>8. fs[Len(fs)].cost = c
  BY <1>1, <1>2, <1>4
<1> QED
  BY <1>1, <1>4, <1>5, <1>6, <1>7, <1>8, SMTT(60) DEF fs, e

LEMMA LedgerTyped ==
  ASSUME NEW es \in Seq(Entry), NEW t \in Nat, NEW c \in Nat
  PROVE  /\ gcLocked(es, t) \in Seq(Entry)
         /\ totalLocked(gcLocked(es, t)) \in Nat
         /\ totalLocked(gcLocked(es, t)) <= totalLocked(es)
         /\ totalLocked(es) \in Nat
         /\ Charge(es, t, c) \in Seq(Entry)
         /\ ReconcileLast(es, t, c) \in Seq(Entry)
         /\ RollbackLast(es) \in Seq(Entry)
<1>1. /\ gcLocked(es, t) \in Seq(Entry)
      /\ totalLocked(gcLocked(es, t)) \in Nat
      /\ totalLocked(gcLocked(es, t)) <= totalLocked(es)
      /\ totalLocked(es) \in Nat
  <2>1. PICK k \in 1..Len(es) + 1 : gcLocked(es, t) = SubSeq(es, k, Len(es))
    BY GcLockedSuffix
  <2> QED
    BY <2>1, TotalSuffix
<1>2. Charge(es, t, c) \in Seq(Entry)
  BY ChargeProperties
<1>3. ReconcileLast(es, t, c) \in Seq(Entry)
  BY <1>2, ReconcileProperties DEF ReconcileLast
<1>4. RollbackLast(es) \in Seq(Entry)
  BY TotalLast DEF RollbackLast
<1> QED
  BY <1>1, <1>2, <1>3, <1>4

LEMMA CheckAndFireTyped ==
  ASSUME NEW f \in [Tiers -> Nat \cup {Never}], NEW total, NEW t \in Nat
  PROVE  checkAndFireThresholdLocked(f, total, t) \in [Tiers -> Nat \cup {Never}]
  BY DEF checkAndFireThresholdLocked

-----------------------------------------------------------------------------
(* Type correctness.                                                        *)

THEOREM Typing == Spec => []TypeOK
<1> USE SitesAssumption, CostAssumption, TimeAssumption, BoundAssumption
<1>1. Init => TypeOK
  <2>1. <<>> \in Seq(Entry)
    BY EmptySeq
  <2> QED
    BY <2>1 DEF Init, TypeOK, Phases
<1>2. TypeOK /\ [Next]_vars => TypeOK'
  <2> SUFFICES ASSUME TypeOK, [Next]_vars
               PROVE  TypeOK'
    OBVIOUS
  <2> now \in Nat
    BY DEF TypeOK
  <2> USE DEF TypeOK, tracker, overrides, history
  <2>1. ASSUME NEW c \in CallSites, AllowAdmitted(c)
        PROVE  TypeOK'
    <3>1. /\ gcLocked(entries, now) \in Seq(Entry)
          /\ totalLocked(gcLocked(entries, now)) \in Nat
          /\ totalLocked(gcLocked(entries, now)) <= totalLocked(entries)
          /\ totalLocked(entries) \in Nat
      BY LedgerTyped
    <3>2. entries' \in Seq(Entry)
      BY <2>1, <3>1, LedgerTyped DEF AllowAdmitted
    <3>3. fired' \in [Tiers -> Nat \cup {Never}]
      BY <2>1, CheckAndFireTyped DEF AllowAdmitted
    <3>4. expired' \in Nat /\ lastAlert' \in [Tiers -> Nat \cup {Never}]
      BY <2>1, <3>1 DEF AllowAdmitted, NoteExpired, NoteAlerts
    <3>5. /\ phase' \in [CallSites -> Phases] /\ started' \in [CallSites -> Nat]
          /\ calls' \in 0..MaxCalls
          /\ seen' \subseteq {"overlap", "overrun", "scorerFailure"}
      BY <2>1 DEF AllowAdmitted, Phases
    <3> QED
      BY <2>1, <3>2, <3>3, <3>4, <3>5 DEF AllowAdmitted
  <2>2. ASSUME NEW c \in CallSites, AllowDenied(c)
        PROVE  TypeOK'
    <3>1. /\ gcLocked(entries, now) \in Seq(Entry)
          /\ totalLocked(gcLocked(entries, now)) \in Nat
          /\ totalLocked(gcLocked(entries, now)) <= totalLocked(entries)
          /\ totalLocked(entries) \in Nat
      BY LedgerTyped
    <3>2. fired' \in [Tiers -> Nat \cup {Never}]
      BY <2>2, CheckAndFireTyped DEF AllowDenied
    <3>3. expired' \in Nat /\ lastAlert' \in [Tiers -> Nat \cup {Never}]
      BY <2>2, <3>1 DEF AllowDenied, NoteExpired, NoteAlerts
    <3> QED
      BY <2>2, <3>1, <3>2, <3>3 DEF AllowDenied
  <2>3. ASSUME Snapshot
        PROVE  /\ entries' \in Seq(Entry) /\ expired' \in Nat
               /\ UNCHANGED <<capUSD, fired>>
    <3>1. /\ gcLocked(entries, now) \in Seq(Entry)
          /\ totalLocked(gcLocked(entries, now)) \in Nat
          /\ totalLocked(gcLocked(entries, now)) <= totalLocked(entries)
          /\ totalLocked(entries) \in Nat
      BY LedgerTyped
    <3> QED
      BY <2>3, <3>1 DEF Snapshot, NoteExpired
  <2>4. ASSUME NEW c \in CallSites, ReasonerGate(c)
        PROVE  TypeOK'
    <3>1. phase' \in [CallSites -> Phases]
      BY <2>4 DEF ReasonerGate, Phases
    <3> QED
      BY <2>3, <2>4, <3>1 DEF ReasonerGate
  <2>5. CASE ReadSnapshot
    BY <2>3, <2>5 DEF ReadSnapshot
  <2>14. ASSUME NEW c \in CallSites, SkipLLM(c)
         PROVE  TypeOK'
    <3>1. phase' \in [CallSites -> Phases]
      BY <2>14 DEF SkipLLM, Phases
    <3> QED
      BY <2>14, <3>1 DEF SkipLLM, history
  <2>6. ASSUME NEW c \in CallSites, NEW es \in Seq(Entry), Close(c, es),
               reported' \in Nat, seen' \subseteq {"overlap", "overrun", "scorerFailure"}
        PROVE  TypeOK'
    <3>1. phase' \in [CallSites -> Phases] /\ started' \in [CallSites -> Nat]
      BY <2>6 DEF Close, Phases
    <3> QED
      BY <2>6, <3>1 DEF Close
  <2>7. ASSUME NEW c \in CallSites, NEW a \in Actuals, Succeed(c, a)
        PROVE  TypeOK'
    <3>1. ReconcileLast(entries, now, a) \in Seq(Entry)
      BY LedgerTyped
    <3>2. reported' \in Nat /\ seen' \subseteq {"overlap", "overrun", "scorerFailure"}
      BY <2>7 DEF Succeed
    <3> QED
      BY <2>6, <2>7, <3>1, <3>2 DEF Succeed
  <2>8. ASSUME NEW c \in CallSites,
               Refused(c) \/ Fail(c) \/ ScorerReconcileAfterRollback(c)
        PROVE  TypeOK'
    <3>1. /\ ReconcileLast(entries, now, 0) \in Seq(Entry)
          /\ RollbackLast(entries) \in Seq(Entry)
      BY LedgerTyped
    <3>2. reported' \in Nat /\ seen' \subseteq {"overlap", "overrun", "scorerFailure"}
      BY <2>8 DEF Refused, Fail, ScorerReconcileAfterRollback
    <3> QED
      BY <2>6, <2>8, <3>1, <3>2 DEF Refused, Fail, ScorerReconcileAfterRollback
  <2>9. ASSUME NEW c \in CallSites, ScorerRollback(c)
        PROVE  TypeOK'
    <3>1. RollbackLast(entries) \in Seq(Entry)
      BY LedgerTyped
    <3>2. phase' \in [CallSites -> Phases]
      BY <2>9 DEF ScorerRollback, Phases
    <3> QED
      BY <2>9, <3>1, <3>2 DEF ScorerRollback
  <2>10. ASSUME NEW o \in Owners, NEW new \in CapRequests, SetCapUSD(o, new)
         PROVE  TypeOK'
    <3>1. CASE ValidCap(new)
      <4>1. new \in 1..HardCeilingUSD
        BY <3>1 DEF ValidCap
      <4>2. /\ fired' \in [Tiers -> Nat \cup {Never}]
            /\ lastAlert' \in [Tiers -> Nat \cup {Never}]
            /\ override' \in [Owners -> 0..HardCeilingUSD]
            /\ capUSD' = new
            /\ capHigh' \in new..HardCeilingUSD
        <5>1. /\ fired' = [i \in Tiers |-> Never] /\ lastAlert' = [i \in Tiers |-> Never]
              /\ override' = [override EXCEPT ![o] = new]
              /\ capUSD' = new
              /\ capHigh' = IF new > capHigh THEN new ELSE capHigh
          BY <2>10, <3>1 DEF SetCapUSD
        <5>2. capHigh' \in new..HardCeilingUSD
          BY <4>1, <5>1
        <5> QED
          BY <4>1, <5>1, <5>2
      <4> QED
        BY <2>10, <4>1, <4>2 DEF SetCapUSD
    <3>2. CASE ~ValidCap(new)
      BY <2>10, <3>2 DEF SetCapUSD
    <3> QED
      BY <3>1, <3>2
  <2>11. ASSUME NEW o \in Owners, RecordAIBudgetOverride(o)
         PROVE  TypeOK'
    <3>1. override[o] \in 1..HardCeilingUSD
      BY <2>11 DEF RecordAIBudgetOverride
    <3>2. /\ audit' \subseteq 1..HardCeilingUSD /\ lostAudit' \subseteq 1..HardCeilingUSD
          /\ override' \in [Owners -> 0..HardCeilingUSD]
      <4>1. audit' \in {audit, audit \cup {override[o]}}
        BY <2>11 DEF RecordAIBudgetOverride
      <4>2. lostAudit' \in {lostAudit, lostAudit \cup {override[o]}}
        BY <2>11 DEF RecordAIBudgetOverride
      <4>3. override' = [override EXCEPT ![o] = 0]
        BY <2>11 DEF RecordAIBudgetOverride
      <4> QED
        BY <3>1, <4>1, <4>2, <4>3
    <3> QED
      BY <2>11, <3>2 DEF RecordAIBudgetOverride
  <2>12. CASE Tick
    BY <2>12 DEF Tick
  <2>13. CASE UNCHANGED vars
    BY <2>13 DEF vars
  <2> QED
    BY <2>1, <2>2, <2>4, <2>5, <2>7, <2>8, <2>9, <2>10, <2>11, <2>12, <2>13,
       <2>14
    DEF Next, Call
<1> QED
  BY <1>1, <1>2, PTL DEF Spec

-----------------------------------------------------------------------------
(* The ledger stays sorted, so the prefix scan of gcLocked is exact.        *)

Ordered(es, t) ==
  \A i, j \in 1..Len(es) : i <= j => es[i].at <= es[j].at /\ es[j].at <= t

\* The suffix gcLocked cuts: element j of it is element k + j - 1 of es.
LEMMA GcLockedElements ==
  ASSUME NEW es \in Seq(Entry), NEW t \in Nat
  PROVE  \E k \in 1..Len(es) + 1 :
           /\ Len(gcLocked(es, t)) = Len(es) + 1 - k
           /\ \A j \in 1..Len(es) + 1 - k : gcLocked(es, t)[j] = es[k + j - 1]
           /\ \A i \in 1..k - 1 : Expired(es[i], t)
           /\ k <= Len(es) => ~Expired(es[k], t)
<1>1. PICK k \in 1..Len(es) + 1 :
        /\ gcLocked(es, t) = SubSeq(es, k, Len(es))
        /\ \A i \in 1..k - 1 : Expired(es[i], t)
        /\ k <= Len(es) => ~Expired(es[k], t)
  BY GcLockedSuffix
<1>2. PICK n \in Nat : n = Len(es)
  BY LenProperties
<1>3. \A i \in k..n : es[i] \in Entry
  BY <1>2, EntryFields
<1>4. /\ Len(SubSeq(es, k, n)) = IF k <= n THEN n - k + 1 ELSE 0
      /\ \A j \in 1..n - k + 1 : SubSeq(es, k, n)[j] = es[k + j - 1]
  BY <1>3, SubSeqProperties
<1>5. /\ Len(SubSeq(es, k, n)) = n + 1 - k
      /\ \A j \in 1..n + 1 - k : SubSeq(es, k, n)[j] = es[k + j - 1]
  <2>1. n - k + 1 = n + 1 - k
    BY <1>2
  <2>2. Len(SubSeq(es, k, n)) = n + 1 - k
    BY <1>2, <1>4
  <2> QED
    BY <1>4, <2>1, <2>2
<1> QED
  BY <1>1, <1>2, <1>5

LEMMA OrderedKept ==
  ASSUME NEW es \in Seq(Entry), NEW t \in Nat, NEW c \in Nat, Ordered(es, t)
  PROVE  /\ Ordered(gcLocked(es, t), t)
         /\ Ordered(Charge(es, t, c), t)
         /\ Ordered(ReconcileLast(es, t, c), t)
         /\ Ordered(RollbackLast(es), t)
<1>1. Len(es) \in Nat
  BY LenProperties
<1>2. Ordered(gcLocked(es, t), t)
  <2>1. PICK k \in 1..Len(es) + 1 :
          /\ Len(gcLocked(es, t)) = Len(es) + 1 - k
          /\ \A j \in 1..Len(es) + 1 - k : gcLocked(es, t)[j] = es[k + j - 1]
    BY GcLockedElements
  <2>2. ASSUME NEW i \in 1..Len(es) + 1 - k, NEW j \in 1..Len(es) + 1 - k, i <= j
        PROVE  /\ gcLocked(es, t)[i].at <= gcLocked(es, t)[j].at
               /\ gcLocked(es, t)[j].at <= t
    <3>1. k + i - 1 \in 1..Len(es) /\ k + j - 1 \in 1..Len(es) /\ k + i - 1 <= k + j - 1
      BY <1>1, <2>2
    <3> QED
      BY <2>1, <3>1 DEF Ordered
  <2> QED
    BY <2>1, <2>2 DEF Ordered
<1>3. Ordered(Charge(es, t, c), t)
  <2> DEFINE fs == Charge(es, t, c)
  <2>1. /\ Len(fs) = Len(es) + 1
        /\ \A i \in 1..Len(es) : fs[i] = es[i]
        /\ fs[Len(es) + 1].at = t
    <3>1. /\ Len(fs) = Len(es) + 1
          /\ \A i \in 1..Len(es) : fs[i] = es[i]
          /\ fs[Len(es) + 1] = [at |-> t, cost |-> c]
      BY ChargeProperties
    <3> HIDE DEF fs
    <3> QED
      BY <3>1
  <2> HIDE DEF fs
  <2>2. ASSUME NEW i \in 1..Len(fs), NEW j \in 1..Len(fs), i <= j
        PROVE  fs[i].at <= fs[j].at /\ fs[j].at <= t
    <3>1. CASE j = Len(es) + 1
      <4>1. i \in 1..Len(es) \/ i = Len(es) + 1
        BY <1>1, <2>1
      <4> QED
        BY <1>1, <2>1, <3>1, <4>1 DEF Ordered
    <3>2. CASE j # Len(es) + 1
      <4>1. i \in 1..Len(es) /\ j \in 1..Len(es)
        BY <1>1, <2>1, <2>2, <3>2
      <4> QED
        BY <2>1, <2>2, <4>1 DEF Ordered
    <3> QED
      BY <3>1, <3>2
  <2> QED
    BY <2>2 DEF Ordered, fs
<1>4. ASSUME es # <<>>
      PROVE  Ordered(ReconcileLast(es, t, c), t)
  <2> DEFINE fs == ReconcileLast(es, t, c)
  <2>1. /\ Len(fs) = Len(es)
        /\ \A i \in 1..Len(es) - 1 : fs[i] = es[i]
        /\ fs[Len(es)] = [es[Len(es)] EXCEPT !.cost = c]
    BY <1>4, ReconcileProperties
  <2>2. \A i \in 1..Len(es) : fs[i].at = es[i].at
    <3>1. Len(es) \in 1..Len(es)
      BY <1>1, <1>4, EmptySeq
    <3>2. es[Len(es)] \in Entry
      BY <3>1, EntryFields
    <3>3. fs[Len(es)].at = es[Len(es)].at
      BY <2>1, <3>2 DEF Entry
    <3>4. \A i \in 1..Len(es) : i = Len(es) \/ i \in 1..Len(es) - 1
      BY <1>1
    <3> HIDE DEF fs
    <3> QED
      BY <2>1, <3>3, <3>4
  <2> HIDE DEF fs
  <2>3. Ordered(fs, t)
    BY <2>1, <2>2 DEF Ordered
  <2> QED
    BY <2>3 DEF fs
<1>5. ASSUME es # <<>>
      PROVE  Ordered(Front(es), t)
  <2>1. /\ Len(Front(es)) = Len(es) - 1
        /\ \A i \in 1..Len(es) - 1 : Front(es)[i] = es[i]
    BY <1>5, TotalLast
  <2>2. 1..Len(es) - 1 \subseteq 1..Len(es)
    BY <1>1
  <2> QED
    BY <2>1, <2>2 DEF Ordered
<1>6. Ordered(ReconcileLast(es, t, c), t)
  BY <1>3, <1>4 DEF ReconcileLast
<1> QED
  BY <1>2, <1>3, <1>5, <1>6 DEF RollbackLast

LEMMA OrderedStep == TypeOK /\ EntriesOrdered /\ [Next]_vars => EntriesOrdered'
<1> SUFFICES ASSUME TypeOK, EntriesOrdered, [Next]_vars
             PROVE  EntriesOrdered'
  OBVIOUS
<1> USE SitesAssumption, CostAssumption, TimeAssumption, BoundAssumption
<1>1. entries \in Seq(Entry) /\ now \in Nat /\ Ordered(entries, now)
  BY DEF TypeOK, EntriesOrdered, Ordered
<1>2. /\ Ordered(gcLocked(entries, now), now)
      /\ gcLocked(entries, now) \in Seq(Entry)
      /\ Ordered(Charge(gcLocked(entries, now), now, Est), now)
      /\ Ordered(ReconcileLast(entries, now, 0), now)
      /\ Ordered(RollbackLast(entries), now)
  BY <1>1, OrderedKept, LedgerTyped
<1>3. \A a \in Actuals : Ordered(ReconcileLast(entries, now, a), now)
  BY <1>1, OrderedKept
<1>4. ASSUME Ordered(entries', now), now' = now
      PROVE  EntriesOrdered'
  BY <1>4 DEF EntriesOrdered, Ordered
<1>5. CASE \E c \in CallSites : AllowAdmitted(c) \/ AllowDenied(c)
  BY <1>2, <1>4, <1>5 DEF AllowAdmitted, AllowDenied
<1>6. CASE (\E c \in CallSites : ReasonerGate(c)) \/ ReadSnapshot
  BY <1>2, <1>4, <1>6 DEF ReasonerGate, ReadSnapshot, Snapshot
<1>7. CASE \E c \in CallSites, a \in Actuals : Succeed(c, a)
  BY <1>3, <1>4, <1>7 DEF Succeed, Close
<1>8. CASE \E c \in CallSites : \/ SkipLLM(c) \/ Refused(c) \/ Fail(c)
                                \/ ScorerRollback(c)
                                \/ ScorerReconcileAfterRollback(c)
  BY <1>1, <1>2, <1>4, <1>8
  DEF SkipLLM, tracker, Refused, Fail, ScorerRollback, ScorerReconcileAfterRollback, Close
<1>9. CASE \E o \in Owners : \/ RecordAIBudgetOverride(o)
                             \/ \E new \in CapRequests : SetCapUSD(o, new)
  BY <1>1, <1>4, <1>9 DEF RecordAIBudgetOverride, SetCapUSD, tracker
<1>10. CASE Tick
  <2>1. entries' = entries /\ now' = now + 1
    BY <1>10 DEF Tick, tracker
  <2>2. \A i \in 1..Len(entries) : entries[i].at \in Nat
    BY <1>1, EntryFields
  <2> QED
    BY <1>1, <2>1, <2>2 DEF EntriesOrdered, Ordered
<1>11. CASE UNCHANGED vars
  BY <1>1, <1>4, <1>11 DEF vars, tracker
<1> QED
  BY <1>5, <1>6, <1>7, <1>8, <1>9, <1>10, <1>11 DEF Next, Call

\* The slice stays sorted by charge time, whoever's charge a Reconcile or
\* Rollback lands on.
THEOREM Sorted == Spec => []EntriesOrdered
<1>1. Init => EntriesOrdered
  BY EmptySeq DEF Init, EntriesOrdered
<1> QED
  BY <1>1, OrderedStep, Typing, PTL DEF Spec

\* On a sorted ledger the prefix scan is exact: it leaves no expired charge and
\* drops no live one.
LEMMA GcExactOnSorted ==
  ASSUME NEW es \in Seq(Entry), NEW t \in Nat, Ordered(es, t)
  PROVE  /\ \A i \in 1..Len(gcLocked(es, t)) : ~Expired(gcLocked(es, t)[i], t)
         /\ \A i \in 1..Len(es) :
              ~Expired(es[i], t) =>
                \E j \in 1..Len(gcLocked(es, t)) : gcLocked(es, t)[j] = es[i]
<1> DEFINE fs == gcLocked(es, t)
<1>1. PICK n \in Nat : n = Len(es)
  BY LenProperties
<1>2. PICK k \in 1..n + 1 :
        /\ Len(fs) = n + 1 - k
        /\ \A j \in 1..n + 1 - k : fs[j] = es[k + j - 1]
        /\ \A i \in 1..k - 1 : Expired(es[i], t)
        /\ k <= n => ~Expired(es[k], t)
  BY <1>1, GcLockedElements
<1>3. \A i \in 1..n : es[i].at \in Nat
  BY <1>1, EntryFields
<1> HIDE DEF fs
<1>4. ASSUME NEW i \in 1..Len(fs)
      PROVE  ~Expired(fs[i], t)
  <2>1. k \in 1..n /\ k + i - 1 \in 1..n /\ k <= k + i - 1
    BY <1>2, <1>4
  <2>2. es[k].at <= es[k + i - 1].at
    BY <1>1, <2>1 DEF Ordered
  <2>3. fs[i] = es[k + i - 1] /\ ~Expired(es[k], t)
    BY <1>2, <2>1
  <2> QED
    BY <1>3, <2>1, <2>2, <2>3, TimeAssumption, SMTT(60) DEF Expired
<1>5. ASSUME NEW i \in 1..n, ~Expired(es[i], t)
      PROVE  \E j \in 1..Len(fs) : fs[j] = es[i]
  <2>1. i \notin 1..k - 1
    BY <1>2, <1>5
  <2>2. PICK j \in 1..n + 1 - k : k + j - 1 = i
    <3>1. i - k + 1 \in 1..n + 1 - k /\ k + (i - k + 1) - 1 = i
      BY <1>2, <1>5, <2>1
    <3> QED
      BY <3>1
  <2> QED
    BY <1>2, <2>2
<1> QED
  BY <1>1, <1>4, <1>5 DEF fs

\* No tracker read counts a charge that left the window, and none drops a
\* charge that is still inside.
THEOREM WindowExact == Spec => GcExact
<1>1. TypeOK /\ EntriesOrdered =>
        ((\E c \in CallSites : AllowDenied(c) \/ ReasonerGate(c)) \/ ReadSnapshot =>
           /\ \A i \in 1..Len(entries') : ~Expired(entries'[i], now)
           /\ \A i \in 1..Len(entries) :
                ~Expired(entries[i], now) =>
                  \E j \in 1..Len(entries') : entries'[j] = entries[i])
  <2> SUFFICES ASSUME TypeOK, EntriesOrdered,
                      (\E c \in CallSites : AllowDenied(c) \/ ReasonerGate(c)) \/ ReadSnapshot
               PROVE  /\ \A i \in 1..Len(entries') : ~Expired(entries'[i], now)
                      /\ \A i \in 1..Len(entries) :
                           ~Expired(entries[i], now) =>
                             \E j \in 1..Len(entries') : entries'[j] = entries[i]
    OBVIOUS
  <2>1. entries' = gcLocked(entries, now)
    BY DEF AllowDenied, ReasonerGate, ReadSnapshot, Snapshot
  <2>2. entries \in Seq(Entry) /\ now \in Nat /\ Ordered(entries, now)
    BY DEF TypeOK, EntriesOrdered, Ordered
  <2> QED
    BY <2>1, <2>2, GcExactOnSorted
<1> QED
  BY <1>1, Typing, Sorted, PTL DEF GcExact
-----------------------------------------------------------------------------
(* The ledger covers the spend.                                             *)

Quiet == seen \cap {"overrun", "scorerFailure"} = {}

\* While no call overran its estimate and no scorer call failed, every charge
\* is at most an estimate: whichever charge a Reconcile or Rollback hits, it
\* takes no more out than the closing call had put in.
LedgerInv ==
  Quiet =>
    /\ \A c \in CallSites : phase[c] # "rolledback"
    /\ \A i \in 1..Len(entries) : entries[i].cost <= Est
    /\ totalLocked(entries) + expired >= reported + Est * Cardinality(Reserved)

\* The estimates of the open calls, before and after one of them opens, moves
\* on or closes.
LEMMA ReservedKept ==
  ASSUME TypeOK, NEW c \in CallSites, NEW p \in Phases,
         phase' = [phase EXCEPT ![c] = p]
  PROVE  LET open == {"admitted", "inflight", "refused"}
             owed == Est * Cardinality(Reserved)
             owed1 == Est * Cardinality(Reserved')
         IN /\ owed \in Nat /\ owed1 \in Nat
            /\ phase[c] \notin open /\ p \in open => owed1 = owed + Est
            /\ phase[c] \in open /\ p \in open => owed1 = owed
            /\ phase[c] \in open /\ p \notin open => owed = owed1 + Est
<1> DEFINE open == {"admitted", "inflight", "refused"}
           n == Cardinality(Reserved)
           m == Cardinality(Reserved')
<1> USE SitesAssumption, CostAssumption
<1>1. /\ IsFiniteSet(Reserved) /\ IsFiniteSet(Reserved')
      /\ n \in Nat /\ m \in Nat
  <2>1. Reserved \subseteq CallSites /\ Reserved' \subseteq CallSites
    BY DEF Reserved
  <2> QED
    BY <2>1, FS_Subset, FS_CardinalityType
<1>2. \A d \in CallSites : phase'[d] = IF d = c THEN p ELSE phase[d]
  BY DEF TypeOK
<1>3. ASSUME phase[c] \notin open, p \in open
      PROVE  m = n + 1
  <2>1. Reserved' = Reserved \cup {c} /\ c \notin Reserved
    BY <1>2, <1>3 DEF Reserved
  <2> QED
    BY <1>1, <2>1, FS_AddElement
<1>4. ASSUME phase[c] \in open, p \in open
      PROVE  m = n
  <2>1. Reserved' = Reserved
    BY <1>2, <1>4 DEF Reserved
  <2> QED
    BY <2>1
<1>5. ASSUME phase[c] \in open, p \notin open
      PROVE  n = m + 1
  <2>1. Reserved' = Reserved \ {c} /\ c \in Reserved
    BY <1>2, <1>5 DEF Reserved
  <2> QED
    BY <1>1, <2>1, FS_RemoveElement
<1>6. /\ Est * n \in Nat /\ Est * m \in Nat
      /\ Est * (n + 1) = Est * n + Est
      /\ Est * (m + 1) = Est * m + Est
  <2> HIDE DEF n, m
  <2>1. \A e, k \in Nat : e * k \in Nat /\ e * (k + 1) = e * k + e
    OBVIOUS
  <2> QED
    BY <1>1, <2>1
<1> HIDE DEF n, m
<1>7. /\ Est * n \in Nat /\ Est * m \in Nat
      /\ phase[c] \notin open /\ p \in open => Est * m = Est * n + Est
      /\ phase[c] \in open /\ p \in open => Est * m = Est * n
      /\ phase[c] \in open /\ p \notin open => Est * n = Est * m + Est
  BY <1>3, <1>4, <1>5, <1>6
<1> QED
  BY <1>7 DEF n, m

\* Cutting, rewriting and dropping charges of at most Est: what it does to the
\* bound on the charges, to the total, and to the total without the last charge.
LEMMA BoundedLedger ==
  ASSUME NEW es \in Seq(Entry), NEW t \in Nat, NEW a \in Nat, a <= Est,
         \A i \in 1..Len(es) : es[i].cost <= Est
  PROVE  /\ \A i \in 1..Len(gcLocked(es, t)) : gcLocked(es, t)[i].cost <= Est
         /\ \A i \in 1..Len(Charge(es, t, a)) : Charge(es, t, a)[i].cost <= Est
         /\ \A i \in 1..Len(ReconcileLast(es, t, a)) : ReconcileLast(es, t, a)[i].cost <= Est
         /\ \A i \in 1..Len(RollbackLast(es)) : RollbackLast(es)[i].cost <= Est
         /\ totalLocked(ReconcileLast(es, t, a)) \in Nat
         /\ totalLocked(ReconcileLast(es, t, a)) + Est >= totalLocked(es) + a
         /\ totalLocked(RollbackLast(es)) \in Nat
         /\ totalLocked(RollbackLast(es)) + Est >= totalLocked(es)
<1> USE CostAssumption
<1>1. PICK n \in Nat : n = Len(es)
  BY LenProperties
<1>2. \A i \in 1..n : es[i].cost \in Nat /\ es[i].cost <= Est
  BY <1>1, EntryFields
<1>3. \A i \in 1..Len(gcLocked(es, t)) : gcLocked(es, t)[i].cost <= Est
  <2>1. PICK k \in 1..n + 1 :
          /\ Len(gcLocked(es, t)) = n + 1 - k
          /\ \A j \in 1..n + 1 - k : gcLocked(es, t)[j] = es[k + j - 1]
    BY <1>1, GcLockedElements
  <2>2. \A j \in 1..n + 1 - k : k + j - 1 \in 1..n
    BY <1>1
  <2> QED
    BY <1>2, <2>1, <2>2
<1>4. \A i \in 1..Len(Charge(es, t, a)) : Charge(es, t, a)[i].cost <= Est
  <2> DEFINE fs == Charge(es, t, a)
  <2>1. /\ Len(fs) = n + 1
        /\ \A i \in 1..n : fs[i] = es[i]
        /\ fs[n + 1] = [at |-> t, cost |-> a]
    BY <1>1, ChargeProperties
  <2> HIDE DEF fs
  <2>2. \A i \in 1..n + 1 : i \in 1..n \/ i = n + 1
    BY <1>1
  <2>3. \A i \in 1..Len(fs) : fs[i].cost <= Est
    BY <1>2, <2>1, <2>2
  <2> QED
    BY <2>3 DEF fs
<1>5. /\ totalLocked(es) \in Nat
      /\ totalLocked(ReconcileLast(es, t, a)) \in Nat
      /\ totalLocked(RollbackLast(es)) \in Nat
  BY LedgerTyped
<1>6. ASSUME es = <<>>
      PROVE  /\ ReconcileLast(es, t, a) = Charge(es, t, a)
             /\ RollbackLast(es) = es
             /\ totalLocked(es) = 0
             /\ totalLocked(Charge(es, t, a)) = a
  <2>1. totalLocked(es) = 0
    BY <1>6, TotalEmpty
  <2>2. ReconcileLast(es, t, a) = Charge(es, t, a) /\ RollbackLast(es) = es
    BY <1>6 DEF ReconcileLast, RollbackLast
  <2>3. totalLocked(Charge(es, t, a)) = totalLocked(es) + a
    BY ChargeTotal
  <2>4. totalLocked(es) + a = a
    BY <2>1
  <2> QED
    BY <2>1, <2>2, <2>3, <2>4
<1>7. ASSUME es # <<>>
      PROVE  /\ RollbackLast(es) = Front(es)
             /\ n \in 1..n
             /\ totalLocked(es) = totalLocked(Front(es)) + es[n].cost
             /\ totalLocked(ReconcileLast(es, t, a)) = totalLocked(Front(es)) + a
             /\ \A i \in 1..Len(ReconcileLast(es, t, a)) : ReconcileLast(es, t, a)[i].cost <= Est
             /\ \A i \in 1..Len(Front(es)) : Front(es)[i].cost <= Est
  <2> DEFINE fs == ReconcileLast(es, t, a)
  <2>1. n \in 1..n
    BY <1>1, <1>7, EmptySeq
  <2>2. /\ Len(fs) = n
        /\ \A i \in 1..n - 1 : fs[i] = es[i]
        /\ fs[n] = [es[n] EXCEPT !.cost = a]
        /\ totalLocked(fs) = totalLocked(Front(es)) + a
    BY <1>1, <1>7, ReconcileProperties
  <2>3. /\ Len(Front(es)) = n - 1
        /\ \A i \in 1..n - 1 : Front(es)[i] = es[i]
        /\ totalLocked(es) = totalLocked(Front(es)) + es[n].cost
    BY <1>1, <1>7, TotalLast
  <2> HIDE DEF fs
  <2>4. fs[n].cost = a
    <3>1. es[n] \in Entry
      BY <1>1, <2>1, EntryFields
    <3> QED
      BY <2>2, <3>1 DEF Entry
  <2>5. \A i \in 1..n : i \in 1..n - 1 \/ i = n
    BY <1>1
  <2>6. \A i \in 1..Len(fs) : fs[i].cost <= Est
    BY <1>2, <2>2, <2>4, <2>5
  <2>7. \A i \in 1..Len(Front(es)) : Front(es)[i].cost <= Est
    BY <1>1, <1>2, <2>3
  <2> QED
    BY <1>7, <2>1, <2>2, <2>3, <2>6, <2>7 DEF fs, RollbackLast
<1>8. CASE es = <<>>
  BY <1>3, <1>4, <1>5, <1>6, <1>8
<1>9. CASE es # <<>>
  <2>1. totalLocked(Front(es)) \in Nat
    BY <1>5, <1>7, <1>9
  <2> QED
    BY <1>2, <1>3, <1>4, <1>5, <1>7, <1>9, <2>1
<1> QED
  BY <1>8, <1>9
LEMMA LedgerInvInit == Init => LedgerInv
<1> SUFFICES ASSUME Init
             PROVE  LedgerInv
  OBVIOUS
<1> USE CostAssumption
<1>1. Reserved = {} /\ Cardinality({}) = 0
  BY FS_EmptySet DEF Init, Reserved
<1>2. Est * 0 = 0
  OBVIOUS
<1>3. Len(<<>>) = 0
  OBVIOUS
<1> QED
  BY <1>1, <1>2, <1>3, TotalEmpty DEF Init, LedgerInv

\* A tracker read: what leaves the ledger is booked as expired.
LEMMA ReadKeepsSum ==
  ASSUME TypeOK, NoteExpired
  PROVE  /\ expired' \in Nat
         /\ totalLocked(gcLocked(entries, now)) \in Nat
         /\ totalLocked(gcLocked(entries, now)) + expired' = totalLocked(entries) + expired
<1>1. /\ totalLocked(gcLocked(entries, now)) \in Nat
      /\ totalLocked(gcLocked(entries, now)) <= totalLocked(entries)
      /\ totalLocked(entries) \in Nat
  <2>1. entries \in Seq(Entry) /\ now \in Nat
    BY DEF TypeOK
  <2> QED
    BY <2>1, LedgerTyped
<1>2. expired \in Nat
  BY DEF TypeOK
<1> QED
  BY <1>1, <1>2 DEF NoteExpired

\* A call site closes a call by writing es, reporting a more than before.
LEMMA CloseKeepsLedger ==
  ASSUME TypeOK, LedgerInv, NEW c \in CallSites, NEW es \in Seq(Entry), NEW a \in Nat,
         Close(c, es),
         phase[c] \in {"inflight", "refused"},
         reported' = reported + a,
         seen \subseteq seen',
         Quiet => /\ \A i \in 1..Len(es) : es[i].cost <= Est
                  /\ totalLocked(es) \in Nat
                  /\ totalLocked(es) + Est >= totalLocked(entries) + a
  PROVE  LedgerInv'
<1> SUFFICES ASSUME Quiet'
             PROVE  /\ \A d \in CallSites : phase'[d] # "rolledback"
                    /\ \A i \in 1..Len(es) : es[i].cost <= Est
                    /\ totalLocked(es) + expired >= reported + a + Est * Cardinality(Reserved')
  BY DEF LedgerInv, Close
<1> USE CostAssumption
<1>1. Quiet
  BY DEF Quiet
<1>2. phase' = [phase EXCEPT ![c] = "idle"] /\ "idle" \in Phases
  BY DEF Close, Phases
<1>3. \A d \in CallSites : phase'[d] # "rolledback"
  BY <1>1, <1>2 DEF LedgerInv, TypeOK
<1> DEFINE owed == Est * Cardinality(Reserved)
           owed1 == Est * Cardinality(Reserved')
<1>4. owed \in Nat /\ owed1 \in Nat /\ owed = owed1 + Est
  BY <1>2, ReservedKept, Zenon
<1>5. totalLocked(entries) + expired >= reported + owed
  BY <1>1 DEF LedgerInv
<1>6. expired \in Nat /\ reported \in Nat /\ totalLocked(entries) \in Nat
  <2>1. entries \in Seq(Entry) /\ expired \in Nat /\ reported \in Nat /\ now \in Nat
    BY DEF TypeOK
  <2> QED
    BY <2>1, LedgerTyped
<1> HIDE DEF owed, owed1
<1>7. totalLocked(es) + expired >= reported + a + owed1
  <2>1. totalLocked(es) \in Nat /\ totalLocked(es) + Est >= totalLocked(entries) + a
    BY <1>1
  <2> DEFINE x == totalLocked(es)
             y == totalLocked(entries)
  <2>2. x \in Nat /\ y \in Nat /\ x + Est >= y + a /\ y + expired >= reported + owed
    BY <1>5, <1>6, <2>1
  <2> HIDE DEF x, y
  <2>3. x + expired >= reported + a + owed1
    BY <1>4, <1>6, <2>2
  <2> QED
    BY <2>3 DEF x
<1> QED
  BY <1>1, <1>3, <1>7 DEF owed1

LEMMA LedgerInvStep == TypeOK /\ LedgerInv /\ [Next]_vars => LedgerInv'
<1> SUFFICES ASSUME TypeOK, LedgerInv, [Next]_vars
             PROVE  LedgerInv'
  OBVIOUS
<1> USE CostAssumption
<1>1. /\ entries \in Seq(Entry) /\ now \in Nat
      /\ expired \in Nat /\ reported \in Nat
      /\ totalLocked(entries) \in Nat
      /\ gcLocked(entries, now) \in Seq(Entry)
  <2>1. entries \in Seq(Entry) /\ now \in Nat /\ expired \in Nat /\ reported \in Nat
    BY DEF TypeOK
  <2> QED
    BY <2>1, LedgerTyped
<1>2. ASSUME NEW c \in CallSites, AllowAdmitted(c)
      PROVE  LedgerInv'
  <2> SUFFICES ASSUME Quiet'
               PROVE  LedgerInv'
    BY DEF LedgerInv
  <2> DEFINE gc == gcLocked(entries, now)
             es == Charge(gc, now, Est)
             owed == Est * Cardinality(Reserved)
             owed1 == Est * Cardinality(Reserved')
             p == IF c \in ScorerSites THEN "admitted" ELSE "inflight"
  <2>0. Est \in Nat /\ Est <= Est
    OBVIOUS
  <2>1. Quiet
    BY <1>2 DEF Quiet, AllowAdmitted
  <2>2. /\ phase' = [phase EXCEPT ![c] = p] /\ phase[c] = "idle"
        /\ p \in {"admitted", "inflight"} /\ p \in Phases
        /\ entries' = es /\ NoteExpired /\ reported' = reported
    BY <1>2 DEF AllowAdmitted, Phases
  <2> HIDE DEF p
  <2>3. owed \in Nat /\ owed1 \in Nat /\ owed1 = owed + Est
    BY <2>2, ReservedKept, Zenon
  <2>4. totalLocked(es) = totalLocked(gc) + Est
    BY <1>1, <2>0, ChargeTotal
  <2>5. \A i \in 1..Len(es) : es[i].cost <= Est
    <3>1. \A i \in 1..Len(gc) : gc[i].cost <= Est
      BY <1>1, <2>0, <2>1, BoundedLedger DEF LedgerInv
    <3>2. gc \in Seq(Entry)
      BY <1>1
    <3> HIDE DEF gc
    <3> QED
      BY <1>1, <2>0, <3>1, <3>2, BoundedLedger
  <2>6. expired' \in Nat /\ totalLocked(gc) \in Nat
        /\ totalLocked(gc) + expired' = totalLocked(entries) + expired
    BY <2>2, ReadKeepsSum
  <2>7. totalLocked(entries) + expired >= reported + owed
    BY <2>1 DEF LedgerInv
  <2>8. \A d \in CallSites : phase'[d] # "rolledback"
    BY <2>1, <2>2 DEF LedgerInv, TypeOK
  <2> HIDE DEF owed, owed1, gc, es
  <2>9. totalLocked(es) + expired' >= reported + owed1
    BY <1>1, <2>3, <2>4, <2>6, <2>7
  <2> QED
    BY <2>2, <2>5, <2>8, <2>9 DEF LedgerInv, owed1
<1>3. ASSUME NoteExpired, entries' = gcLocked(entries, now), reported' = reported,
             seen' = seen, Cardinality(Reserved') = Cardinality(Reserved),
             Quiet => \A d \in CallSites : phase'[d] # "rolledback"
      PROVE  LedgerInv'
  <2> SUFFICES ASSUME Quiet
               PROVE  LedgerInv'
    BY <1>3 DEF LedgerInv, Quiet
  <2>1. totalLocked(entries') + expired' = totalLocked(entries) + expired
    BY <1>3, ReadKeepsSum
  <2>2. \A i \in 1..Len(entries') : entries'[i].cost <= Est
    BY <1>1, <1>3, BoundedLedger DEF LedgerInv
  <2> QED
    BY <1>3, <2>1, <2>2 DEF LedgerInv
<1>4. ASSUME NEW c \in CallSites, AllowDenied(c)
      PROVE  LedgerInv'
  <2>1. /\ NoteExpired /\ entries' = gcLocked(entries, now) /\ reported' = reported
        /\ seen' = seen /\ phase' = phase
    BY <1>4 DEF AllowDenied
  <2>2. Reserved' = Reserved
    BY <2>1 DEF Reserved
  <2> QED
    BY <1>3, <2>1, <2>2 DEF LedgerInv
<1>5. ASSUME NEW c \in CallSites, ReasonerGate(c)
      PROVE  LedgerInv'
  <2> DEFINE p == IF totalLocked(entries') >= capUSD THEN "refused" ELSE "inflight"
  <2>1. /\ NoteExpired /\ entries' = gcLocked(entries, now) /\ reported' = reported
        /\ seen' = seen /\ phase[c] = "admitted" /\ phase' = [phase EXCEPT ![c] = p]
        /\ p \in {"refused", "inflight"}
    BY <1>5 DEF ReasonerGate, Snapshot
  <2> HIDE DEF p
  <2>2. Reserved' = Reserved
    BY <2>1 DEF Reserved, TypeOK
  <2>3. Quiet => \A d \in CallSites : phase'[d] # "rolledback"
    BY <2>1 DEF LedgerInv, TypeOK
  <2> QED
    BY <1>3, <2>1, <2>2, <2>3
<1>14. ASSUME NEW c \in CallSites, SkipLLM(c)
       PROVE  LedgerInv'
  <2>1. /\ phase[c] = "admitted" /\ phase' = [phase EXCEPT ![c] = "refused"]
        /\ UNCHANGED <<entries, seen, reported, expired>>
    BY <1>14 DEF SkipLLM, tracker, history
  <2>2. Reserved' = Reserved
    BY <2>1 DEF Reserved, TypeOK
  <2>3. Quiet => \A d \in CallSites : phase'[d] # "rolledback"
    BY <2>1 DEF LedgerInv, TypeOK
  <2> QED
    BY <2>1, <2>2, <2>3 DEF LedgerInv, Quiet
<1>6. ASSUME NEW c \in CallSites, NEW a \in Actuals, Succeed(c, a)
      PROVE  LedgerInv'
  <2> DEFINE es == ReconcileLast(entries, now, a)
  <2>1. /\ Close(c, es) /\ phase[c] = "inflight" /\ reported' = reported + a
        /\ seen' = IF a > Est THEN seen \cup {"overrun"} ELSE seen
    BY <1>6 DEF Succeed
  <2>2. a \in Nat /\ es \in Seq(Entry)
    BY <1>1, LedgerTyped
  <2>3. CASE a > Est
    <3>1. ~Quiet'
      BY <2>1, <2>3 DEF Quiet
    <3> QED
      BY <3>1 DEF LedgerInv
  <2>4. CASE a <= Est
    <3>1. Quiet => /\ \A i \in 1..Len(es) : es[i].cost <= Est
                   /\ totalLocked(es) \in Nat
                   /\ totalLocked(es) + Est >= totalLocked(entries) + a
      BY <1>1, <2>2, <2>4, BoundedLedger DEF LedgerInv
    <3>2. seen \subseteq seen'
      BY <2>1
    <3> HIDE DEF es
    <3> QED
      BY <2>1, <2>2, <3>1, <3>2, CloseKeepsLedger
  <2> QED
    BY <2>2, <2>3, <2>4
<1>7. ASSUME NEW c \in CallSites, Refused(c)
      PROVE  LedgerInv'
  <2> DEFINE es == ReconcileLast(entries, now, 0)
  <2>1. /\ Close(c, es) /\ phase[c] = "refused" /\ reported' = reported + 0
        /\ seen \subseteq seen'
    BY <1>1, <1>7 DEF Refused
  <2>2. es \in Seq(Entry)
    BY <1>1, LedgerTyped
  <2>3. Quiet => /\ \A i \in 1..Len(es) : es[i].cost <= Est
                 /\ totalLocked(es) \in Nat
                 /\ totalLocked(es) + Est >= totalLocked(entries) + 0
    <3>1. 0 \in Nat /\ 0 <= Est
      OBVIOUS
    <3>3. ASSUME Quiet
          PROVE  /\ \A i \in 1..Len(es) : es[i].cost <= Est
                 /\ totalLocked(es) \in Nat
                 /\ totalLocked(es) + Est >= totalLocked(entries) + 0
      BY <1>1, <3>1, <3>3, BoundedLedger DEF LedgerInv
    <3> QED
      BY <3>3
  <2> HIDE DEF es
  <2> QED
    BY <2>1, <2>2, <2>3, CloseKeepsLedger
<1>8. ASSUME NEW c \in CallSites, Fail(c)
      PROVE  LedgerInv'
  <2> DEFINE es == RollbackLast(entries)
  <2>1. /\ Close(c, es) /\ phase[c] = "inflight" /\ reported' = reported + 0
        /\ seen \subseteq seen'
    BY <1>1, <1>8 DEF Fail
  <2>2. es \in Seq(Entry)
    BY <1>1, LedgerTyped
  <2>3. Quiet => /\ \A i \in 1..Len(es) : es[i].cost <= Est
                 /\ totalLocked(es) \in Nat
                 /\ totalLocked(es) + Est >= totalLocked(entries) + 0
    <3>1. 0 <= Est
      OBVIOUS
    <3>2. totalLocked(es) + Est >= totalLocked(entries) =>
            totalLocked(es) + Est >= totalLocked(entries) + 0
      BY <1>1
    <3> QED
      BY <1>1, <3>1, <3>2, BoundedLedger DEF LedgerInv
  <2> HIDE DEF es
  <2> QED
    BY <2>1, <2>2, <2>3, CloseKeepsLedger
<1>9. ASSUME NEW c \in CallSites, ScorerRollback(c)
      PROVE  LedgerInv'
  BY <1>9 DEF ScorerRollback, LedgerInv, Quiet
<1>10. ASSUME NEW c \in CallSites, ScorerReconcileAfterRollback(c)
       PROVE  LedgerInv'
  BY <1>10 DEF ScorerReconcileAfterRollback, LedgerInv, Quiet
<1>11. CASE UNCHANGED <<entries, phase, seen, reported, expired>>
  <2>1. Reserved' = Reserved
    BY <1>11 DEF Reserved
  <2> QED
    BY <1>11, <2>1 DEF LedgerInv, Quiet
<1>12. CASE \/ \E o \in Owners : \/ RecordAIBudgetOverride(o)
                                 \/ \E new \in CapRequests : SetCapUSD(o, new)
            \/ Tick \/ UNCHANGED vars
  BY <1>11, <1>12 DEF RecordAIBudgetOverride, SetCapUSD, Tick, vars, tracker, history
<1>13. CASE ReadSnapshot
  <2>1. /\ NoteExpired /\ entries' = gcLocked(entries, now) /\ reported' = reported
        /\ seen' = seen /\ phase' = phase
    BY <1>13 DEF ReadSnapshot, Snapshot
  <2>2. Reserved' = Reserved
    BY <2>1 DEF Reserved
  <2> QED
    BY <1>3, <2>1, <2>2 DEF LedgerInv
<1> QED
  BY <1>2, <1>4, <1>5, <1>6, <1>7, <1>8, <1>9, <1>10, <1>12, <1>13, <1>14
  DEF Next, Call

LEMMA LedgerInvariant == Spec => []LedgerInv
  BY LedgerInvInit, LedgerInvStep, Typing, PTL DEF Spec

\* The ledger never understates what was spent and what is reserved.
THEOREM NeverUnderstated == Spec => []Conservative
<1>1. LedgerInv => Conservative
  BY DEF LedgerInv, Quiet, Conservative
<1> QED
  BY <1>1, LedgerInvariant, PTL
-----------------------------------------------------------------------------
(* The spend stays under the cap.                                           *)

\* Room for an estimate behind all charges but the last one, which is the one a
\* Reconcile may replace by a larger charge; and, while a call is open, in an
\* empty ledger.
Headroom(es) == es # <<>> => totalLocked(Front(es)) + Est <= capHigh

CapInv == Quiet => Headroom(entries) /\ (Reserved # {} => Est <= capHigh)

\* What cutting the expired prefix does to the ledger but its last charge.
LEMMA FrontOfGc ==
  ASSUME NEW es \in Seq(Entry), NEW t \in Nat, gcLocked(es, t) # <<>>
  PROVE  /\ es # <<>>
         /\ totalLocked(Front(gcLocked(es, t))) \in Nat
         /\ totalLocked(Front(es)) \in Nat
         /\ totalLocked(Front(gcLocked(es, t))) <= totalLocked(Front(es))
<1> DEFINE fs == gcLocked(es, t)
<1>1. PICK n \in Nat : n = Len(es)
  BY LenProperties
<1>2. PICK k \in 1..n + 1 :
        /\ Len(fs) = n + 1 - k
        /\ \A j \in 1..n + 1 - k : fs[j] = es[k + j - 1]
  BY <1>1, GcLockedElements
<1>3. /\ fs \in Seq(Entry) /\ fs # <<>>
      /\ totalLocked(fs) \in Nat /\ totalLocked(es) \in Nat
      /\ totalLocked(fs) <= totalLocked(es)
  BY LedgerTyped
<1> HIDE DEF fs
<1>4. PICK m \in Nat : m = Len(fs) /\ m > 0
  BY <1>3, EmptySeq, LenProperties
<1>5. m \in 1..m /\ n \in 1..n /\ k + m - 1 = n /\ m = n + 1 - k
  BY <1>2, <1>4
<1>6. es # <<>> /\ fs[m] = es[n]
  <2>1. fs[m] = es[k + m - 1]
    BY <1>2, <1>5
  <2> QED
    BY <1>1, <1>5, <2>1, EmptySeq
<1>7. /\ Front(es) \in Seq(Entry) /\ Front(fs) \in Seq(Entry)
      /\ totalLocked(es) = totalLocked(Front(es)) + es[n].cost
      /\ totalLocked(fs) = totalLocked(Front(fs)) + fs[m].cost
  BY <1>1, <1>3, <1>4, <1>6, TotalLast
<1>8. totalLocked(Front(es)) \in Nat /\ totalLocked(Front(fs)) \in Nat
  BY <1>7, LedgerTyped
<1>9. es[n].cost \in Nat
  BY <1>1, <1>5, EntryFields
<1>10. totalLocked(Front(fs)) <= totalLocked(Front(es))
  <2> DEFINE x == totalLocked(Front(fs))
             y == totalLocked(Front(es))
             c == es[n].cost
  <2>1. /\ x \in Nat /\ y \in Nat /\ c \in Nat
        /\ totalLocked(fs) = x + c /\ totalLocked(es) = y + c
    BY <1>6, <1>7, <1>8, <1>9
  <2>2. x + c <= y + c
    BY <1>3, <2>1
  <2> HIDE DEF x, y, c
  <2>3. x <= y
    BY <2>1, <2>2
  <2> QED
    BY <2>3 DEF x, y
<1> QED
  BY <1>6, <1>8, <1>10 DEF fs

\* Every operation of the tracker on the entries keeps the headroom.
LEMMA HeadroomKept ==
  ASSUME NEW es \in Seq(Entry), NEW t \in Nat, NEW a \in Nat, capHigh \in Nat,
         Headroom(es)
  PROVE  /\ Headroom(gcLocked(es, t))
         /\ (Est <= capHigh => Headroom(ReconcileLast(es, t, a)))
         /\ Headroom(RollbackLast(es))
<1> USE CostAssumption
<1>1. Headroom(gcLocked(es, t))
  <2> SUFFICES ASSUME gcLocked(es, t) # <<>>
               PROVE  totalLocked(Front(gcLocked(es, t))) + Est <= capHigh
    BY DEF Headroom
  <2> DEFINE x == totalLocked(Front(gcLocked(es, t)))
             y == totalLocked(Front(es))
  <2>1. x \in Nat /\ y \in Nat /\ x <= y /\ es # <<>>
    BY FrontOfGc
  <2>2. y + Est <= capHigh
    BY <2>1 DEF Headroom
  <2> HIDE DEF x, y
  <2>3. x + Est <= capHigh
    BY <2>1, <2>2
  <2> QED
    BY <2>3 DEF x
<1>2. ASSUME Est <= capHigh
      PROVE  Headroom(ReconcileLast(es, t, a))
  <2>1. CASE es = <<>>
    <3>1. ReconcileLast(es, t, a) = Charge(es, t, a)
      BY <2>1 DEF ReconcileLast
    <3>2. Front(Charge(es, t, a)) = es
      BY ChargeProperties, Zenon
    <3>3. totalLocked(es) + Est <= capHigh
      BY <1>2, <2>1, TotalEmpty
    <3> QED
      BY <3>1, <3>2, <3>3 DEF Headroom
  <2>2. CASE es # <<>>
    <3>1. Front(ReconcileLast(es, t, a)) = Front(es)
      BY <2>2, ReconcileProperties, Zenon
    <3> QED
      BY <2>2, <3>1 DEF Headroom
  <2> QED
    BY <2>1, <2>2
<1>3. ASSUME RollbackLast(es) # <<>>
      PROVE  Headroom(RollbackLast(es))
  <2> DEFINE fs == Front(es)
  <2>1. es # <<>> /\ RollbackLast(es) = fs /\ fs # <<>>
    BY <1>3 DEF RollbackLast
  <2>2. totalLocked(fs) + Est <= capHigh
    BY <2>1 DEF Headroom
  <2>3. fs \in Seq(Entry)
    BY <2>1, TotalLast
  <2> HIDE DEF fs
  <2>4. PICK n \in Nat : n = Len(fs) /\ n \in 1..n
    BY <2>1, <2>3, EmptySeq, LenProperties
  <2>5. /\ Front(fs) \in Seq(Entry)
        /\ totalLocked(fs) = totalLocked(Front(fs)) + fs[n].cost
    BY <2>1, <2>3, <2>4, TotalLast
  <2>6. totalLocked(Front(fs)) \in Nat /\ fs[n].cost \in Nat
    BY <2>3, <2>4, <2>5, EntryFields, LedgerTyped
  <2>7. totalLocked(Front(fs)) + Est <= capHigh
    BY <2>2, <2>5, <2>6
  <2> QED
    BY <2>1, <2>7 DEF Headroom
<1> QED
  BY <1>1, <1>2, <1>3 DEF Headroom

LEMMA CapInvInit == Init => CapInv
  BY DEF Init, CapInv, Headroom, Reserved

LEMMA CapInvStep == TypeOK /\ CapInv /\ LedgerInv /\ [Next]_vars => CapInv'
<1> SUFFICES ASSUME TypeOK, CapInv, LedgerInv, [Next]_vars, Quiet'
             PROVE  CapInv'
  BY DEF CapInv
<1> USE CostAssumption
<1>1. /\ entries \in Seq(Entry) /\ now \in Nat /\ capHigh \in Nat
      /\ capUSD \in Nat /\ capUSD <= capHigh
      /\ gcLocked(entries, now) \in Seq(Entry)
      /\ totalLocked(gcLocked(entries, now)) \in Nat
  <2>1. entries \in Seq(Entry) /\ now \in Nat /\ capUSD \in 1..HardCeilingUSD
        /\ capHigh \in capUSD..HardCeilingUSD
    BY DEF TypeOK
  <2>2. HardCeilingUSD \in Nat
    OBVIOUS
  <2> QED
    BY <2>1, <2>2, LedgerTyped
<1>2. Quiet
  BY DEF Next, Call, AllowAdmitted, AllowDenied, SkipLLM, ReasonerGate, Succeed, Refused, Fail,
         ScorerRollback, ScorerReconcileAfterRollback, Close, RecordAIBudgetOverride,
         SetCapUSD, ReadSnapshot, Tick, vars, history, Quiet
<1>3. Headroom(entries) /\ (Reserved # {} => Est <= capHigh)
  BY <1>2 DEF CapInv
<1>4. ASSUME NEW c \in CallSites, AllowAdmitted(c)
      PROVE  CapInv'
  <2> DEFINE gc == gcLocked(entries, now)
             total == totalLocked(gc)
  <2>1. Front(Charge(gc, now, Est)) = gc
    <3>1. gc \in Seq(Entry) /\ now \in Nat /\ Est \in Nat
      BY <1>1
    <3> HIDE DEF gc
    <3> QED
      BY <3>1, ChargeProperties, Zenon
  <2>2. total \in Nat /\ total + Est <= capUSD
    BY <1>1, <1>4 DEF AllowAdmitted, Allowed, Projected
  <2>3. entries' = Charge(gc, now, Est) /\ capHigh' = capHigh
    BY <1>4 DEF AllowAdmitted
  <2> HIDE DEF total
  <2>4. total + Est <= capHigh /\ Est <= capHigh
    BY <1>1, <2>2
  <2> QED
    BY <2>1, <2>3, <2>4 DEF CapInv, Headroom, total
<1>5. ASSUME entries' = gcLocked(entries, now), capHigh' = capHigh,
             Reserved' = Reserved
      PROVE  CapInv'
  <2>1. Headroom(gcLocked(entries, now))
    BY <1>1, <1>3, HeadroomKept
  <2> QED
    BY <1>3, <1>5, <2>1 DEF CapInv, Headroom
<1>6. ASSUME NEW c \in CallSites, AllowDenied(c)
      PROVE  CapInv'
  BY <1>5, <1>6 DEF AllowDenied, Reserved
<1>7. ASSUME NEW c \in CallSites, ReasonerGate(c)
      PROVE  CapInv'
  <2> DEFINE p == IF totalLocked(entries') >= capUSD THEN "refused" ELSE "inflight"
  <2>1. /\ entries' = gcLocked(entries, now) /\ capHigh' = capHigh
        /\ phase[c] = "admitted" /\ phase' = [phase EXCEPT ![c] = p]
        /\ p \in {"refused", "inflight"}
    BY <1>7 DEF ReasonerGate, Snapshot
  <2> HIDE DEF p
  <2>2. Reserved' = Reserved
    BY <2>1 DEF Reserved, TypeOK
  <2> QED
    BY <1>5, <2>1, <2>2
<1>17. ASSUME NEW c \in CallSites, SkipLLM(c)
       PROVE  CapInv'
  <2>1. /\ entries' = entries /\ capHigh' = capHigh
        /\ phase[c] = "admitted" /\ phase' = [phase EXCEPT ![c] = "refused"]
    BY <1>17 DEF SkipLLM, tracker, history
  <2>2. Reserved' = Reserved
    BY <2>1 DEF Reserved, TypeOK
  <2> QED
    BY <1>3, <2>1, <2>2 DEF CapInv, Headroom
<1>8. CASE ReadSnapshot
  BY <1>5, <1>8 DEF ReadSnapshot, Snapshot, Reserved
<1>9. ASSUME NEW c \in CallSites, NEW es \in Seq(Entry), Close(c, es), Headroom(es)
      PROVE  CapInv'
  <2>1. entries' = es /\ capHigh' = capHigh /\ Reserved' \subseteq Reserved
    BY <1>9 DEF Close, Reserved, TypeOK
  <2> QED
    BY <1>3, <1>9, <2>1 DEF CapInv, Headroom
<1>10. ASSUME NEW c \in CallSites, phase[c] \in {"inflight", "refused"}
       PROVE  /\ \A a \in Nat : /\ Headroom(ReconcileLast(entries, now, a))
                                /\ ReconcileLast(entries, now, a) \in Seq(Entry)
              /\ Headroom(RollbackLast(entries))
              /\ RollbackLast(entries) \in Seq(Entry)
  <2>1. Est <= capHigh
    BY <1>3, <1>10 DEF Reserved
  <2>2. RollbackLast(entries) \in Seq(Entry) /\ Headroom(RollbackLast(entries))
    BY <1>1, <1>3, HeadroomKept, LedgerTyped
  <2> QED
    BY <1>1, <1>3, <2>1, <2>2, HeadroomKept, LedgerTyped
<1>11. ASSUME NEW c \in CallSites, NEW a \in Actuals, Succeed(c, a)
       PROVE  CapInv'
  <2>1. a \in Nat /\ phase[c] = "inflight" /\ Close(c, ReconcileLast(entries, now, a))
    BY <1>11 DEF Succeed
  <2> QED
    BY <1>9, <1>10, <2>1
<1>12. ASSUME NEW c \in CallSites, Refused(c) \/ Fail(c)
       PROVE  CapInv'
  <2>1. /\ phase[c] \in {"inflight", "refused"}
        /\ \/ Close(c, ReconcileLast(entries, now, 0))
           \/ Close(c, RollbackLast(entries))
    BY <1>12 DEF Refused, Fail
  <2> QED
    BY <1>9, <1>10, <2>1
<1>13. ASSUME NEW c \in CallSites, ScorerRollback(c) \/ ScorerReconcileAfterRollback(c)
       PROVE  CapInv'
  <2>1. ~ScorerReconcileAfterRollback(c)
    BY <1>2 DEF LedgerInv, ScorerReconcileAfterRollback
  <2> QED
    BY <1>13, <2>1 DEF ScorerRollback, Quiet
<1>14. ASSUME entries' = entries, phase' = phase, capHigh' \in Nat, capHigh <= capHigh'
       PROVE  CapInv'
  <2>1. Reserved' = Reserved
    BY <1>14 DEF Reserved
  <2>2. ASSUME entries # <<>>
        PROVE  totalLocked(Front(entries)) + Est <= capHigh'
    <3> DEFINE x == totalLocked(Front(entries))
    <3>1. Front(entries) \in Seq(Entry)
      BY <1>1, <2>2, TotalLast
    <3>2. x \in Nat /\ x + Est <= capHigh
      BY <1>1, <1>3, <2>2, <3>1, LedgerTyped DEF Headroom
    <3> HIDE DEF x
    <3>3. x + Est <= capHigh'
      BY <1>1, <1>14, <3>2
    <3> QED
      BY <3>3 DEF x
  <2>3. Est <= capHigh => Est <= capHigh'
    BY <1>1, <1>14
  <2> QED
    BY <1>3, <1>14, <2>1, <2>2, <2>3 DEF CapInv, Headroom
<1>15. ASSUME NEW o \in Owners, NEW new \in CapRequests, SetCapUSD(o, new)
       PROVE  CapInv'
  <2>1. /\ entries' = entries /\ phase' = phase
        /\ capHigh' \in {capHigh, new} /\ (capHigh' = new /\ new # capHigh => new > capHigh)
    BY <1>15 DEF SetCapUSD
  <2>2. new \in Int
    OBVIOUS
  <2>3. capHigh' \in Nat /\ capHigh <= capHigh'
    BY <1>1, <2>1, <2>2
  <2> QED
    BY <1>14, <2>1, <2>3
<1>16. CASE (\E o \in Owners : RecordAIBudgetOverride(o)) \/ Tick \/ UNCHANGED vars
  <2>1. entries' = entries /\ phase' = phase /\ capHigh' = capHigh
    BY <1>16 DEF RecordAIBudgetOverride, Tick, vars, tracker, history
  <2> QED
    BY <1>1, <1>14, <2>1
<1> QED
  BY <1>4, <1>6, <1>7, <1>8, <1>11, <1>12, <1>13, <1>15, <1>16, <1>17
  DEF Next, Call

\* What the calls spent and have reserved stays under the highest cap in force,
\* for every number of concurrent call sites.
THEOREM SpendCapped == Spec => []SpendWithinCap
<1>1. TypeOK /\ LedgerInv /\ CapInv => SpendWithinCap
  <2> SUFFICES ASSUME TypeOK, LedgerInv, CapInv, Quiet
               PROVE  reported + Est * Cardinality(Reserved) <= capHigh + expired
    BY DEF SpendWithinCap, Quiet
  <2> USE CostAssumption
  <2> DEFINE owed == Est * Cardinality(Reserved)
             total == totalLocked(entries)
  <2>1. /\ entries \in Seq(Entry) /\ capHigh \in Nat /\ reported \in Nat
        /\ expired \in Nat /\ now \in Nat
    <3>1. capUSD \in 1..HardCeilingUSD /\ capHigh \in capUSD..HardCeilingUSD
      BY DEF TypeOK
    <3> QED
      BY <3>1 DEF TypeOK
  <2>2. total \in Nat /\ total <= capHigh
    <3>1. CASE entries = <<>>
      BY <2>1, <3>1, TotalEmpty
    <3>2. CASE entries # <<>>
      <4> DEFINE x == totalLocked(Front(entries))
      <4>1. PICK n \in Nat : n = Len(entries) /\ n \in 1..n
        BY <2>1, <3>2, EmptySeq, LenProperties
      <4>2. Front(entries) \in Seq(Entry) /\ total = x + entries[n].cost
        BY <2>1, <3>2, <4>1, TotalLast
      <4>3. x \in Nat /\ total \in Nat
        BY <2>1, <4>2, LedgerTyped
      <4>4. x + Est <= capHigh /\ entries[n].cost <= Est /\ entries[n].cost \in Nat
        BY <2>1, <3>2, <4>1, EntryFields DEF CapInv, Headroom, LedgerInv
      <4> HIDE DEF x, total
      <4> QED
        BY <2>1, <4>2, <4>3, <4>4
    <3> QED
      BY <3>1, <3>2
  <2>3. total + expired >= reported + owed
    BY DEF LedgerInv
  <2>4. owed \in Nat
    <3>1. Cardinality(Reserved) \in Nat
      <4>1. Reserved \subseteq CallSites
        BY DEF Reserved
      <4> QED
        BY <4>1, SitesAssumption, FS_Subset, FS_CardinalityType
    <3>2. \A e, k \in Nat : e * k \in Nat
      OBVIOUS
    <3> QED
      BY <3>1, <3>2
  <2> HIDE DEF owed, total
  <2>5. reported + owed <= capHigh + expired
    BY <2>1, <2>2, <2>3, <2>4
  <2> QED
    BY <2>5 DEF owed
<1> QED
  BY <1>1, CapInvInit, CapInvStep, LedgerInvariant, Typing, PTL DEF Spec
-----------------------------------------------------------------------------
(* The alert tiers.                                                         *)

\* A tier that has fired remembers its last alert; one that is armed again was
\* re-armed more than a minute after it.
AlertInv ==
  \A i \in Tiers :
    /\ fired[i] # Never => lastAlert[i] = fired[i]
    /\ fired[i] = Never /\ lastAlert[i] # Never => now - lastAlert[i] > Minute

LEMMA AlertInvStep == TypeOK /\ AlertInv /\ [Next]_vars => AlertInv'
<1> SUFFICES ASSUME TypeOK, AlertInv, [Next]_vars
             PROVE  AlertInv'
  OBVIOUS
<1> USE NeverAssumption, TimeAssumption
<1>1. /\ now \in Nat
      /\ fired \in [Tiers -> Nat \cup {Never}]
      /\ lastAlert \in [Tiers -> Nat \cup {Never}]
  BY DEF TypeOK
<1>2. ASSUME NEW total, fired' = checkAndFireThresholdLocked(fired, total, now),
             NoteAlerts, now' = now
      PROVE  AlertInv'
  <2> SUFFICES ASSUME NEW i \in Tiers
               PROVE  /\ fired'[i] # Never => lastAlert'[i] = fired'[i]
                      /\ fired'[i] = Never /\ lastAlert'[i] # Never =>
                           now - lastAlert'[i] > Minute
    BY <1>2 DEF AlertInv
  <2> DEFINE below == total * 10 < capUSD * alertThresholds[i]
  <2>1. fired'[i] = IF ~below /\ fired[i] = Never THEN now
                    ELSE IF below /\ fired[i] # Never /\ now - fired[i] > Minute
                         THEN Never ELSE fired[i]
    BY <1>2 DEF checkAndFireThresholdLocked
  <2>2. lastAlert'[i] = IF fired'[i] # fired[i] /\ fired'[i] # Never
                        THEN now ELSE lastAlert[i]
    BY <1>2 DEF NoteAlerts
  <2> HIDE DEF below
  <2>3. /\ fired[i] # Never => lastAlert[i] = fired[i]
        /\ fired[i] = Never /\ lastAlert[i] # Never => now - lastAlert[i] > Minute
    BY DEF AlertInv
  <2> QED
    BY <1>1, <2>1, <2>2, <2>3
<1>3. CASE \E c \in CallSites : AllowAdmitted(c) \/ AllowDenied(c)
  BY <1>2, <1>3 DEF AllowAdmitted, AllowDenied
<1>4. CASE Tick
  <2>1. fired' = fired /\ lastAlert' = lastAlert /\ now' = now + 1
    BY <1>4 DEF Tick, tracker, history
  <2> QED
    BY <1>1, <2>1 DEF AlertInv
<1>5. ASSUME fired' = fired, lastAlert' = lastAlert, now' = now
      PROVE  AlertInv'
  BY <1>5 DEF AlertInv
<1>6. ASSUME NEW c \in CallSites,
             \/ SkipLLM(c) \/ ReasonerGate(c) \/ \E a \in Actuals : Succeed(c, a)
             \/ Refused(c) \/ Fail(c) \/ ScorerRollback(c)
             \/ ScorerReconcileAfterRollback(c)
      PROVE  AlertInv'
  BY <1>5, <1>6 DEF SkipLLM, ReasonerGate, Snapshot, Succeed, Refused, Fail, ScorerRollback,
                    ScorerReconcileAfterRollback, Close, tracker, history
<1>7. ASSUME NEW o \in Owners, NEW new \in CapRequests, SetCapUSD(o, new)
      PROVE  AlertInv'
  <2>1. CASE fired' = [i \in Tiers |-> Never] /\ lastAlert' = [i \in Tiers |-> Never]
    BY <2>1 DEF AlertInv
  <2>2. CASE fired' = fired /\ lastAlert' = lastAlert
    BY <1>5, <1>7, <2>2 DEF SetCapUSD
  <2> QED
    BY <1>7, <2>1, <2>2 DEF SetCapUSD
<1>8. CASE \/ \E o \in Owners : RecordAIBudgetOverride(o)
           \/ ReadSnapshot \/ UNCHANGED vars
  BY <1>5, <1>8 DEF RecordAIBudgetOverride, ReadSnapshot, Snapshot, vars, tracker, history
<1> QED
  BY <1>3, <1>4, <1>6, <1>7, <1>8 DEF Next, Call

\* A tier that has fired either stays so or is armed again.
LEMMA FiredStep ==
  [Next]_vars => \A i \in Tiers : fired[i] # Never => fired'[i] \in {fired[i], Never}
<1> SUFFICES ASSUME [Next]_vars, NEW i \in Tiers, fired[i] # Never
             PROVE  fired'[i] \in {fired[i], Never}
  OBVIOUS
<1>1. ASSUME NEW total, fired' = checkAndFireThresholdLocked(fired, total, now)
      PROVE  fired'[i] \in {fired[i], Never}
  BY <1>1 DEF checkAndFireThresholdLocked
<1>2. CASE \E c \in CallSites : AllowAdmitted(c) \/ AllowDenied(c)
  BY <1>1, <1>2 DEF AllowAdmitted, AllowDenied
<1>3. CASE \E o \in Owners, new \in CapRequests : SetCapUSD(o, new)
  BY <1>3 DEF SetCapUSD
<1>4. CASE fired' = fired
  BY <1>4
<1> QED
  BY <1>2, <1>3, <1>4
  DEF Next, Call, SkipLLM, ReasonerGate, ReadSnapshot, Snapshot, Succeed, Refused, Fail,
      ScorerRollback, ScorerReconcileAfterRollback, Close, RecordAIBudgetOverride,
      Tick, vars, tracker

\* Under one cap a tier alerts again only more than a minute after its last
\* alert, however the running total oscillates around its threshold.
THEOREM AlertsApart == Spec => AlertsSpaced
<1>1. Init => AlertInv
  BY DEF Init, AlertInv
<1>2. Spec => []AlertInv
  BY <1>1, AlertInvStep, Typing, PTL DEF Spec
<1>3. AlertInv /\ [Next]_vars =>
        \A i \in Tiers :
          fired'[i] # fired[i] /\ fired'[i] # Never /\ lastAlert[i] # Never =>
            now - lastAlert[i] > Minute
  BY FiredStep DEF AlertInv
<1> QED
  BY <1>2, <1>3, PTL DEF Spec, AlertsSpaced
-----------------------------------------------------------------------------
(* The audit trail.                                                         *)

\* No cap an owner sets escapes the audit unnoticed, with any number of owners
\* overriding at once.
THEOREM OverridesAudited == Spec => []CapAudited
<1>1. Init => CapAudited
  BY DEF Init, CapAudited
<1>2. TypeOK /\ CapAudited /\ [Next]_vars => CapAudited'
  <2> SUFFICES ASSUME TypeOK, CapAudited, [Next]_vars
               PROVE  CapAudited'
    OBVIOUS
  <2> USE CostAssumption
  <2>1. override \in [Owners -> 0..HardCeilingUSD] /\ capUSD \in 1..HardCeilingUSD
    BY DEF TypeOK
  <2>2. ASSUME NEW o \in Owners, NEW new \in CapRequests, SetCapUSD(o, new)
        PROVE  CapAudited'
    <3>1. CASE capUSD' = new /\ override' = [override EXCEPT ![o] = new]
      <4>1. override'[o] = capUSD'
        BY <2>1, <3>1
      <4> QED
        BY <4>1 DEF CapAudited
    <3>2. CASE UNCHANGED <<capUSD, override>>
      BY <2>2, <3>2 DEF SetCapUSD, CapAudited
    <3> QED
      BY <2>2, <3>1, <3>2 DEF SetCapUSD
  <2>3. ASSUME NEW o \in Owners, RecordAIBudgetOverride(o)
        PROVE  CapAudited'
    <3>1. /\ capUSD' = capUSD
          /\ override' = [override EXCEPT ![o] = 0]
          /\ audit \subseteq audit' /\ lostAudit \subseteq lostAudit'
          /\ override[o] \in audit' \cup lostAudit'
      BY <2>3 DEF RecordAIBudgetOverride, tracker
    <3>2. \A q \in Owners : q # o => override'[q] = override[q]
      BY <2>1, <3>1
    <3> QED
      BY <3>1, <3>2 DEF CapAudited
  <2>4. CASE UNCHANGED <<capUSD, audit, lostAudit, override>>
    BY <2>4 DEF CapAudited
  <2> QED
    BY <2>2, <2>3, <2>4
    DEF Next, Call, AllowAdmitted, AllowDenied, SkipLLM, ReasonerGate, ReadSnapshot, Snapshot,
        Succeed, Refused, Fail, ScorerRollback, ScorerReconcileAfterRollback, Close,
        Tick, vars, tracker, history, overrides
<1> QED
  BY <1>1, <1>2, Typing, PTL DEF Spec
-----------------------------------------------------------------------------
(* While calls do not overlap the ledger is exact.                          *)

Single == seen \cap {"overlap", "scorerFailure"} = {}

\* One call is open at most, and the last charge is its estimate: no call
\* outlives its timeout, so no read of the tracker drops that charge before the
\* call's own Reconcile or Rollback replaces it.
SingleInv ==
  Single =>
    /\ \A c \in CallSites : phase[c] # "rolledback"
    /\ \A c, d \in CallSites : phase[c] # "idle" /\ phase[d] # "idle" => c = d
    /\ \A c \in CallSites : phase[c] # "idle" =>
         /\ started[c] <= now /\ now - started[c] <= CallTimeout
         /\ entries # <<>>
         /\ entries[Len(entries)] = [at |-> started[c], cost |-> Est]
    /\ totalLocked(entries) + expired = reported + Est * Cardinality(Reserved)

\* A garbage collection keeps the last charge if that one is live.
LEMMA GcKeepsLast ==
  ASSUME NEW es \in Seq(Entry), NEW t \in Nat, es # <<>>, ~Expired(es[Len(es)], t)
  PROVE  gcLocked(es, t) # <<>> /\ gcLocked(es, t)[Len(gcLocked(es, t))] = es[Len(es)]
<1>1. PICK n \in Nat : n = Len(es)
  BY LenProperties
<1>2. PICK k \in 1..n + 1 :
        /\ Len(gcLocked(es, t)) = n + 1 - k
        /\ \A j \in 1..n + 1 - k : gcLocked(es, t)[j] = es[k + j - 1]
        /\ \A i \in 1..k - 1 : Expired(es[i], t)
  BY <1>1, GcLockedElements
<1>3. n \in 1..n
  BY <1>1, EmptySeq
<1>4. k # n + 1
  BY <1>1, <1>2, <1>3
<1>5. n + 1 - k \in 1..n + 1 - k /\ k + (n + 1 - k) - 1 = n
  BY <1>4
<1>6. gcLocked(es, t)[n + 1 - k] = es[n]
  BY <1>2, <1>5
<1>7. Len(gcLocked(es, t)) # 0
  BY <1>2, <1>5
<1> QED
  BY <1>1, <1>2, <1>6, <1>7, EmptySeq

LEMMA SingleInvInit == Init => SingleInv
<1> SUFFICES ASSUME Init PROVE SingleInv
  OBVIOUS
<1> USE CostAssumption
<1>1. Reserved = {} /\ Cardinality({}) = 0
  BY FS_EmptySet DEF Init, Reserved
<1>2. Est * 0 = 0
  OBVIOUS
<1> QED
  BY <1>1, <1>2, TotalEmpty DEF Init, SingleInv

\* A tracker read while one call at most is open, which may have moved on.
LEMMA SingleRead ==
  ASSUME TypeOK, SingleInv, NoteExpired, entries' = gcLocked(entries, now),
         UNCHANGED <<reported, seen, now, started>>, Reserved' = Reserved,
         Single => \A d \in CallSites :
                     /\ phase'[d] # "rolledback"
                     /\ phase'[d] # "idle" => phase[d] # "idle"
  PROVE  SingleInv'
<1> SUFFICES ASSUME Single PROVE SingleInv'
  BY DEF SingleInv, Single
<1>1. entries \in Seq(Entry) /\ now \in Nat /\ started \in [CallSites -> Nat]
  BY DEF TypeOK
<1>2. totalLocked(entries') + expired' = totalLocked(entries) + expired
  BY ReadKeepsSum
<1>3. ASSUME NEW c \in CallSites, phase'[c] # "idle"
      PROVE  /\ started[c] <= now /\ now - started[c] <= CallTimeout
             /\ entries' # <<>>
             /\ entries'[Len(entries')] = [at |-> started[c], cost |-> Est]
  <2>1. /\ started[c] <= now /\ now - started[c] <= CallTimeout
        /\ entries # <<>>
        /\ entries[Len(entries)] = [at |-> started[c], cost |-> Est]
    BY <1>3 DEF SingleInv
  <2>2. ~Expired(entries[Len(entries)], now)
    BY <1>1, <2>1, TimeAssumption DEF Expired
  <2> QED
    BY <1>1, <2>1, <2>2, GcKeepsLast
<1> QED
  BY <1>2, <1>3 DEF SingleInv

\* A call site closes its call: the last charge, which is its estimate, is
\* replaced by the a it reports.
LEMMA SingleClose ==
  ASSUME TypeOK, SingleInv, NEW c \in CallSites, NEW es \in Seq(Entry), NEW a \in Nat,
         Close(c, es), phase[c] \in {"inflight", "refused"},
         reported' = reported + a,
         seen \subseteq seen',
         entries # <<>> => totalLocked(es) = totalLocked(Front(entries)) + a
  PROVE  SingleInv'
<1> SUFFICES ASSUME Single' PROVE SingleInv'
  BY DEF SingleInv
<1> USE CostAssumption
<1>1. Single
  BY DEF Single
<1>2. phase' = [phase EXCEPT ![c] = "idle"] /\ "idle" \in Phases
  BY DEF Close, Phases
<1>3. \A d \in CallSites : phase'[d] = "idle"
  BY <1>1, <1>2 DEF SingleInv, TypeOK
<1> DEFINE owed == Est * Cardinality(Reserved)
           owed1 == Est * Cardinality(Reserved')
           x == totalLocked(Front(entries))
           y == totalLocked(entries)
           z == totalLocked(es)
<1>4. owed \in Nat /\ owed1 \in Nat /\ owed = owed1 + Est
  BY <1>2, ReservedKept, Zenon
<1>5. /\ entries # <<>> /\ entries[Len(entries)].cost = Est
      /\ y + expired = reported + owed
  <2>1. phase[c] # "idle"
    OBVIOUS
  <2>2. /\ entries # <<>> /\ entries[Len(entries)] = [at |-> started[c], cost |-> Est]
        /\ y + expired = reported + owed
    BY <1>1, <2>1 DEF SingleInv
  <2> QED
    BY <2>2
<1>6. y = x + Est /\ x \in Nat /\ y \in Nat /\ expired \in Nat /\ reported \in Nat
  <2>1. entries \in Seq(Entry) /\ expired \in Nat /\ reported \in Nat /\ now \in Nat
    BY DEF TypeOK
  <2>2. Front(entries) \in Seq(Entry) /\ y = x + entries[Len(entries)].cost
    BY <1>5, <2>1, TotalLast
  <2>3. x \in Nat /\ y \in Nat
    BY <2>1, <2>2, LedgerTyped
  <2> QED
    BY <1>5, <2>1, <2>2, <2>3
<1>7. z = x + a
  BY <1>5
<1> HIDE DEF owed, owed1, x, y, z
<1>8. z + expired = reported + a + owed1
  BY <1>4, <1>5, <1>6, <1>7
<1>9. totalLocked(entries') + expired' = reported' + Est * Cardinality(Reserved')
  BY <1>8 DEF Close, z, owed1
<1> QED
  BY <1>3, <1>9 DEF SingleInv

LEMMA SingleInvStep == TypeOK /\ SingleInv /\ [Next]_vars => SingleInv'
<1> SUFFICES ASSUME TypeOK, SingleInv, [Next]_vars
             PROVE  SingleInv'
  OBVIOUS
<1> USE CostAssumption
<1>1. /\ entries \in Seq(Entry) /\ now \in Nat
      /\ expired \in Nat /\ reported \in Nat
      /\ totalLocked(entries) \in Nat
      /\ gcLocked(entries, now) \in Seq(Entry)
  <2>1. entries \in Seq(Entry) /\ now \in Nat /\ expired \in Nat /\ reported \in Nat
    BY DEF TypeOK
  <2> QED
    BY <2>1, LedgerTyped
<1>2. ASSUME NEW c \in CallSites, AllowAdmitted(c)
      PROVE  SingleInv'
  <2> SUFFICES ASSUME Single'
               PROVE  SingleInv'
    BY DEF SingleInv
  <2> DEFINE gc == gcLocked(entries, now)
             es == Charge(gc, now, Est)
             owed == Est * Cardinality(Reserved)
             owed1 == Est * Cardinality(Reserved')
             p == IF c \in ScorerSites THEN "admitted" ELSE "inflight"
  <2>1. Single /\ \A d \in CallSites : phase[d] = "idle"
    BY <1>2 DEF Single, AllowAdmitted
  <2>2. /\ phase' = [phase EXCEPT ![c] = p] /\ phase[c] = "idle"
        /\ p \in {"admitted", "inflight"} /\ p \in Phases
        /\ entries' = es /\ NoteExpired /\ reported' = reported
        /\ started' = [started EXCEPT ![c] = now] /\ now' = now
    BY <1>2 DEF AllowAdmitted, Phases
  <2> HIDE DEF p
  <2>3. owed \in Nat /\ owed1 \in Nat /\ owed1 = owed + Est
    BY <2>2, ReservedKept, Zenon
  <2>4. /\ totalLocked(es) = totalLocked(gc) + Est
        /\ es # <<>> /\ es[Len(es)] = [at |-> now, cost |-> Est]
    BY <1>1, ChargeProperties
  <2>5. expired' \in Nat /\ totalLocked(gc) \in Nat
        /\ totalLocked(gc) + expired' = totalLocked(entries) + expired
    BY <2>2, ReadKeepsSum
  <2>6. totalLocked(entries) + expired = reported + owed
    BY <2>1 DEF SingleInv
  <2> HIDE DEF owed, owed1, gc, es
  <2>7. totalLocked(es) + expired' = reported + owed1
    BY <1>1, <2>3, <2>4, <2>5, <2>6, SMTT(60)
  <2>8. \A d \in CallSites : phase'[d] = IF d = c THEN p ELSE "idle"
    BY <2>1, <2>2 DEF TypeOK
  <2>9. started'[c] = now
    BY <2>2 DEF TypeOK
  <2>10. now - now <= CallTimeout /\ now <= now
    BY <1>1, TimeAssumption
  <2> QED
    BY <2>2, <2>4, <2>7, <2>8, <2>9, <2>10 DEF SingleInv, owed1
<1>3. ASSUME NEW c \in CallSites, AllowDenied(c)
      PROVE  SingleInv'
  <2>1. /\ NoteExpired /\ entries' = gcLocked(entries, now) /\ phase' = phase
        /\ UNCHANGED <<reported, seen, now, started>>
    BY <1>3 DEF AllowDenied
  <2>2. Reserved' = Reserved
    BY <2>1 DEF Reserved
  <2> QED
    BY <2>1, <2>2, SingleRead DEF SingleInv
<1>4. ASSUME NEW c \in CallSites, ReasonerGate(c)
      PROVE  SingleInv'
  <2> DEFINE p == IF totalLocked(entries') >= capUSD THEN "refused" ELSE "inflight"
  <2>1. /\ NoteExpired /\ entries' = gcLocked(entries, now)
        /\ UNCHANGED <<reported, seen, now, started>>
        /\ phase[c] = "admitted" /\ phase' = [phase EXCEPT ![c] = p]
        /\ p \in {"refused", "inflight"}
    BY <1>4 DEF ReasonerGate, Snapshot
  <2> HIDE DEF p
  <2>2. Reserved' = Reserved
    BY <2>1 DEF Reserved, TypeOK
  <2>3. Single => \A d \in CallSites :
                    /\ phase'[d] # "rolledback"
                    /\ phase'[d] # "idle" => phase[d] # "idle"
    BY <2>1 DEF SingleInv, TypeOK
  <2> QED
    BY <2>1, <2>2, <2>3, SingleRead
<1>5. CASE ReadSnapshot
  <2>1. /\ NoteExpired /\ entries' = gcLocked(entries, now) /\ phase' = phase
        /\ UNCHANGED <<reported, seen, now, started>>
    BY <1>5 DEF ReadSnapshot, Snapshot
  <2>2. Reserved' = Reserved
    BY <2>1 DEF Reserved
  <2> QED
    BY <2>1, <2>2, SingleRead DEF SingleInv
<1>6. ASSUME NEW c \in CallSites, SkipLLM(c)
      PROVE  SingleInv'
  <2>1. /\ phase[c] = "admitted" /\ phase' = [phase EXCEPT ![c] = "refused"]
        /\ UNCHANGED <<entries, seen, reported, expired, now, started>>
    BY <1>6 DEF SkipLLM, tracker, history
  <2>2. Reserved' = Reserved
    BY <2>1 DEF Reserved, TypeOK
  <2>3. Single => \A d \in CallSites :
                    /\ phase'[d] # "rolledback"
                    /\ phase'[d] # "idle" => phase[d] # "idle"
    BY <2>1 DEF SingleInv, TypeOK
  <2> QED
    BY <2>1, <2>2, <2>3 DEF SingleInv, Single
<1>7. ASSUME NEW c \in CallSites, NEW a \in Actuals, Succeed(c, a)
      PROVE  SingleInv'
  <2> DEFINE es == ReconcileLast(entries, now, a)
  <2>1. /\ Close(c, es) /\ phase[c] = "inflight" /\ reported' = reported + a
        /\ seen \subseteq seen'
    BY <1>7 DEF Succeed
  <2>2. a \in Nat /\ es \in Seq(Entry)
    BY <1>1, LedgerTyped
  <2>3. entries # <<>> => totalLocked(es) = totalLocked(Front(entries)) + a
    BY <1>1, <2>2, ReconcileProperties
  <2> HIDE DEF es
  <2> QED
    BY <2>1, <2>2, <2>3, SingleClose
<1>8. ASSUME NEW c \in CallSites, Refused(c)
      PROVE  SingleInv'
  <2> DEFINE es == ReconcileLast(entries, now, 0)
  <2>1. /\ Close(c, es) /\ phase[c] = "refused" /\ reported' = reported + 0
        /\ seen \subseteq seen'
    BY <1>1, <1>8 DEF Refused
  <2>2. es \in Seq(Entry)
    BY <1>1, LedgerTyped
  <2>3. entries # <<>> => totalLocked(es) = totalLocked(Front(entries)) + 0
    BY <1>1, ReconcileProperties
  <2> HIDE DEF es
  <2> QED
    BY <2>1, <2>2, <2>3, SingleClose
<1>9. ASSUME NEW c \in CallSites, Fail(c)
      PROVE  SingleInv'
  <2> DEFINE es == RollbackLast(entries)
  <2>1. /\ Close(c, es) /\ phase[c] = "inflight" /\ reported' = reported + 0
        /\ seen \subseteq seen'
    BY <1>1, <1>9 DEF Fail
  <2>2. es \in Seq(Entry)
    BY <1>1, LedgerTyped
  <2>3. ASSUME entries # <<>>
        PROVE  totalLocked(es) = totalLocked(Front(entries)) + 0
    <3>1. es = Front(entries)
      BY <2>3 DEF RollbackLast
    <3>2. totalLocked(es) \in Nat
      BY <1>1, <2>2, LedgerTyped
    <3> QED
      BY <3>1, <3>2
  <2> HIDE DEF es
  <2> QED
    BY <2>1, <2>2, <2>3, SingleClose
<1>10. ASSUME NEW c \in CallSites, ScorerRollback(c)
       PROVE  SingleInv'
  BY <1>10 DEF ScorerRollback, SingleInv, Single
<1>11. ASSUME NEW c \in CallSites, ScorerReconcileAfterRollback(c)
       PROVE  SingleInv'
  BY <1>11 DEF ScorerReconcileAfterRollback, SingleInv, Single
<1>12. CASE UNCHANGED <<entries, phase, seen, reported, expired, now, started>>
  <2>1. Reserved' = Reserved
    BY <1>12 DEF Reserved
  <2> QED
    BY <1>12, <2>1 DEF SingleInv, Single
<1>13. CASE \/ \E o \in Owners : \/ RecordAIBudgetOverride(o)
                                 \/ \E new \in CapRequests : SetCapUSD(o, new)
            \/ UNCHANGED vars
  BY <1>12, <1>13 DEF RecordAIBudgetOverride, SetCapUSD, vars, tracker, history
<1>14. CASE Tick
  <2>1. /\ now' = now + 1
        /\ \A c \in CallSites : phase[c] # "idle" => now - started[c] < CallTimeout
        /\ UNCHANGED <<entries, phase, seen, reported, expired, started>>
    BY <1>14 DEF Tick, tracker, history
  <2>2. Reserved' = Reserved
    BY <2>1 DEF Reserved
  <2>3. started \in [CallSites -> Nat]
    BY DEF TypeOK
  <2>4. ASSUME NEW c \in CallSites, Single, phase[c] # "idle"
        PROVE  started[c] <= now + 1 /\ now + 1 - started[c] <= CallTimeout
    <3>1. started[c] <= now
      BY <2>4 DEF SingleInv
    <3>2. started[c] \in Nat /\ now - started[c] < CallTimeout
      BY <2>1, <2>3, <2>4
    <3>3. \A s, t, u \in Nat : s <= t /\ t - s < u => s <= t + 1 /\ t + 1 - s <= u
      OBVIOUS
    <3> QED
      BY <1>1, <3>1, <3>2, <3>3, TimeAssumption
  <2>5. ASSUME Single'
        PROVE  /\ \A c \in CallSites : phase'[c] # "rolledback"
               /\ \A c, d \in CallSites : phase'[c] # "idle" /\ phase'[d] # "idle" => c = d
               /\ totalLocked(entries') + expired' = reported' + Est * Cardinality(Reserved)'
    BY <2>1, <2>2, <2>5 DEF SingleInv, Single
  <2>6. ASSUME Single', NEW c \in CallSites, phase'[c] # "idle"
        PROVE  /\ started'[c] <= now' /\ now' - started'[c] <= CallTimeout
               /\ entries' # <<>>
               /\ entries'[Len(entries')] = [at |-> started'[c], cost |-> Est]
    <3>1. Single /\ phase[c] # "idle"
      BY <2>1, <2>6 DEF Single
    <3>2. entries # <<>> /\ entries[Len(entries)] = [at |-> started[c], cost |-> Est]
      BY <3>1 DEF SingleInv
    <3>3. started[c] <= now + 1 /\ now + 1 - started[c] <= CallTimeout
      BY <2>4, <3>1
    <3>4. now' = now + 1 /\ entries' = entries /\ started' = started
      BY <2>1
    <3>5. started'[c] <= now' /\ now' - started'[c] <= CallTimeout
      <4>1. started'[c] = started[c] /\ started[c] \in Nat /\ now \in Nat /\ CallTimeout \in Nat
        BY <1>1, <2>3, <3>4, TimeAssumption
      <4> QED
        BY <3>3, <3>4, <4>1
    <3>6. entries' # <<>> /\ entries'[Len(entries')] = [at |-> started'[c], cost |-> Est]
      BY <3>2, <3>4, Zenon
    <3> QED
      BY <3>5, <3>6, Zenon
  <2> QED
    BY <2>5, <2>6, Zenon DEF SingleInv
<1> QED
  BY <1>2, <1>3, <1>4, <1>5, <1>6, <1>7, <1>8, <1>9, <1>10, <1>11, <1>13, <1>14
  DEF Next, Call

\* While calls do not overlap and no scorer call fails, live and expired charges
\* are exactly what the calls reported and the estimate of the open one.
THEOREM ExactAlone == Spec => []SingleFlightExact
<1>1. SingleInv => SingleFlightExact
  BY DEF SingleInv, Single, SingleFlightExact
<1> QED
  BY <1>1, SingleInvInit, SingleInvStep, Typing, PTL DEF Spec
=============================================================================
