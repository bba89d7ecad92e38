------------------------ MODULE SearchScheduleProofs ------------------------
(***************************************************************************)
(* Proofs about SearchSchedule for any searches, users, slots, weights and  *)
(* backoffs.                                                                *)
(***************************************************************************)
EXTENDS SearchSchedule, NatSets

-----------------------------------------------------------------------------
(* Backoff.                                                                 *)

\* A power of two counts the subsets of an interval.
LEMMA Powers ==
  ASSUME NEW m \in Nat, NEW n \in Nat, m <= n
  PROVE  2^m \in Nat /\ 2^n \in Nat /\ 1 <= 2^m /\ 2^m <= 2^n
<1>1. ASSUME NEW k \in Nat
      PROVE  IsFiniteSet(SUBSET (1..k)) /\ Cardinality(SUBSET (1..k)) = 2^k /\ 2^k \in Nat
  <2>1. IsFiniteSet(1..k) /\ Cardinality(1..k) = k
    BY FS_Interval
  <2>2. IsFiniteSet(SUBSET (1..k)) /\ Cardinality(SUBSET (1..k)) = 2^k
    BY <2>1, FS_SUBSET
  <2> QED
    BY <2>2, FS_CardinalityType
<1>2. 2^m <= 2^n
  <2>1. SUBSET (1..m) \in SUBSET (SUBSET (1..n))
    BY m <= n
  <2>2. Cardinality(SUBSET (1..m)) <= Cardinality(SUBSET (1..n))
    BY <1>1, <2>1, FS_Subset
  <2>3. Cardinality(SUBSET (1..m)) = 2^m /\ Cardinality(SUBSET (1..n)) = 2^n
    BY <1>1
  <2> QED
    BY <2>2, <2>3
<1>3. 2^m # 0
  <2>1. SUBSET (1..m) # {}
    OBVIOUS
  <2> QED
    BY <1>1, <2>1, FS_EmptySet
<1>4. \A p \in Nat : p # 0 => 1 <= p
  OBVIOUS
<1> QED
  BY <1>1, <1>2, <1>3, <1>4

LEMMA Products ==
  ASSUME NEW a \in Nat, NEW b \in Nat, NEW c \in Nat, a <= b
  PROVE  a * c \in Nat /\ b * c \in Nat /\ a * c <= b * c /\ c * a <= c * b
<1>1. PICK d \in Nat : b = a + d
  <2>1. b - a \in Nat /\ b = a + (b - a)
    OBVIOUS
  <2> QED
    BY <2>1
<1>2. (a + d) * c = a * c + d * c /\ a * c \in Nat /\ d * c \in Nat
  OBVIOUS
<1>3. c * a = a * c /\ c * b = b * c
  OBVIOUS
<1>4. \A x, y \in Nat : x <= x + y /\ x + y \in Nat
  OBVIOUS
<1> QED
  BY <1>1, <1>2, <1>3, <1>4

LEMMA Backoff ==
  ASSUME NEW s \in Searches, NEW e \in Nat, NEW f \in Nat
  PROVE  /\ nextRunAtAfter(s, e, f) \in 0..MaxWait(s)
         /\ BaseInterval[s] \in 0..MaxWait(s) /\ MaxWait(s) \in Nat
<1> DEFINE b == BaseInterval[s]
           x == 2^Least(e, EmptyShift)
           y == 2^Least(f, FailShift)
           X == 2^EmptyShift
           Y == 2^FailShift
<1>1. b \in Nat /\ EmptyShift \in Nat /\ FailShift \in Nat
  BY SearchesAssumption, WeightsAssumption
<1>2. Least(e, EmptyShift) \in Nat /\ Least(e, EmptyShift) <= EmptyShift
      /\ Least(f, FailShift) \in Nat /\ Least(f, FailShift) <= FailShift
  BY <1>1 DEF Least
<1>3. x \in Nat /\ X \in Nat /\ 1 <= x /\ x <= X /\ y \in Nat /\ Y \in Nat /\ 1 <= y /\ y <= Y
  BY <1>1, <1>2, Powers
<1>4. nextRunAtAfter(s, e, f) = b * x * y /\ MaxWait(s) = b * X * Y
  BY DEF nextRunAtAfter, MaxWait
<1> HIDE DEF b, x, y, X, Y
<1>5. b * x \in Nat /\ b * X \in Nat /\ b * x <= b * X
  BY <1>1, <1>3, Products
<1>6. (b * x) * y \in Nat /\ (b * X) * y \in Nat /\ (b * x) * y <= (b * X) * y
  BY <1>3, <1>5, Products
<1>7. (b * X) * Y \in Nat /\ (b * X) * y <= (b * X) * Y
  BY <1>3, <1>5, Products
<1>8. 1 <= X /\ 1 <= Y
  BY <1>3
<1>9. b * 1 = b /\ (b * X) * 1 = b * X
  BY <1>1, <1>5
<1>10. b <= b * X /\ b * X <= (b * X) * Y
  BY <1>1, <1>3, <1>5, <1>8, <1>9, Products
<1>11. \A p, q, r \in Nat : p <= q /\ q <= r => p \in 0..r
  OBVIOUS
<1> QED
  BY <1>1, <1>4, <1>5, <1>6, <1>7, <1>10, <1>11 DEF b
-----------------------------------------------------------------------------
(* Types.                                                                   *)

Signals == {"none", "recent", "old"}

ScheduleInv == TypeOK /\ search = [s \in Searches |-> search[s]]

LEMMA RowFields ==
  ASSUME NEW s \in Searches, NEW r \in Row(s)
  PROVE  /\ r.live \in BOOLEAN /\ r.fresh \in BOOLEAN /\ r.wait \in -MaxStaleness..MaxWait(s)
         /\ r.empty \in 0..EmptyTop /\ r.fail \in 0..FailTop /\ r.signal \in Signals
         /\ r = [live |-> r.live, fresh |-> r.fresh, wait |-> r.wait,
                 empty |-> r.empty, fail |-> r.fail, signal |-> r.signal]
  BY DEF Row, Signals

LEMMA RowMade ==
  ASSUME NEW s \in Searches, NEW live \in BOOLEAN, NEW fresh \in BOOLEAN,
         NEW wait \in -MaxStaleness..MaxWait(s), NEW empty \in 0..EmptyTop, NEW fail \in 0..FailTop,
         NEW signal \in Signals
  PROVE  [live |-> live, fresh |-> fresh, wait |-> wait, empty |-> empty, fail |-> fail, signal |-> signal] \in Row(s)
  BY DEF Row, Signals

LEMMA RowChanged ==
  ASSUME NEW s \in Searches, NEW r \in Row(s), NEW live \in BOOLEAN, NEW wait \in -MaxStaleness..MaxWait(s)
  PROVE  /\ [r EXCEPT !.fresh = FALSE, !.wait = wait] \in Row(s)
         /\ [r EXCEPT !.wait = wait] \in Row(s)
         /\ [r EXCEPT !.live = live] \in Row(s)
         /\ [r EXCEPT !.signal = "old"] \in Row(s)
  BY DEF Row

LEMMA InitTyped == Init => ScheduleInv
<1> SUFFICES ASSUME Init PROVE ScheduleInv
  OBVIOUS
<1>1. ASSUME NEW s \in Searches
      PROVE  NewRow(TRUE) \in Row(s)
  <2>1. 0 \in -MaxStaleness..MaxWait(s) /\ 0 \in 0..EmptyTop /\ 0 \in 0..FailTop
    BY Backoff, WeightsAssumption, TopAssumption
  <2> QED
    BY <2>1, RowMade DEF NewRow, Signals
<1>2. \A s \in Searches : search[s] \in Row(s)
  BY <1>1 DEF Init
<1>3. search = [s \in Searches |-> search[s]]
  BY DEF Init
<1>4. task \in [Passes -> [Searches -> Snapshot \cup {NoTask}]] /\ overloadedTicks \in 0..2
  BY DEF Init
<1> QED
  BY <1>2, <1>3, <1>4 DEF Init, ScheduleInv, TypeOK

LEMMA StepTyped == ScheduleInv /\ [Next]_vars => ScheduleInv'
<1> SUFFICES ASSUME ScheduleInv, [Next]_vars PROVE ScheduleInv'
  OBVIOUS
<1>0. /\ MaxStaleness \in Nat /\ EmptyTop \in Nat /\ FailTop \in Nat
      /\ \A s \in Searches : MaxWait(s) \in Nat /\ BaseInterval[s] \in 0..MaxWait(s)
  BY Backoff, WeightsAssumption, TopAssumption
<1>1. CASE UNCHANGED vars
  BY <1>1 DEF vars, ScheduleInv, TypeOK, Row, MaxWait
<1>2. CASE RunAllNow
  <2>1. ASSUME NEW s \in Searches
        PROVE  search'[s] \in Row(s)
    <3>1. search[s] \in Row(s) /\ BaseInterval[s] \in -MaxStaleness..MaxWait(s)
      BY <1>0 DEF ScheduleInv, TypeOK
    <3>2. [search[s] EXCEPT !.fresh = FALSE, !.wait = BaseInterval[s]] \in Row(s)
      BY <3>1, RowChanged
    <3> QED
      BY <1>2, <3>1, <3>2 DEF RunAllNow
  <2>2. search' = [s \in Searches |-> search'[s]]
    BY <1>2 DEF RunAllNow
  <2>3. \A C : Plan(C) \in [Searches -> Snapshot \cup {NoTask}]
    <3>1. \A s \in Searches : [empty |-> search[s].empty, fail |-> search[s].fail, signal |-> search[s].signal] \in Snapshot
      BY RowFields DEF ScheduleInv, TypeOK, Snapshot, Signals
    <3> QED
      BY <3>1 DEF Plan
  <2>4. task' \in [Passes -> [Searches -> Snapshot \cup {NoTask}]]
    BY <1>2, <2>3 DEF RunAllNow, ScheduleInv, TypeOK
  <2>5. overloadedTicks' \in 0..2
    <3>1. \A t \in 0..2 : Least(t + 1, 2) \in 0..2
      BY DEF Least
    <3>2. overloadedTicks \in 0..2 /\ 0 \in 0..2
      BY DEF ScheduleInv, TypeOK
    <3>3. overloadedTicks' = updateOverloadState(candidates)
      BY <1>2 DEF RunAllNow
    <3> QED
      BY <3>1, <3>2, <3>3 DEF updateOverloadState
  <2> QED
    BY <1>2, <2>1, <2>2, <2>4, <2>5 DEF RunAllNow, ScheduleInv, TypeOK
<1>3. CASE Tick
  <2>1. PICK k \in 1..MaxLag : search' = [s \in Searches |-> Elapse(search[s], k)]
    BY <1>3 DEF Tick
  <2>2. ASSUME NEW s \in Searches
        PROVE  Elapse(search[s], k) \in Row(s)
    <3>1. search[s] \in Row(s) /\ search[s].wait \in -MaxStaleness..MaxWait(s)
      BY RowFields DEF ScheduleInv, TypeOK
    <3>2. Most(search[s].wait - k, -MaxStaleness) \in -MaxStaleness..MaxWait(s)
      BY <1>0, <3>1, WeightsAssumption DEF Most
    <3>3. [search[s] EXCEPT !.wait = Most(search[s].wait - k, -MaxStaleness)] \in Row(s)
      BY <3>1, <3>2, RowChanged
    <3> QED
      BY <3>1, <3>3 DEF Elapse
  <2> QED
    BY <1>3, <2>1, <2>2 DEF Tick, ScheduleInv, TypeOK
<1>4. ASSUME NEW p \in Passes, NEW s \in Searches, RunTask(p, s)
      PROVE  ScheduleInv'
  <2> DEFINE old == task[p][s]
  <2>1. old \in Snapshot
    BY <1>4 DEF RunTask, ScheduleInv, TypeOK
  <2>2. old.empty \in 0..EmptyTop /\ old.fail \in 0..FailTop /\ old.signal \in Signals
    BY <2>1 DEF Snapshot, Signals
  <2> DEFINE Empty(o) == CASE o = "failed" -> old.empty
                           [] o = "empty" -> Least(old.empty + 1, EmptyTop)
                           [] OTHER -> 0
             Fail(o) == IF o = "failed" THEN Least(old.fail + 1, FailTop) ELSE 0
             Signal(o) == IF o = "deal" \/ (o = "found" /\ old.signal = "none") THEN "recent" ELSE old.signal
  <2>10. PICK o \in Outcomes :
           search' = [search EXCEPT ![s] =
              [live |-> @.live, fresh |-> FALSE, wait |-> nextRunAtAfter(s, Empty(o), Fail(o)),
               empty |-> Empty(o), fail |-> Fail(o), signal |-> Signal(o)]]
    BY <1>4 DEF RunTask
  <2> DEFINE empty == Empty(o)
             fail == Fail(o)
             signal == Signal(o)
  <2>3. /\ empty \in {old.empty, Least(old.empty + 1, EmptyTop), 0}
        /\ fail \in {Least(old.fail + 1, FailTop), 0} /\ signal \in {"recent", old.signal}
    BY DEF Outcomes
  <2>4. empty \in 0..EmptyTop /\ fail \in 0..FailTop /\ signal \in Signals
    BY <1>0, <2>2, <2>3 DEF Least, Signals
  <2>5. nextRunAtAfter(s, empty, fail) \in -MaxStaleness..MaxWait(s)
    BY <1>0, <2>4, Backoff
  <2> HIDE DEF empty, fail, signal
  <2>6. PICK row : row = [live |-> search[s].live, fresh |-> FALSE, wait |-> nextRunAtAfter(s, empty, fail),
                          empty |-> empty, fail |-> fail, signal |-> signal]
    OBVIOUS
  <2>7. row \in Row(s)
    BY <2>4, <2>5, <2>6, RowMade, RowFields DEF ScheduleInv, TypeOK
  <2>8. search' = [search EXCEPT ![s] = row]
    BY <2>10, <2>6 DEF empty, fail, signal
  <2>9. search' = [r \in Searches |-> search'[r]] /\ \A r \in Searches : search'[r] \in Row(r)
    BY <2>7, <2>8 DEF ScheduleInv, TypeOK
  <2>11. task' \in [Passes -> [Searches -> Snapshot \cup {NoTask}]]
    BY <1>4 DEF RunTask, ScheduleInv, TypeOK
  <2> QED
    BY <1>4, <2>9, <2>11 DEF RunTask, ScheduleInv, TypeOK
<1>5. ASSUME NEW r \in Requests, NEW s \in Searches, GiveUp(r, s)
      PROVE  ScheduleInv'
  <2>1. task' \in [Passes -> [Searches -> Snapshot \cup {NoTask}]]
    BY <1>5 DEF GiveUp, ScheduleInv, TypeOK
  <2> QED
    BY <1>5, <2>1 DEF GiveUp, ScheduleInv, TypeOK
<1>6. ASSUME NEW r \in Requests, NEW u \in Users, RunUserNow(r, u)
      PROVE  ScheduleInv'
  <2>1. \A C : Plan(C) \in [Searches -> Snapshot \cup {NoTask}]
    <3>1. \A s \in Searches : [empty |-> search[s].empty, fail |-> search[s].fail, signal |-> search[s].signal] \in Snapshot
      BY RowFields DEF ScheduleInv, TypeOK, Snapshot, Signals
    <3> QED
      BY <3>1 DEF Plan
  <2>2. task' \in [Passes -> [Searches -> Snapshot \cup {NoTask}]]
    BY <1>6, <2>1 DEF RunUserNow, ScheduleInv, TypeOK
  <2> QED
    BY <1>6, <2>2 DEF RunUserNow, ScheduleInv, TypeOK
<1>7. ASSUME NEW s \in Searches, UpdateSearchConfig(s) \/ Recheck(s) \/ SignalAges(s)
      PROVE  ScheduleInv'
  <2>1. PICK row \in Row(s) : search' = [search EXCEPT ![s] = row]
    <3>1. search[s] \in Row(s) /\ 0 \in -MaxStaleness..MaxWait(s) /\ 0 \in 0..EmptyTop /\ 0 \in 0..FailTop
      BY <1>0 DEF ScheduleInv, TypeOK
    <3>2. CASE UpdateSearchConfig(s)
      <4>1. \A live \in BOOLEAN : NewRow(live) \in Row(s)
        BY <3>1, RowMade DEF NewRow, Signals
      <4>2. \A live \in BOOLEAN : [search[s] EXCEPT !.live = live] \in Row(s)
        BY <3>1, RowChanged
      <4> QED
        BY <3>2, <4>1, <4>2 DEF UpdateSearchConfig
    <3>3. CASE Recheck(s)
      <4>1. [search[s] EXCEPT !.fresh = FALSE, !.wait = 0] \in Row(s)
        BY <3>1, RowChanged
      <4> QED
        BY <3>3, <4>1 DEF Recheck
    <3>4. CASE SignalAges(s)
      <4>1. [search[s] EXCEPT !.signal = "old"] \in Row(s)
        BY <3>1, RowChanged
      <4> QED
        BY <3>4, <4>1 DEF SignalAges
    <3> QED
      BY <1>7, <3>2, <3>3, <3>4
  <2>2. search' = [r \in Searches |-> search'[r]] /\ \A r \in Searches : search'[r] \in Row(r)
    BY <2>1 DEF ScheduleInv, TypeOK
  <2> QED
    BY <1>7, <2>2 DEF UpdateSearchConfig, Recheck, SignalAges, ScheduleInv, TypeOK
<1> QED
  BY <1>1, <1>2, <1>3, <1>4, <1>5, <1>6, <1>7, SearchesAssumption DEF Next

\* Every counter stays in its range, and no search is put further away than its
\* interval times the two largest backoff factors (nextRunAtAfter).
THEOREM ScheduleTyping == Spec => []TypeOK
<1>1. ScheduleInv => TypeOK
  BY DEF ScheduleInv
<1> QED
  BY <1>1, InitTyped, StepTyped, PTL DEF Spec

-----------------------------------------------------------------------------
(* Deferral.                                                                *)

LEMMA CandidatesFinite == IsFiniteSet(candidates) /\ candidates \subseteq Searches
  BY SearchesAssumption, FS_Subset DEF candidates

\* Whoever finds something is not deferrable, and the fewer compete for the
\* owner's slots the fewer are ahead.
THEOREM ProductiveAreSpared == Spec => []ProductiveSearchesSpared
<1>1. ProductiveSearchesSpared
  <2> DEFINE C == candidates
             D == DeferredNow
             Ahead(s, S) == {t \in S : Owner[t] = Owner[s] /\ Before(t, s)}
  <2>1. ASSUME NEW s \in finalizeDispatchOrder(C), search[s].empty = 0
        PROVE  s \in DispatchedNow
    <3>1. s \in C /\ Cardinality(Ahead(s, C)) < MaxDispatchPerTick[Owner[s]]
      BY DEF finalizeDispatchOrder
    <3>2. s \notin D
      BY <2>1 DEF DeferredNow, deferOverloadedCandidates, Deferrable
    <3>3. IsFiniteSet(Ahead(s, C)) /\ Ahead(s, C \ D) \in SUBSET Ahead(s, C)
      BY CandidatesFinite, FS_Subset
    <3>4. /\ Cardinality(Ahead(s, C \ D)) <= Cardinality(Ahead(s, C))
          /\ Cardinality(Ahead(s, C)) \in Nat /\ Cardinality(Ahead(s, C \ D)) \in Nat
      BY <3>3, FS_Subset, FS_CardinalityType
    <3>5. MaxDispatchPerTick[Owner[s]] \in Nat
      BY <3>1, CandidatesFinite, SearchesAssumption
    <3>6. Cardinality(Ahead(s, C \ D)) < MaxDispatchPerTick[Owner[s]]
      BY <3>1, <3>4, <3>5
    <3> QED
      BY <3>1, <3>2, <3>6 DEF DispatchedNow, finalizeDispatchOrder
  <2> QED
    BY <2>1 DEF ProductiveSearchesSpared
<1> QED
  BY <1>1, PTL
LEMMA PriorityTyped ==
  ASSUME ScheduleInv, NEW s \in Searches
  PROVE  computePriority(s) \in Int
<1>1. /\ search[s].wait \in Int /\ search[s].empty \in Nat /\ search[s].fail \in Nat
  <2>1. search[s] \in Row(s)
    BY DEF ScheduleInv, TypeOK
  <2>2. /\ search[s].wait \in -MaxStaleness..MaxWait(s)
        /\ search[s].empty \in 0..EmptyTop /\ search[s].fail \in 0..FailTop
    BY <2>1, RowFields
  <2>3. MaxStaleness \in Nat /\ MaxWait(s) \in Nat /\ EmptyTop \in Nat /\ FailTop \in Nat
    BY Backoff, WeightsAssumption, TopAssumption
  <2> QED
    BY <2>2, <2>3
<1>2. stalenessWeight(s) \in Int
  BY <1>1, SearchesAssumption, WeightsAssumption DEF stalenessWeight, Least, Most
<1>3. /\ Least(EmptyStep * search[s].empty, EmptyCap) \in Int
      /\ Least(FailStep * search[s].fail, FailCap) \in Int
  <2>1. EmptyStep * search[s].empty \in Int /\ FailStep * search[s].fail \in Int
    BY <1>1, WeightsAssumption
  <2> QED
    BY <2>1, WeightsAssumption DEF Least
<1>4. Weight[s] \in Int /\ SignalBoost \in Int
  BY SearchesAssumption, WeightsAssumption
<1> QED
  BY <1>2, <1>3, <1>4 DEF computePriority

LEMMA DefersInOrder ==
  ASSUME ScheduleInv
  PROVE  /\ \A s, t \in Searches : s # t => DefersBefore(s, t) \/ DefersBefore(t, s)
         /\ \A s \in Searches : ~DefersBefore(s, s)
         /\ \A r, s, t \in Searches : DefersBefore(r, s) /\ DefersBefore(s, t) => DefersBefore(r, t)
<1>1. \A s \in Searches : s \in Int /\ computePriority(s) \in Int
  BY PriorityTyped, SearchesAssumption
<1> QED
  BY <1>1 DEF DefersBefore

\* Of a set no more than k have fewer than k before them.
LEMMA FirstOnes ==
  ASSUME ScheduleInv, NEW E, IsFiniteSet(E), E \subseteq Searches, NEW k \in Nat
  PROVE  Cardinality({s \in E : Cardinality({t \in E : DefersBefore(t, s)}) < k}) <= k
<1> DEFINE Ahead(s) == {t \in E : DefersBefore(t, s)}
           D == {s \in E : Cardinality(Ahead(s)) < k}
<1>1. \A s \in E : IsFiniteSet(Ahead(s)) /\ Cardinality(Ahead(s)) \in Nat
  <2>1. \A s \in E : Ahead(s) \in SUBSET E
    OBVIOUS
  <2> QED
    BY <2>1, FS_Subset, FS_CardinalityType
<1>2. IsFiniteSet(D) /\ Cardinality(D) \in Nat
  BY FS_Subset, FS_CardinalityType
<1>3. CASE D = {}
  <2>1. Cardinality({}) <= k
    BY FS_EmptySet
  <2> QED
    BY <1>3, <2>1
<1>4. CASE D # {}
  <2> DEFINE Room == {k - Cardinality(Ahead(s)) : s \in D}
  <2>1. Room \subseteq Nat /\ Room # {}
    <3>1. \A x \in Nat : x < k => k - x \in Nat
      OBVIOUS
    <3>2. \A s \in D : Cardinality(Ahead(s)) \in Nat /\ Cardinality(Ahead(s)) < k
      BY <1>1
    <3> HIDE DEF Ahead, D
    <3> QED
      BY <1>4, <3>1, <3>2
  <2> HIDE DEF Room
  <2>2. PICK least \in Room : \A n \in Room : least <= n
    BY <2>1, LeastNat
  <2>3. PICK m \in D : least = k - Cardinality(Ahead(m))
    BY <2>2 DEF Room
  <2>4. ASSUME NEW s \in D
        PROVE  Cardinality(Ahead(s)) <= Cardinality(Ahead(m))
    <3>1. k - Cardinality(Ahead(m)) <= k - Cardinality(Ahead(s))
      BY <2>2, <2>3 DEF Room
    <3>2. Cardinality(Ahead(m)) \in Nat /\ Cardinality(Ahead(s)) \in Nat
      BY <1>1
    <3>3. \A x, y \in Nat : k - y <= k - x => x <= y
      OBVIOUS
    <3> QED
      BY <3>1, <3>2, <3>3
  <2>5. ASSUME NEW s \in D, s # m
        PROVE  s \in Ahead(m)
    <3> SUFFICES ASSUME DefersBefore(m, s)
                 PROVE  FALSE
      BY <2>5, DefersInOrder
    <3>1. Ahead(m) \cup {m} \in SUBSET Ahead(s)
      BY DefersInOrder
    <3>2. Cardinality(Ahead(m) \cup {m}) = Cardinality(Ahead(m)) + 1
      <4>1. m \notin Ahead(m)
        BY DefersInOrder
      <4> QED
        BY <1>1, <4>1, FS_AddElement
    <3>3. Cardinality(Ahead(m) \cup {m}) <= Cardinality(Ahead(s))
      BY <1>1, <3>1, FS_Subset
    <3>4. Cardinality(Ahead(m)) \in Nat /\ Cardinality(Ahead(s)) \in Nat
      BY <1>1
    <3> HIDE DEF Ahead
    <3> QED
      BY <2>4, <3>2, <3>3, <3>4
  <2>6. D \ {m} \in SUBSET Ahead(m)
    BY <2>5
  <2>7. Cardinality(D \ {m}) = Cardinality(D) - 1
    BY <1>2, FS_RemoveElement
  <2>8. Cardinality(D \ {m}) <= Cardinality(Ahead(m))
    BY <1>1, <2>6, FS_Subset
  <2>9. Cardinality(Ahead(m)) < k /\ Cardinality(Ahead(m)) \in Nat
    BY <1>1
  <2> HIDE DEF D, Ahead
  <2>10. Cardinality(D) <= k
    BY <1>2, <2>7, <2>8, <2>9
  <2> QED
    BY <2>10 DEF D, Ahead
<1> QED
  BY <1>3, <1>4

LEMMA BudgetTyped ==
  ASSUME NEW C \in SUBSET Searches, IsFiniteSet(C)
  PROVE  dispatchBudget(C) \in Nat
<1> DEFINE owner == [s \in C |-> Owner[s]]
           slots == [u \in OwnersOf(C) |-> {u} \X (1..MaxDispatchPerTick[u])]
           T == {slots[u] : u \in OwnersOf(C)}
<1>1. IsFiniteSet(OwnersOf(C)) /\ OwnersOf(C) \subseteq Users
  <2>1. owner \in Surjection(C, OwnersOf(C))
    BY DEF OwnersOf, Surjection
  <2>2. OwnersOf(C) \subseteq Users
    BY SearchesAssumption DEF OwnersOf
  <2> HIDE DEF owner
  <2> QED
    BY <2>1, <2>2, FS_Surjection
<1>2. \A u \in OwnersOf(C) : IsFiniteSet({u} \X (1..MaxDispatchPerTick[u]))
  <2>1. \A u \in OwnersOf(C) : IsFiniteSet({u}) /\ IsFiniteSet(1..MaxDispatchPerTick[u])
    BY <1>1, FS_Singleton, FS_Interval, SearchesAssumption
  <2> QED
    BY <2>1, FS_Product
<1>3. slots \in Surjection(OwnersOf(C), T)
  BY DEF Surjection
<1>4. \A S \in T : IsFiniteSet(S)
  BY <1>2
<1>5. UNION T = UNION {{u} \X (1..MaxDispatchPerTick[u]) : u \in OwnersOf(C)}
  OBVIOUS
<1> HIDE DEF T, slots
<1>6. IsFiniteSet(T)
  BY <1>1, <1>3, FS_Surjection
<1>7. IsFiniteSet(UNION T)
  BY <1>4, <1>6, FS_UNION
<1> QED
  BY <1>5, <1>7, FS_CardinalityType DEF dispatchBudget

\* Deferral takes the candidates that come first in its order, as many as there
\* are too many at the most.
THEOREM DeferralStops == Spec => []DeferralStopsAtBudget
<1>1. ScheduleInv => DeferralStopsAtBudget
  <2> SUFFICES ASSUME ScheduleInv PROVE DeferralStopsAtBudget
    OBVIOUS
  <2> DEFINE C == candidates
             D == DeferredNow
             b == dispatchBudget(C)
             E == {s \in C : Deferrable(s)}
  <2>1. IsFiniteSet(C) /\ Cardinality(C) \in Nat /\ b \in Nat /\ C \subseteq Searches
    BY CandidatesFinite, BudgetTyped, FS_CardinalityType
  <2>2. CASE D = {}
    <3>1. C \ D = C
      BY <2>2
    <3>2. \A x, y \in Nat : x >= Least(x, y)
      BY DEF Least
    <3> QED
      BY <2>1, <3>1, <3>2 DEF DeferralStopsAtBudget
  <2>3. CASE D # {}
    <3>1. D = {s \in E : Cardinality({t \in E : DefersBefore(t, s)}) < Cardinality(C) - b}
      BY <2>3 DEF DeferredNow, deferOverloadedCandidates
    <3>3. IsFiniteSet(E) /\ E \subseteq Searches /\ E \subseteq C
      BY <2>1, FS_Subset
    <3>4. CASE Cardinality(C) - b \in Nat
      <4>1. Cardinality(D) <= Cardinality(C) - b
        BY <3>1, <3>3, <3>4, FirstOnes
      <4>2. D \in SUBSET C
        BY <3>1
      <4> HIDE DEF D, C, E, b
      <4>3. C \cap D = D /\ IsFiniteSet(D) /\ Cardinality(D) \in Nat
        BY <2>1, <4>2, FS_Subset, FS_CardinalityType
      <4>4. Cardinality(C \ D) = Cardinality(C) - Cardinality(D)
        BY <2>1, <4>3, FS_Difference
      <4>5. \A x, y, z \in Nat : z <= x - y => x - z >= Least(x, y)
        BY DEF Least
      <4>6. Cardinality(C \ D) >= Least(Cardinality(C), b)
        BY <2>1, <4>1, <4>3, <4>4, <4>5
      <4> QED
        BY <4>6 DEF DeferralStopsAtBudget, D, C, b
    <3>5. CASE Cardinality(C) - b \notin Nat
      <4>1. \A s \in E : Cardinality({t \in E : DefersBefore(t, s)}) \in Nat
        <5>1. \A s \in E : {t \in E : DefersBefore(t, s)} \in SUBSET E
          OBVIOUS
        <5> QED
          BY <3>3, <5>1, FS_Subset, FS_CardinalityType
      <4>2. \A x, y, z \in Nat : z < x - y => x - y \in Nat
        OBVIOUS
      <4> QED
        BY <2>1, <2>3, <3>1, <3>5, <4>1, <4>2
    <3> QED
      BY <3>4, <3>5
  <2> QED
    BY <2>2, <2>3
<1> QED
  BY <1>1, InitTyped, StepTyped, PTL DEF Spec
=============================================================================
