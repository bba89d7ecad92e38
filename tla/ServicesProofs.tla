-------------------------- MODULE ServicesProofs ---------------------------
(***************************************************************************)
(* What holds of the services beside the worker, each for any number of     *)
(* requests and any limits: missions and the conversations that make them,  *)
(* the hourly limits on model calls, the daily breaker of the public analysis *)
(* and the support events.                                                  *)
(*                                                                         *)
(* Limits: pruning takes only what is too old, and takes it from the front; *)
(* so a window and the history have the same calls from now on.             *)
(* Breaker: a request corrects the ledger at whatever day the ledger is;    *)
(* what makes this right is that an open request, the ledger and the clock  *)
(* are on the same day as long as none was open across midnight.            *)
(* Support: that an incident on record was paged follows from where a       *)
(* worker stands: past the pages it holds an answer for which somebody was  *)
(* told, unless the process was told to stop, and then it cannot record it  *)
(* any more.                                                                *)
(***************************************************************************)
EXTENDS Missions, AssistantChat, SupportPipeline, AnonymousAnalyze, CallLimits, NatSets

-----------------------------------------------------------------------------
(* Missions: the inductive invariant.                                       *)

\* What a request or a goroutine can be at, with what it carries along.
Work ==
  {Idle}
  \cup [at : {"limits", "insert"}, key : PostKeys]
  \cup [at : {"record"}, key : PostKeys, row : Rows, id : Ids]
  \cup [at : {"expand", "persist", "deploy"}, id : Ids, row : Rows]
  \cup [at : {"create"}, id : Ids, todo : SUBSET {"target", "variant"}]
  \cup [at : {"put", "reread", "status", "delete", "search", "own"}, id : Ids]

Entries == {NoEntry} \cup [id : Ids, age : 0..Ttl]

OnMission(w) == doing[w].at \notin {"idle", "limits", "insert"}
Posting(r, k) == doing[r].at \in {"limits", "insert", "record"} /\ doing[r].key = k
Creating(w, m) == doing[w].at = "create" /\ doing[w].id = m

Typed ==
  /\ mission \in [Ids -> Rows \cup {Never, Gone}]
  /\ searches \in [Ids -> [SearchKeys -> 0..2]]
  /\ doing \in [Requests \cup Ids -> Work]
  /\ cache \in [PostKeys -> Entries] /\ told \in [PostKeys -> Entries]
  /\ muddled \subseteq Ids /\ crossed \subseteq PostKeys /\ events \in 0..MaxEvents

\* Nothing in memory names a mission that was never created.
Grounded ==
  /\ \A w \in Requests \cup Ids : OnMission(w) => mission[doing[w].id] # Never
  /\ \A k \in PostKeys : cache[k] # NoEntry => mission[cache[k].id] # Never

\* The cache has every fresh answer, and a key of which two requests never were
\* under way together has one under way at most, and none while it is fresh.
Answered ==
  \A k \in PostKeys :
    /\ Fresh(told[k]) => cache[k] = told[k]
    /\ k \notin crossed =>
         /\ \A r, s \in Requests : Posting(r, k) /\ Posting(s, k) => r = s
         /\ Fresh(told[k]) => \A r \in Requests : ~Posting(r, k)

\* Of a mission whose operations did not overlap and did not fail: one deploy at
\* a time, which still has to create only what is not there; and nobody holds it
\* once it is gone.
Orderly ==
  \A m \in Ids \ muddled :
    /\ ~Exists(m) => searches[m] = NoSearches /\ Holders(m) = {}
    /\ \A w, v \in Requests \cup Ids : Creating(w, m) /\ Creating(v, m) => w = v
    /\ \A w \in Requests \cup Ids : Creating(w, m) =>
         \A k \in doing[w].todo : searches[m][k] = 0
    /\ searches[m]["target"] < 2 /\ searches[m]["variant"] < 2

MissionsInv == Typed /\ Grounded /\ Answered /\ Orderly

-----------------------------------------------------------------------------
(* The values.                                                              *)

LEMMA RowFacts ==
  ASSUME NEW row \in Rows
  PROVE  /\ row \in [status : Statuses, active : BOOLEAN, queries : {"thin", "full"}]
         /\ row.active = (row.status = "active")
         /\ row.status \in Statuses /\ row.queries \in {"thin", "full"}
         /\ row # Never /\ row # Gone
         /\ \A queries \in {"thin", "full"} : [row EXCEPT !.queries = queries] \in Rows
         /\ \A status \in Statuses : Record(status, row.queries) \in Rows
<1>1. PICK status \in Statuses, queries \in {"thin", "full"} : row = Record(status, queries)
  BY DEF Rows
<1>2. row.status = status /\ row.queries = queries /\ row.active = (row.status = "active")
  BY <1>1, Zenon DEF Record
<1>3. row # Never /\ row # Gone
  <2>1. Never.status = "never" /\ Gone.status = "gone"
    BY DEF Never, Gone
  <2>2. row.status # "never" /\ row.status # "gone"
    BY <1>2 DEF Statuses
  <2> QED
    BY <2>1, <2>2
<1>4. ASSUME NEW q \in {"thin", "full"}
      PROVE  [row EXCEPT !.queries = q] \in Rows
  <2>1. [row EXCEPT !.queries = q] = Record(status, q)
    BY <1>1 DEF Record
  <2> QED
    BY <2>1 DEF Rows
<1>5. \A s \in Statuses : Record(s, row.queries) \in Rows
  BY <1>2 DEF Rows
<1>6. row \in [status : Statuses, active : BOOLEAN, queries : {"thin", "full"}]
  BY <1>1, Zenon DEF Record
<1> QED
  BY <1>2, <1>3, <1>4, <1>5, <1>6

\* UpsertMission without an id takes one that was never used.
LEMMA NextFree ==
  ASSUME CanInsert
  PROVE  NextId \in Ids /\ mission[NextId] = Never
<1> DEFINE Free == {m \in Ids : mission[m] = Never}
<1>1. Free \subseteq Nat /\ Free # {}
  BY IdsAssumption DEF CanInsert
<1>2. PICK m \in Free : \A n \in Free : m <= n
  <2> HIDE DEF Free
  <2> QED
    BY <1>1, LeastNat
<1>3. \A n \in Ids : n < m => mission[n] # Never
  <2> SUFFICES ASSUME NEW n \in Ids, n < m, mission[n] = Never PROVE FALSE
    OBVIOUS
  <2>1. n \in Free /\ n \in Nat /\ m \in Nat
    BY <1>1
  <2> QED
    BY <1>2, <2>1
<1> QED
  BY <1>2, <1>3 DEF NextId

\* What each kind of work carries along.
LEMMA WorkFields ==
  ASSUME NEW d \in Work
  PROVE  /\ d.at \in {"limits", "insert"} =>
              /\ d.key \in PostKeys
              /\ [d EXCEPT !.at = "insert"] = [at |-> "insert", key |-> d.key]
         /\ d.at = "record" => d.key \in PostKeys /\ d.row \in Rows /\ d.id \in Ids
         /\ d.at \in {"expand", "persist", "deploy"} =>
              /\ d.row \in Rows /\ d.id \in Ids
              /\ d = [at |-> d.at, id |-> d.id, row |-> d.row]
         /\ d.at = "create" =>
              /\ d.todo \in SUBSET {"target", "variant"} /\ d.id \in Ids
              /\ d = [at |-> "create", id |-> d.id, todo |-> d.todo]
         /\ d.at \in {"put", "reread", "status", "delete", "search", "own"} =>
              /\ d.id \in Ids
              /\ d = [at |-> d.at, id |-> d.id]
         /\ d = Idle <=> d.at = "idle"
         /\ d.at \notin {"idle", "limits", "insert"} => d.id \in Ids
<1>1. CASE d = Idle
  BY <1>1 DEF Idle
<1>2. CASE d \in [at : {"limits", "insert"}, key : PostKeys]
  BY <1>2 DEF Idle
<1>3. CASE d \in [at : {"record"}, key : PostKeys, row : Rows, id : Ids]
  BY <1>3 DEF Idle
<1>4. CASE d \in [at : {"expand", "persist", "deploy"}, id : Ids, row : Rows]
  BY <1>4 DEF Idle
<1>5. CASE d \in [at : {"create"}, id : Ids, todo : SUBSET {"target", "variant"}]
  BY <1>5 DEF Idle
<1>6. CASE d \in [at : {"put", "reread", "status", "delete", "search", "own"}, id : Ids]
  BY <1>6 DEF Idle
<1> QED
  BY <1>1, <1>2, <1>3, <1>4, <1>5, <1>6 DEF Work

\* A piece of work that is about to write to mission m.
Holds(d, m) ==
  d.at \in {"record", "expand", "persist", "deploy", "create", "search", "own"} /\ d.id = m

LEMMA HoldersHold ==
  /\ \A m : Holders(m) = {w \in Requests \cup Ids : Holds(doing[w], m)}
  /\ \A m : Holders(m)' = {w \in Requests \cup Ids : Holds(doing'[w], m)}
BY DEF Holders, Holds

-----------------------------------------------------------------------------
(* What most steps leave alone.                                             *)

\* Searches and history stay, missions are not taken away, and what changes in
\* doing neither starts to deploy nor takes up a mission that is gone.
LEMMA OrderlyKept ==
  ASSUME Orderly, UNCHANGED <<searches, muddled>>,
         \A m \in Ids : Exists(m) => Exists(m)',
         \A w \in Requests \cup Ids :
           \/ doing'[w] = doing[w]
           \/ /\ doing'[w].at # "create"
              /\ \A m \in Ids : Holds(doing'[w], m) => Exists(m)' \/ Holders(m) # {}
  PROVE  Orderly'
<1> SUFFICES ASSUME NEW m \in Ids \ muddled
             PROVE  /\ ~Exists(m)' => searches[m] = NoSearches /\ Holders(m)' = {}
                    /\ \A w, v \in Requests \cup Ids : Creating(w, m)' /\ Creating(v, m)' => w = v
                    /\ \A w \in Requests \cup Ids : Creating(w, m)' =>
                         \A k \in doing'[w].todo : searches[m][k] = 0
                    /\ searches[m]["target"] < 2 /\ searches[m]["variant"] < 2
  BY DEF Orderly, NoSearches
<1>1. \A w \in Requests \cup Ids : Creating(w, m)' => Creating(w, m) /\ doing'[w] = doing[w]
  BY DEF Creating
<1>2. ASSUME ~Exists(m)'
      PROVE  searches[m] = NoSearches /\ Holders(m)' = {}
  <2>1. ~Exists(m) /\ searches[m] = NoSearches /\ Holders(m) = {}
    BY <1>2 DEF Orderly
  <2>2. ASSUME NEW w \in Requests \cup Ids, Holds(doing'[w], m)
        PROVE  FALSE
    <3>1. ~Holds(doing[w], m)
      BY <2>1, HoldersHold
    <3> QED
      BY <1>2, <2>1, <2>2, <3>1
  <2> QED
    BY <2>1, <2>2, HoldersHold
<1> QED
  BY <1>1, <1>2 DEF Orderly

\* The cache and what was told stay, and nobody begins to post.
LEMMA AnsweredKept ==
  ASSUME Answered, UNCHANGED <<cache, told, crossed>>,
         \A r \in Requests, k \in PostKeys : Posting(r, k)' => Posting(r, k)
  PROVE  Answered'
BY DEF Answered, Fresh

\* One piece of work moves on to d; only its mission may change, and it does
\* not disappear.
LEMMA MoveOn ==
  ASSUME MissionsInv, NEW w \in Requests \cup Ids, NEW d \in Work,
         doing' = [doing EXCEPT ![w] = d],
         UNCHANGED <<searches, cache, told, muddled, crossed>>,
         mission' \in [Ids -> Rows \cup {Never, Gone}],
         events' \in 0..MaxEvents,
         \A m \in Ids : Exists(m) => Exists(m)',
         \A m \in Ids : mission[m] # Never => mission'[m] # Never,
         d.at # "create",
         \A k \in PostKeys : d.at \in {"limits", "insert", "record"} /\ d.key = k => Posting(w, k),
         d.at \notin {"idle", "limits", "insert"} => mission'[d.id] # Never,
         \A m \in Ids : Holds(d, m) => Exists(m)' \/ Holds(doing[w], m)
  PROVE  MissionsInv'
<1>1. doing'[w] = d /\ \A v \in Requests \cup Ids : v # w => doing'[v] = doing[v]
  BY DEF MissionsInv, Typed
<1>2. Typed'
  BY DEF MissionsInv, Typed
<1>3. Grounded'
  <2>1. \A v \in Requests \cup Ids : OnMission(v)' => mission'[doing'[v].id] # Never
    <3> SUFFICES ASSUME NEW v \in Requests \cup Ids, OnMission(v)', v # w
                 PROVE  mission'[doing'[v].id] # Never
      BY <1>1 DEF OnMission
    <3>1. doing'[v] = doing[v] /\ OnMission(v) /\ doing[v] \in Work
      BY <1>1 DEF OnMission, MissionsInv, Typed
    <3>2. doing[v].id \in Ids
      BY <3>1, WorkFields DEF OnMission
    <3> QED
      BY <3>1, <3>2 DEF MissionsInv, Grounded
  <2>2. ASSUME NEW k \in PostKeys, cache[k] # NoEntry
        PROVE  mission'[cache[k].id] # Never
    <3>1. cache[k].id \in Ids
      BY <2>2 DEF MissionsInv, Typed, Entries
    <3> QED
      BY <2>2, <3>1 DEF MissionsInv, Grounded
  <2> QED
    BY <2>1, <2>2 DEF Grounded
<1>4. Answered'
  <2>1. \A r \in Requests, k \in PostKeys : Posting(r, k)' => Posting(r, k)
    BY <1>1 DEF Posting
  <2> QED
    BY <2>1, AnsweredKept DEF MissionsInv
<1>5. Orderly'
  <2>1. \A m \in Ids : Holds(d, m) => Exists(m)' \/ Holders(m) # {}
    BY HoldersHold
  <2>2. \A v \in Requests \cup Ids :
          \/ doing'[v] = doing[v]
          \/ /\ doing'[v].at # "create"
             /\ \A m \in Ids : Holds(doing'[v], m) => Exists(m)' \/ Holders(m) # {}
    BY <1>1, <2>1
  <2> QED
    BY <2>2, OrderlyKept DEF MissionsInv
<1> QED
  BY <1>2, <1>3, <1>4, <1>5 DEF MissionsInv

\* An event, or none.
LEMMA EventTyped ==
  ASSUME Typed, MissionEvent \/ UNCHANGED events
  PROVE  events' \in 0..MaxEvents
<1>1. events \in Nat /\ MaxEvents \in Nat
  BY LimitsAssumption DEF Typed
<1> QED
  BY <1>1 DEF Typed, MissionEvent

-----------------------------------------------------------------------------
(* The steps of one request or goroutine.                                   *)

\* An upsert and a status change touch no mission that is not there.
LEMMA UpdateTyped ==
  ASSUME Typed, NEW m \in Ids, NEW row \in Rows,
         mission' = Updated(m, row) \/ mission' = mission
  PROVE  /\ mission' \in [Ids -> Rows \cup {Never, Gone}]
         /\ \A n \in Ids : Exists(n) => Exists(n)'
         /\ \A n \in Ids : mission[n] # Never => mission'[n] # Never
         /\ \A n \in Ids : mission[n] = Gone => mission'[n] = Gone
<1>1. row # Never /\ row # Gone
  BY RowFacts
<1>2. \A n \in Ids : mission'[n] = mission[n] \/ (n = m /\ Exists(n) /\ mission'[n] = row)
  BY DEF Updated, Typed
<1>3. mission' \in [Ids -> Rows \cup {Never, Gone}]
  BY DEF Updated, Typed
<1> QED
  BY <1>1, <1>2, <1>3 DEF Exists

\* Where a request or goroutine stands on a mission, that mission was created.
LEMMA AtWork ==
  ASSUME MissionsInv, NEW w \in Requests \cup Ids
  PROVE  /\ doing[w] \in Work
         /\ OnMission(w) => doing[w].id \in Ids /\ mission[doing[w].id] # Never
  BY WorkFields DEF MissionsInv, Typed, Grounded, OnMission

LEMMA PostLimitsStep ==
  ASSUME MissionsInv, NEW r \in Requests, PostLimits(r)
  PROVE  MissionsInv'
<1>1. doing[r] \in Work /\ doing[r].at = "limits"
  BY AtWork DEF PostLimits
<1> DEFINE d1 == [at |-> "insert", key |-> doing[r].key]
<1>2. Idle \in Work /\ d1 \in Work
  BY <1>1, WorkFields DEF Work
<1>3. PICK d \in {Idle, d1} : doing' = [doing EXCEPT ![r] = d]
  <2>1. [doing[r] EXCEPT !.at = "insert"] = d1
    BY <1>1, WorkFields
  <2>2. doing' = [doing EXCEPT ![r] = Idle] \/ doing' = [doing EXCEPT ![r] = [doing[r] EXCEPT !.at = "insert"]]
    BY DEF PostLimits, Done, Now
  <2> QED
    BY <2>1, <2>2
<1>4. UNCHANGED <<mission, searches, cache, events, told, muddled, crossed>>
  BY DEF PostLimits, HistoryKept
<1>5. \A k \in PostKeys : d.at \in {"limits", "insert", "record"} /\ d.key = k => Posting(r, k)
  BY <1>1, <1>3 DEF Posting, Idle
<1>6. d.at \in {"idle", "insert"}
  BY <1>3 DEF Idle
<1>7. \A m \in Ids : ~Holds(d, m)
  BY <1>6 DEF Holds
<1>8. mission' \in [Ids -> Rows \cup {Never, Gone}] /\ events' \in 0..MaxEvents
  BY <1>4 DEF MissionsInv, Typed
<1>9. d \in Work /\ d.at # "create" /\ \A m \in Ids : Exists(m) => Exists(m)'
  BY <1>2, <1>3, <1>4, <1>6 DEF Exists
<1> QED
  BY <1>3, <1>4, <1>5, <1>6, <1>7, <1>8, <1>9, MoveOn

LEMMA PostInsertStep ==
  ASSUME MissionsInv, NEW r \in Requests, PostInsert(r)
  PROVE  MissionsInv'
<1>1. doing[r] \in Work /\ doing[r].at = "insert" /\ doing[r].key \in PostKeys
  BY AtWork, WorkFields DEF PostInsert
<1>2. UNCHANGED <<searches, cache, told, muddled, crossed>>
  BY DEF PostInsert, HistoryKept
<1>3. CASE /\ CanInsert
           /\ \E row \in Rows :
                /\ mission' = [mission EXCEPT ![NextId] = row]
                /\ doing' = [doing EXCEPT ![r] = [at |-> "record", key |-> @.key, row |-> row, id |-> NextId]]
           /\ UNCHANGED events
  <2>1. PICK row \in Rows :
          /\ mission' = [mission EXCEPT ![NextId] = row]
          /\ doing' = [doing EXCEPT ![r] = [at |-> "record", key |-> doing[r].key, row |-> row, id |-> NextId]]
    BY <1>3
  <2>2. PICK m \in Ids : m = NextId /\ mission[m] = Never
    BY <1>3, NextFree
  <2>3. PICK d : d = [at |-> "record", key |-> doing[r].key, row |-> row, id |-> m]
    OBVIOUS
  <2>4. /\ d \in Work /\ d.at = "record" /\ d.id = m /\ d.key = doing[r].key
        /\ doing' = [doing EXCEPT ![r] = d]
    BY <1>1, <2>1, <2>2, <2>3 DEF Work
  <2>5. row # Never /\ row # Gone
    BY RowFacts
  <2>6. /\ mission' \in [Ids -> Rows \cup {Never, Gone}]
        /\ mission'[m] = row /\ \A n \in Ids : n # m => mission'[n] = mission[n]
    BY <2>1, <2>2 DEF MissionsInv, Typed
  <2>7. /\ \A n \in Ids : Exists(n) => Exists(n)'
        /\ \A n \in Ids : mission[n] # Never => mission'[n] # Never
        /\ Exists(m)'
    BY <2>2, <2>5, <2>6 DEF Exists
  <2>8. \A k \in PostKeys : d.at \in {"limits", "insert", "record"} /\ d.key = k => Posting(r, k)
    BY <1>1, <2>4 DEF Posting
  <2>9. \A n \in Ids : Holds(d, n) => Exists(n)' \/ Holds(doing[r], n)
    BY <2>4, <2>7 DEF Holds
  <2>10. events' \in 0..MaxEvents
    BY <1>3 DEF MissionsInv, Typed
  <2>11. d.at # "create" /\ mission'[d.id] # Never
    BY <2>4, <2>5, <2>6
  <2> QED
    BY <1>2, <2>4, <2>6, <2>7, <2>8, <2>9, <2>10, <2>11, MoveOn
<1>4. CASE MissionEvent /\ Done(r) /\ UNCHANGED mission
  <2>1. /\ Idle \in Work /\ Idle.at = "idle" /\ doing' = [doing EXCEPT ![r] = Idle]
        /\ mission' \in [Ids -> Rows \cup {Never, Gone}]
        /\ \A n \in Ids : Exists(n) => Exists(n)'
        /\ \A n \in Ids : ~Holds(Idle, n)
    BY <1>4 DEF Work, Idle, Done, MissionsInv, Typed, Exists, Holds
  <2>2. events' \in 0..MaxEvents
    BY <1>4, EventTyped DEF MissionsInv
  <2> QED
    BY <1>2, <1>4, <2>1, <2>2, MoveOn
<1> QED
  BY <1>3, <1>4 DEF PostInsert

\* A step that moves one piece of work from a mission to the same mission, and
\* may update its row.
LEMMA SameMission ==
  ASSUME MissionsInv, NEW w \in Requests \cup Ids, NEW d \in Work,
         doing' = [doing EXCEPT ![w] = d],
         UNCHANGED <<searches, cache, told, muddled, crossed>>,
         events' \in 0..MaxEvents,
         OnMission(w),
         NEW row \in Rows,
         mission' = Updated(doing[w].id, row) \/ mission' = mission,
         d.at \notin {"create", "limits", "insert", "record"},
         d.at = "idle" \/ (d.at # "idle" /\ d.id = doing[w].id),
         \A m \in Ids : Holds(d, m) => Exists(m)' \/ Holds(doing[w], m)
  PROVE  MissionsInv'
<1>1. doing[w].id \in Ids /\ mission[doing[w].id] # Never
  BY AtWork
<1>2. /\ mission' \in [Ids -> Rows \cup {Never, Gone}]
      /\ \A n \in Ids : Exists(n) => Exists(n)'
      /\ \A n \in Ids : mission[n] # Never => mission'[n] # Never
  BY <1>1, UpdateTyped DEF MissionsInv
<1> QED
  BY <1>1, <1>2, MoveOn

LEMMA EnsureSearchVariantsStep ==
  ASSUME MissionsInv, NEW m \in Ids, EnsureSearchVariants(m)
  PROVE  MissionsInv'
<1>1. /\ doing[m] \in Work /\ doing[m].at = "expand" /\ doing[m].row \in Rows /\ doing[m].id \in Ids
      /\ doing[m] = [at |-> "expand", id |-> doing[m].id, row |-> doing[m].row]
  BY AtWork, WorkFields DEF EnsureSearchVariants
<1>2. PICK queries \in {doing[m].row.queries, "full"} :
        doing' = [doing EXCEPT ![m] =
          [at |-> "persist", id |-> doing[m].id, row |-> [doing[m].row EXCEPT !.queries = queries]]]
  BY DEF EnsureSearchVariants
<1>3. PICK row \in Rows : row = [doing[m].row EXCEPT !.queries = queries]
  BY <1>1, RowFacts
<1>4. PICK d : d = [at |-> "persist", id |-> doing[m].id, row |-> row]
  OBVIOUS
<1>6. d \in Work /\ d.at = "persist" /\ d.id = doing[m].id /\ doing' = [doing EXCEPT ![m] = d]
  <2>1. d \in Work
    BY <1>1, <1>4 DEF Work
  <2> QED
    BY <1>2, <1>3, <1>4, <2>1
<1>7. \A n \in Ids : Holds(d, n) => Holds(doing[m], n)
  BY <1>1, <1>6 DEF Holds
<1>8. /\ UNCHANGED <<searches, cache, told, muddled, crossed, mission>>
      /\ events' \in 0..MaxEvents
  BY DEF EnsureSearchVariants, HistoryKept, MissionsInv, Typed
<1>9. OnMission(m)
  BY <1>1 DEF OnMission
<1> QED
  BY <1>6, <1>7, <1>8, <1>9, SameMission

LEMMA PersistVariantsStep ==
  ASSUME MissionsInv, NEW m \in Ids, PersistVariants(m)
  PROVE  MissionsInv'
<1>1. /\ doing[m] \in Work /\ doing[m].at = "persist" /\ doing[m].row \in Rows /\ doing[m].id \in Ids
      /\ doing[m] = [at |-> "persist", id |-> doing[m].id, row |-> doing[m].row]
  BY AtWork, WorkFields DEF PersistVariants
<1>2. PICK d : d = [at |-> "deploy", id |-> doing[m].id, row |-> doing[m].row]
  OBVIOUS
<1>3. [doing[m] EXCEPT !.at = "deploy"] = d
  BY <1>1, <1>2
<1>4. d \in Work /\ d.at = "deploy" /\ d.id = doing[m].id /\ doing' = [doing EXCEPT ![m] = d]
  BY <1>1, <1>2, <1>3 DEF Work, PersistVariants, Now
<1>5. \A n \in Ids : Holds(d, n) => Holds(doing[m], n)
  BY <1>1, <1>4 DEF Holds
<1>6. /\ UNCHANGED <<searches, cache, told, muddled, crossed>>
      /\ events' \in 0..MaxEvents
  BY EventTyped DEF PersistVariants, HistoryKept, MissionsInv
<1>7. OnMission(m)
  BY <1>1 DEF OnMission
<1>8. \/ mission' = Updated(m, doing[m].row)
      \/ mission' = mission
  BY DEF PersistVariants
<1>9. /\ mission' \in [Ids -> Rows \cup {Never, Gone}]
      /\ \A n \in Ids : Exists(n) => Exists(n)'
      /\ \A n \in Ids : mission[n] # Never => mission'[n] # Never
  BY <1>1, <1>8, UpdateTyped DEF MissionsInv
<1>10. mission[doing[m].id] # Never
  BY <1>7, AtWork
<1> QED
  BY <1>1, <1>4, <1>5, <1>6, <1>9, <1>10, MoveOn

LEMMA handleMissionByIDStep ==
  ASSUME MissionsInv, NEW r \in Requests, NEW m \in Ids,
         NEW at \in {"put", "status", "delete", "search"}, handleMissionByID(r, m, at)
  PROVE  MissionsInv'
<1>1. PICK d : d = [at |-> at, id |-> m]
  OBVIOUS
<1>2. d \in Work /\ d.at = at /\ d.id = m /\ doing' = [doing EXCEPT ![r] = d]
  BY <1>1 DEF Work, handleMissionByID
<1>3. /\ UNCHANGED <<searches, cache, told, muddled, crossed, mission>>
      /\ events' \in 0..MaxEvents
  BY EventTyped DEF handleMissionByID, HistoryKept, MissionsInv
<1>4. Exists(m) /\ Exists(m)' /\ mission'[m] # Never
  BY <1>3 DEF handleMissionByID, Exists
<1>5. \A n \in Ids : Holds(d, n) => Exists(n)'
  BY <1>2, <1>4 DEF Holds
<1>6. mission' \in [Ids -> Rows \cup {Never, Gone}] /\ \A n \in Ids : Exists(n) => Exists(n)'
  BY <1>3 DEF MissionsInv, Typed, Exists
<1> QED
  BY <1>2, <1>3, <1>4, <1>5, <1>6, MoveOn

LEMMA PutMissionStep ==
  ASSUME MissionsInv, NEW r \in Requests, PutMission(r)
  PROVE  MissionsInv'
<1>1. doing[r] \in Work /\ doing[r].at = "put" /\ doing[r] = [at |-> "put", id |-> doing[r].id]
  BY AtWork, WorkFields DEF PutMission
<1>2. PICK d : d = [at |-> "reread", id |-> doing[r].id]
  OBVIOUS
<1>3. [doing[r] EXCEPT !.at = "reread"] = d
  BY <1>1, <1>2
<1>4. OnMission(r)
  BY <1>1 DEF OnMission
<1>5. d \in Work /\ d.at = "reread" /\ d.id = doing[r].id /\ doing' = [doing EXCEPT ![r] = d]
  BY <1>2, <1>3, <1>4, AtWork DEF Work, PutMission, Now
<1>6. /\ UNCHANGED <<searches, cache, told, muddled, crossed>>
      /\ events' \in 0..MaxEvents
  BY DEF PutMission, HistoryKept, MissionsInv, Typed
<1>7. PICK row \in Rows : mission' = Updated(doing[r].id, row)
  BY DEF PutMission
<1>8. \A n \in Ids : ~Holds(d, n)
  BY <1>5 DEF Holds
<1> QED
  BY <1>4, <1>5, <1>6, <1>7, <1>8, SameMission

LEMMA PutRereadStep ==
  ASSUME MissionsInv, NEW r \in Requests, PutReread(r)
  PROVE  MissionsInv'
<1>1. doing[r] \in Work /\ doing[r].at = "reread"
  BY AtWork DEF PutReread
<1>2. OnMission(r) /\ doing[r].id \in Ids /\ mission[doing[r].id] # Never
  BY <1>1, AtWork DEF OnMission
<1>3. /\ UNCHANGED <<searches, cache, told, muddled, crossed, mission>>
      /\ events' \in 0..MaxEvents
  BY DEF PutReread, HistoryKept, MissionsInv, Typed
<1>4. /\ mission' \in [Ids -> Rows \cup {Never, Gone}]
      /\ \A n \in Ids : Exists(n) => Exists(n)'
      /\ \A n \in Ids : mission[n] # Never => mission'[n] # Never
  BY <1>3 DEF MissionsInv, Typed, Exists
<1>5. CASE Exists(doing[r].id) /\ mission[doing[r].id].status = "active"
  <2>1. PICK d : d = [at |-> "deploy", id |-> doing[r].id, row |-> mission[doing[r].id]]
    OBVIOUS
  <2>2. mission[doing[r].id] \in Rows
    BY <1>2, <1>5 DEF Exists, MissionsInv, Typed
  <2>3. d \in Work /\ d.at = "deploy" /\ d.id = doing[r].id /\ doing' = [doing EXCEPT ![r] = d]
    BY <1>2, <1>5, <2>1, <2>2 DEF Work, PutReread
  <2>4. \A n \in Ids : Holds(d, n) => Exists(n)'
    BY <1>4, <1>5, <2>3 DEF Holds
  <2>5. mission'[d.id] # Never
    BY <1>2, <1>3, <2>3
  <2> QED
    BY <1>3, <1>4, <2>3, <2>4, <2>5, MoveOn
<1>6. CASE ~(Exists(doing[r].id) /\ mission[doing[r].id].status = "active")
  <2>1. /\ Idle \in Work /\ Idle.at = "idle" /\ doing' = [doing EXCEPT ![r] = Idle]
        /\ \A n \in Ids : ~Holds(Idle, n)
    BY <1>6 DEF Work, Idle, Done, PutReread, Holds
  <2> QED
    BY <1>3, <1>4, <2>1, MoveOn
<1> QED
  BY <1>5, <1>6

LEMMA UpdateMissionStatusStep ==
  ASSUME MissionsInv, NEW r \in Requests, UpdateMissionStatus(r)
  PROVE  MissionsInv'
<1>1. doing[r] \in Work /\ doing[r].at = "status"
  BY AtWork DEF UpdateMissionStatus
<1>2. OnMission(r) /\ doing[r].id \in Ids
  BY <1>1, AtWork DEF OnMission
<1>3. PICK m \in Ids, status \in Statuses :
        /\ m = doing[r].id
        /\ mission' = IF Exists(m) THEN [mission EXCEPT ![m] = Record(status, mission[m].queries)] ELSE mission
  BY <1>2 DEF UpdateMissionStatus
<1>4. \E row \in Rows : mission' = Updated(m, row) \/ mission' = mission
  <2>1. CASE Exists(m)
    <3>1. mission[m] \in Rows
      BY <2>1 DEF Exists, MissionsInv, Typed
    <3>2. Record(status, mission[m].queries) \in Rows
      BY <3>1, RowFacts
    <3>3. mission' = Updated(m, Record(status, mission[m].queries))
      BY <1>3, <2>1 DEF Updated
    <3> QED
      BY <3>2, <3>3
  <2>2. CASE ~Exists(m)
    <3>1. Record("active", "thin") \in Rows
      BY DEF Rows, Statuses
    <3> QED
      BY <1>3, <2>2, <3>1
  <2> QED
    BY <2>1, <2>2
<1>5. PICK row \in Rows : mission' = Updated(doing[r].id, row) \/ mission' = mission
  BY <1>3, <1>4
<1>6. /\ Idle \in Work /\ Idle.at = "idle" /\ doing' = [doing EXCEPT ![r] = Idle]
      /\ \A n \in Ids : ~Holds(Idle, n)
  BY DEF Work, Idle, Done, UpdateMissionStatus, Holds
<1>7. /\ UNCHANGED <<searches, cache, told, muddled, crossed>>
      /\ events' \in 0..MaxEvents
  BY DEF UpdateMissionStatus, HistoryKept, MissionsInv, Typed
<1> QED
  BY <1>2, <1>5, <1>6, <1>7, SameMission

LEMMA handleSearchesStep ==
  ASSUME MissionsInv, NEW r \in Requests, handleSearches(r)
  PROVE  MissionsInv'
<1>1. doing[r] \in Work /\ doing[r].at = "search" /\ doing[r] = [at |-> "search", id |-> doing[r].id]
  BY AtWork, WorkFields DEF handleSearches
<1>2. OnMission(r) /\ doing[r].id \in Ids
  BY <1>1, AtWork DEF OnMission
<1> DEFINE d1 == [at |-> "own", id |-> doing[r].id]
<1>3. PICK d \in {Idle, d1} : doing' = [doing EXCEPT ![r] = d]
  <2>1. [doing[r] EXCEPT !.at = "own"] = d1
    BY <1>1
  <2>2. doing' = [doing EXCEPT ![r] = Idle] \/ doing' = [doing EXCEPT ![r] = [doing[r] EXCEPT !.at = "own"]]
    BY DEF handleSearches, Done, Now
  <2> QED
    BY <2>1, <2>2
<1>4. /\ d \in Work /\ d.at \in {"idle", "own"}
      /\ d.at = "idle" \/ (d.at # "idle" /\ d.id = doing[r].id)
  BY <1>2, <1>3 DEF Work, Idle
<1>5. \A n \in Ids : Holds(d, n) => Holds(doing[r], n)
  BY <1>1, <1>3, <1>4 DEF Holds, Idle
<1>6. /\ UNCHANGED <<searches, cache, told, muddled, crossed, mission>>
      /\ events' \in 0..MaxEvents
  BY DEF handleSearches, HistoryKept, MissionsInv, Typed
<1>7. Record("active", "thin") \in Rows
  BY DEF Rows, Statuses
<1> QED
  BY <1>2, <1>3, <1>4, <1>5, <1>6, <1>7, SameMission

-----------------------------------------------------------------------------
(* Posting.                                                                 *)

\* Missions stay, and work that changes is idle, has no mission yet, or is on
\* the mission that some work was on.
LEMMA GroundedKept ==
  ASSUME MissionsInv,
         \A m \in Ids : mission[m] # Never => mission'[m] # Never,
         \A w \in Requests \cup Ids :
           \/ doing'[w] = doing[w]
           \/ doing'[w].at \in {"idle", "limits", "insert"}
           \/ \E v \in Requests \cup Ids : OnMission(v) /\ doing'[w].id = doing[v].id,
         \A k \in PostKeys :
           \/ cache'[k] = cache[k] \/ cache'[k] = NoEntry
           \/ cache[k] # NoEntry /\ cache'[k].id = cache[k].id
           \/ \E v \in Requests \cup Ids : OnMission(v) /\ cache'[k].id = doing[v].id
  PROVE  Grounded'
<1>1. \A v \in Requests \cup Ids : OnMission(v) => mission'[doing[v].id] # Never
  BY AtWork
<1>2. \A w \in Requests \cup Ids : OnMission(w)' => mission'[doing'[w].id] # Never
  <2> SUFFICES ASSUME NEW w \in Requests \cup Ids, OnMission(w)'
               PROVE  mission'[doing'[w].id] # Never
    OBVIOUS
  <2>1. CASE doing'[w] = doing[w]
    BY <1>1, <2>1 DEF OnMission
  <2> QED
    BY <1>1, <2>1 DEF OnMission
<1>3. ASSUME NEW k \in PostKeys, cache[k] # NoEntry
      PROVE  mission'[cache[k].id] # Never
  <2>1. cache[k].id \in Ids
    BY <1>3 DEF MissionsInv, Typed, Entries
  <2> QED
    BY <1>3, <2>1 DEF MissionsInv, Grounded
<1>4. \A k \in PostKeys : cache'[k] # NoEntry => mission'[cache'[k].id] # Never
  BY <1>1, <1>3
<1> QED
  BY <1>2, <1>4 DEF Grounded

LEMMA PostLookUpStep ==
  ASSUME MissionsInv, NEW r \in Requests, NEW k \in PostKeys, PostLookUp(r, k)
  PROVE  MissionsInv'
<1> DEFINE d == [at |-> "limits", key |-> k]
<1>1. UNCHANGED <<mission, searches, cache, told, muddled, events>> /\ doing[r] = Idle
  BY DEF PostLookUp
<1>2. crossed \subseteq crossed' /\ crossed' \subseteq PostKeys
  BY DEF PostLookUp, MissionsInv, Typed
<1>3. k \notin crossed' => \A s \in Requests : ~Posting(s, k)
  BY DEF PostLookUp, Posting
<1>4. doing' = doing \/ (~Fresh(cache[k]) /\ doing' = [doing EXCEPT ![r] = d])
  BY DEF PostLookUp
<1>5. CASE doing' = doing
  <2>1. Typed'
    BY <1>1, <1>2, <1>5 DEF MissionsInv, Typed
  <2>2. Grounded'
    BY <1>1, <1>5, GroundedKept
  <2>3. Answered'
    BY <1>1, <1>2, <1>5 DEF MissionsInv, Answered, Fresh, Posting
  <2>4. Orderly'
    BY <1>1, <1>5, OrderlyKept DEF MissionsInv, Exists
  <2> QED
    BY <2>1, <2>2, <2>3, <2>4 DEF MissionsInv
<1>6. CASE ~Fresh(cache[k]) /\ doing' = [doing EXCEPT ![r] = d]
  <2>1. doing'[r] = d /\ \A v \in Requests \cup Ids : v # r => doing'[v] = doing[v]
    BY <1>6 DEF MissionsInv, Typed
  <2>2. d \in Work /\ d.at = "limits" /\ d.key = k
    BY DEF Work
  <2>3. Typed'
    BY <1>1, <1>2, <1>6, <2>2 DEF MissionsInv, Typed
  <2>4. Grounded'
    BY <1>1, <2>1, <2>2, GroundedKept
  <2>5. Orderly'
    <3>1. \A m : ~Holds(d, m)
      BY DEF Holds
    <3> QED
      BY <1>1, <2>1, <2>2, <3>1, OrderlyKept DEF MissionsInv, Exists
  <2>6. Answered'
    <3> SUFFICES ASSUME NEW j \in PostKeys
                 PROVE  /\ Fresh(told[j]) => cache[j] = told[j]
                        /\ j \notin crossed' =>
                             /\ \A p, q \in Requests : Posting(p, j)' /\ Posting(q, j)' => p = q
                             /\ Fresh(told[j]) => \A p \in Requests : ~Posting(p, j)'
      BY <1>1 DEF Answered, Fresh
    <3>1. Fresh(told[j]) => cache[j] = told[j]
      BY DEF MissionsInv, Answered
    <3>2. j \notin crossed' => /\ \A p, q \in Requests : Posting(p, j) /\ Posting(q, j) => p = q
                               /\ Fresh(told[j]) => \A p \in Requests : ~Posting(p, j)
      BY <1>2 DEF MissionsInv, Answered
    <3>3. \A p \in Requests : Posting(p, j)' => (p = r /\ j = k) \/ Posting(p, j)
      BY <2>1, <2>2 DEF Posting
    <3> QED
      BY <1>3, <1>6, <3>1, <3>2, <3>3
  <2> QED
    BY <2>3, <2>4, <2>5, <2>6 DEF MissionsInv
<1> QED
  BY <1>4, <1>5, <1>6

LEMMA PostRecordStep ==
  ASSUME MissionsInv, NEW r \in Requests, PostRecord(r)
  PROVE  MissionsInv'
<1>1. /\ doing[r] \in Work /\ doing[r].at = "record" /\ doing[r].row \in Rows
      /\ doing[r].key \in PostKeys /\ doing[r].id \in Ids
  BY AtWork, WorkFields DEF PostRecord
<1>2. PICK k \in PostKeys, m \in Ids, row \in Rows :
        k = doing[r].key /\ m = doing[r].id /\ row = doing[r].row
  BY <1>1
<1>3. PICK d : d = [at |-> "expand", id |-> m, row |-> row]
  OBVIOUS
<1>4. PICK e : e = [id |-> m, age |-> 0]
  OBVIOUS
<1>5. /\ cache' = Recorded(k, m) /\ told' = [told EXCEPT ![k] = e]
      /\ doing' = [doing EXCEPT ![r] = Idle, ![m] = IF row.active THEN d ELSE @]
      /\ UNCHANGED <<mission, searches, muddled, crossed, events>>
  BY <1>2, <1>3, <1>4 DEF PostRecord
<1>6. r # m
  BY IdsAssumption
<1>7. /\ doing' \in [Requests \cup Ids -> Work]
      /\ doing'[r] = Idle /\ (doing'[m] = d \/ doing'[m] = doing[m])
      /\ \A v \in Requests \cup Ids : v # r /\ v # m => doing'[v] = doing[v]
  <2>1. d \in Work /\ Idle \in Work
    BY <1>3 DEF Work
  <2> QED
    BY <1>5, <1>6, <2>1 DEF MissionsInv, Typed
<1>8. /\ e \in Entries /\ NoEntry \in Entries /\ e.id = m
      /\ cache'[k] = e /\ told'[k] = e
      /\ \A j \in PostKeys : j # k =>
           told'[j] = told[j] /\ cache'[j] = IF Fresh(cache[j]) THEN cache[j] ELSE NoEntry
      /\ DOMAIN cache' = PostKeys /\ cache' = [c \in PostKeys |-> cache'[c]]
      /\ told' \in [PostKeys -> Entries]
  BY <1>4, <1>5, LimitsAssumption DEF Entries, Recorded, MissionsInv, Typed
<1>9. Typed'
  <2>1. \A j \in PostKeys : cache'[j] \in Entries
    BY <1>8 DEF MissionsInv, Typed
  <2> QED
    BY <1>5, <1>7, <1>8, <2>1 DEF MissionsInv, Typed
<1>10. Grounded'
  <2>1. OnMission(r) /\ doing[r].id = m /\ d.id = m /\ Idle.at = "idle"
    BY <1>1, <1>2, <1>3 DEF OnMission, Idle
  <2> QED
    BY <1>5, <1>7, <1>8, <2>1, GroundedKept
<1>11. Orderly'
  <2>1. r \in Holders(m)
    BY <1>1, <1>2, HoldersHold DEF Holds
  <2>2. d.at = "expand" /\ d.id = m /\ Idle.at = "idle"
    BY <1>3 DEF Idle
  <2>3. \A n \in Ids : (Holds(d, n) => n = m) /\ ~Holds(Idle, n)
    BY <2>2 DEF Holds
  <2>4. \A v \in Requests \cup Ids :
          \/ doing'[v] = doing[v]
          \/ /\ doing'[v].at # "create"
             /\ \A n \in Ids : Holds(doing'[v], n) => Exists(n)' \/ Holders(n) # {}
    BY <1>7, <2>1, <2>2, <2>3
  <2> QED
    BY <1>5, <2>4, OrderlyKept DEF MissionsInv, Exists
<1>12. Answered'
  <2>1. \A p \in Requests, j \in PostKeys : Posting(p, j)' => Posting(p, j) /\ p # r
    BY <1>3, <1>7 DEF Posting, Idle
  <2>2. ASSUME NEW j \in PostKeys, j # k
        PROVE  /\ Fresh(told[j]) => cache'[j] = told[j]
               /\ j \notin crossed =>
                    /\ \A p, q \in Requests : Posting(p, j)' /\ Posting(q, j)' => p = q
                    /\ Fresh(told[j]) => \A p \in Requests : ~Posting(p, j)'
    BY <1>8, <2>1, <2>2 DEF MissionsInv, Answered
  <2>3. k \notin crossed => \A p \in Requests : ~Posting(p, k)'
    <3>1. Posting(r, k)
      BY <1>1, <1>2 DEF Posting
    <3> QED
      BY <2>1, <3>1 DEF MissionsInv, Answered
  <2> QED
    BY <1>5, <1>8, <2>2, <2>3 DEF Answered, Fresh
<1> QED
  BY <1>9, <1>10, <1>11, <1>12 DEF MissionsInv

-----------------------------------------------------------------------------
(* Deploying and deleting.                                                  *)

\* Steps that leave the cache and the missions alone and let one piece of work
\* move from a mission to the same mission, or end.
LEMMA DeployFrame ==
  ASSUME MissionsInv, NEW w \in Requests \cup Ids, NEW d \in Work,
         doing' = [doing EXCEPT ![w] = d],
         UNCHANGED <<cache, told, crossed>>,
         d.at \notin {"limits", "insert", "record"},
         d.at = "idle" \/ (d.at # "idle" /\ OnMission(w) /\ d.id = doing[w].id),
         \A m \in Ids : mission[m] # Never => mission'[m] # Never
  PROVE  /\ doing' \in [Requests \cup Ids -> Work]
         /\ doing'[w] = d /\ \A v \in Requests \cup Ids : v # w => doing'[v] = doing[v]
         /\ Grounded' /\ Answered'
<1>1. /\ doing' \in [Requests \cup Ids -> Work]
      /\ doing'[w] = d /\ \A v \in Requests \cup Ids : v # w => doing'[v] = doing[v]
  BY DEF MissionsInv, Typed
<1>2. Grounded'
  BY <1>1, GroundedKept
<1>3. \A r \in Requests, k \in PostKeys : Posting(r, k)' => Posting(r, k)
  BY <1>1 DEF Posting
<1> QED
  BY <1>1, <1>2, <1>3, AnsweredKept DEF MissionsInv

LEMMA AutoDeployHuntsStep ==
  ASSUME MissionsInv, NEW w \in Requests \cup Ids, AutoDeployHunts(w)
  PROVE  MissionsInv'
<1>1. /\ doing[w] \in Work /\ doing[w].at = "deploy" /\ doing[w].row \in Rows /\ doing[w].id \in Ids
      /\ OnMission(w)
  BY AtWork, WorkFields DEF AutoDeployHunts, OnMission
<1>2. PICK m \in Ids : m = doing[w].id
  BY <1>1
<1>3. UNCHANGED <<mission, searches, cache, told, crossed>>
  BY DEF AutoDeployHunts
<1>4. PICK existing \in {{}, ExistingKeys(m)} :
        /\ doing' = [doing EXCEPT ![w] =
             [at |-> "create", id |-> m, todo |-> Planned(doing[w].row) \ existing]]
        /\ muddled' \subseteq Ids /\ muddled \subseteq muddled'
        /\ m \notin muddled' =>
             /\ existing = ExistingKeys(m)
             /\ ~\E v \in Holders(m) \ {w} : doing[v].at = "create"
        /\ MissionEvent \/ UNCHANGED events
  <2>1. CASE /\ doing' = [doing EXCEPT ![w] =
                  [at |-> "create", id |-> m, todo |-> Planned(doing[w].row) \ ExistingKeys(m)]]
             /\ muddled' = muddled \cup {n \in {m} : \E v \in Holders(m) \ {w} : doing[v].at = "create"}
             /\ UNCHANGED events
    BY <2>1 DEF MissionsInv, Typed
  <2>2. CASE /\ doing' = [doing EXCEPT ![w] =
                  [at |-> "create", id |-> m, todo |-> Planned(doing[w].row) \ {}]]
             /\ muddled' = muddled \cup {m}
             /\ MissionEvent
    BY <2>2 DEF MissionsInv, Typed
  <2> QED
    BY <1>2, <2>1, <2>2 DEF AutoDeployHunts
<1>5. PICK d : d = [at |-> "create", id |-> m, todo |-> Planned(doing[w].row) \ existing]
  OBVIOUS
<1>6. /\ d \in Work /\ d.at = "create" /\ d.id = m /\ d.todo = Planned(doing[w].row) \ existing
      /\ d.todo \subseteq {"target", "variant"}
      /\ doing' = [doing EXCEPT ![w] = d]
  BY <1>4, <1>5 DEF Work, Planned
<1>7. /\ doing' \in [Requests \cup Ids -> Work]
      /\ doing'[w] = d /\ \A v \in Requests \cup Ids : v # w => doing'[v] = doing[v]
      /\ Grounded' /\ Answered'
  BY <1>1, <1>2, <1>3, <1>6, DeployFrame
<1>8. Typed'
  <2>1. events' \in 0..MaxEvents
    BY <1>4, EventTyped DEF MissionsInv
  <2> QED
    BY <1>3, <1>4, <1>7, <2>1 DEF MissionsInv, Typed
<1>9. Orderly'
  <2> SUFFICES ASSUME NEW n \in Ids \ muddled'
               PROVE  /\ ~Exists(n) => searches[n] = NoSearches /\ Holders(n)' = {}
                      /\ \A u, v \in Requests \cup Ids : Creating(u, n)' /\ Creating(v, n)' => u = v
                      /\ \A v \in Requests \cup Ids : Creating(v, n)' =>
                           \A k \in doing'[v].todo : searches[n][k] = 0
                      /\ searches[n]["target"] < 2 /\ searches[n]["variant"] < 2
    BY <1>3 DEF Orderly, NoSearches, Exists
  <2>1. n \in Ids \ muddled
    BY <1>4
  <2>2. \A v \in Requests \cup Ids : v # w => (Creating(v, n)' <=> Creating(v, n))
    BY <1>7 DEF Creating
  <2>3. Creating(w, n)' <=> n = m
    BY <1>6, <1>7 DEF Creating
  <2>4. ~Exists(n) => searches[n] = NoSearches /\ Holders(n)' = {}
    <3> SUFFICES ASSUME ~Exists(n) PROVE searches[n] = NoSearches /\ Holders(n)' = {}
      OBVIOUS
    <3>1. searches[n] = NoSearches /\ Holders(n) = {}
      BY <2>1 DEF MissionsInv, Orderly
    <3>2. w \in Holders(m)
      BY <1>1, <1>2, HoldersHold DEF Holds
    <3>3. \A v \in Requests \cup Ids : ~Holds(doing'[v], n)
      BY <1>6, <1>7, <3>1, <3>2, HoldersHold DEF Holds
    <3> QED
      BY <3>1, <3>3, HoldersHold
  <2>5. CASE n = m
    <3>1. \A v \in Requests \cup Ids : v # w => ~Creating(v, n)
      BY <1>4, <2>5, HoldersHold DEF Creating, Holds
    <3>2. \A k \in d.todo : searches[n][k] = 0
      <4>1. \A k \in SearchKeys : searches[n][k] \in 0..2
        BY DEF MissionsInv, Typed
      <4> QED
        BY <1>4, <1>6, <2>5, <4>1 DEF ExistingKeys, SearchKeys
    <3> QED
      BY <1>7, <2>1, <2>2, <2>4, <3>1, <3>2 DEF MissionsInv, Orderly
  <2>6. CASE n # m
    <3>1. \A v \in Requests \cup Ids : Creating(v, n)' => Creating(v, n) /\ v # w
      BY <2>2, <2>3, <2>6
    <3> QED
      BY <1>7, <2>1, <2>4, <3>1 DEF MissionsInv, Orderly
  <2> QED
    BY <2>5, <2>6
<1> QED
  BY <1>7, <1>8, <1>9 DEF MissionsInv

\* One search more at most, of a key that only this deploy still has to create.
LEMMA DeployHuntStep ==
  ASSUME MissionsInv, NEW w \in Requests \cup Ids, DeployHunt(w)
  PROVE  MissionsInv'
<1>1. /\ doing[w] \in Work /\ doing[w].at = "create" /\ doing[w].id \in Ids
      /\ doing[w].todo \in SUBSET {"target", "variant"}
      /\ doing[w] = [at |-> "create", id |-> doing[w].id, todo |-> doing[w].todo]
      /\ OnMission(w)
  BY AtWork, WorkFields DEF DeployHunt, OnMission
<1>2. UNCHANGED <<mission, cache, told, crossed>>
  BY DEF DeployHunt
<1>3. CASE doing[w].todo = {} /\ Done(w) /\ UNCHANGED <<searches, muddled, events>>
  <2>1. Idle \in Work /\ Idle.at = "idle" /\ doing' = [doing EXCEPT ![w] = Idle]
    BY <1>3 DEF Work, Idle, Done
  <2>2. /\ doing' \in [Requests \cup Ids -> Work]
        /\ doing'[w] = Idle /\ \A v \in Requests \cup Ids : v # w => doing'[v] = doing[v]
        /\ Grounded' /\ Answered'
    BY <1>2, <2>1, DeployFrame
  <2>3. Orderly'
    <3>1. \A n \in Ids : ~Holds(Idle, n)
      BY <2>1 DEF Holds
    <3> QED
      BY <1>2, <1>3, <2>1, <2>2, <3>1, OrderlyKept DEF MissionsInv, Exists
  <2>4. Typed'
    BY <1>2, <1>3, <2>2 DEF MissionsInv, Typed
  <2> QED
    BY <2>2, <2>3, <2>4 DEF MissionsInv
<1>4. ASSUME NEW k \in doing[w].todo,
             doing' = [doing EXCEPT ![w].todo = @ \ {k}],
             \/ searches' = CreateSearchConfig(doing[w].id, k) /\ UNCHANGED <<events, muddled>>
             \/ MissionEvent /\ muddled' = muddled \cup {doing[w].id} /\ UNCHANGED searches
      PROVE  MissionsInv'
  <2>1. PICK m \in Ids : m = doing[w].id
    BY <1>1
  <2>2. PICK d : d = [at |-> "create", id |-> m, todo |-> doing[w].todo \ {k}]
    OBVIOUS
  <2>3. [doing[w] EXCEPT !.todo = doing[w].todo \ {k}] = d
    BY <1>1, <2>1, <2>2
  <2>4. /\ d \in Work /\ d.at = "create" /\ d.id = m /\ d.todo = doing[w].todo \ {k}
        /\ doing' = [doing EXCEPT ![w] = d]
    <3>1. d.at = "create" /\ d.id = m /\ d.todo = doing[w].todo \ {k}
      BY <2>2
    <3>2. d \in [at : {"create"}, id : Ids, todo : SUBSET {"target", "variant"}]
      BY <1>1, <2>2
    <3>3. doing' = [doing EXCEPT ![w] = [doing[w] EXCEPT !.todo = doing[w].todo \ {k}]]
      BY <1>4
    <3> QED
      BY <2>3, <3>1, <3>2, <3>3 DEF Work
  <2>5. /\ doing' \in [Requests \cup Ids -> Work]
        /\ doing'[w] = d /\ \A v \in Requests \cup Ids : v # w => doing'[v] = doing[v]
        /\ Grounded' /\ Answered'
    BY <1>1, <1>2, <2>1, <2>4, DeployFrame
  <2>6. k \in SearchKeys /\ k \in {"target", "variant"}
    BY <1>1 DEF SearchKeys
  <2>7. /\ searches' \in [Ids -> [SearchKeys -> 0..2]]
        /\ muddled' \subseteq Ids /\ muddled \subseteq muddled' /\ events' \in 0..MaxEvents
    <3>1. searches' \in [Ids -> [SearchKeys -> 0..2]]
      BY <1>4, <2>1, <2>6 DEF CreateSearchConfig, MissionsInv, Typed
    <3>2. muddled' \subseteq Ids /\ muddled \subseteq muddled'
      BY <1>4, <2>1 DEF MissionsInv, Typed
    <3>3. events' \in 0..MaxEvents
      BY <1>4, EventTyped DEF MissionsInv
    <3> QED
      BY <3>1, <3>2, <3>3
  <2>8. Typed'
    BY <1>2, <2>5, <2>7 DEF MissionsInv, Typed
  <2>9. \A v \in Requests \cup Ids, n \in Ids :
          /\ Creating(v, n)' <=> Creating(v, n)
          /\ Holds(doing'[v], n) <=> Holds(doing[v], n)
          /\ doing'[v].todo \subseteq doing[v].todo \/ doing'[v] = doing[v]
    BY <1>1, <2>1, <2>4, <2>5 DEF Creating, Holds
  <2>10. Orderly'
    <3> SUFFICES ASSUME NEW n \in Ids \ muddled'
                 PROVE  /\ ~Exists(n) => searches'[n] = NoSearches /\ Holders(n)' = {}
                        /\ \A u, v \in Requests \cup Ids : Creating(u, n)' /\ Creating(v, n)' => u = v
                        /\ \A v \in Requests \cup Ids : Creating(v, n)' =>
                             \A j \in doing'[v].todo : searches'[n][j] = 0
                        /\ searches'[n]["target"] < 2 /\ searches'[n]["variant"] < 2
      BY <1>2 DEF Orderly, NoSearches, Exists
    <3>1. /\ ~Exists(n) => searches[n] = NoSearches /\ Holders(n) = {}
          /\ \A u, v \in Requests \cup Ids : Creating(u, n) /\ Creating(v, n) => u = v
          /\ \A v \in Requests \cup Ids : Creating(v, n) =>
               \A j \in doing[v].todo : searches[n][j] = 0
          /\ searches[n]["target"] < 2 /\ searches[n]["variant"] < 2
      BY <2>7 DEF MissionsInv, Orderly
    <3>2. Creating(w, m) /\ w \in Holders(m)
      BY <1>1, <2>1, HoldersHold DEF Creating, Holds
    <3>3. Holders(n)' = Holders(n)
      BY <2>9, HoldersHold
    <3>4. CASE n # m
      <4>1. searches'[n] = searches[n]
        BY <1>4, <2>1, <3>4 DEF CreateSearchConfig, MissionsInv, Typed
      <4> QED
        BY <2>9, <3>1, <3>3, <4>1
    <3>5. CASE n = m
      <4>1. searches' = CreateSearchConfig(m, k)
        BY <1>4, <2>1, <3>5
      <4>2. searches[m][k] = 0
        BY <2>1, <3>1, <3>2, <3>5
      <4>3. /\ searches'[m][k] = 1
            /\ \A j \in SearchKeys : j # k => searches'[m][j] = searches[m][j]
        BY <2>6, <4>1, <4>2 DEF CreateSearchConfig, MissionsInv, Typed
      <4>4. \A v \in Requests \cup Ids : Creating(v, n)' => v = w
        BY <2>9, <3>1, <3>2, <3>5
      <4>5. \A j \in doing'[w].todo : searches'[m][j] = 0
        <5>1. \A j \in doing[w].todo \ {k} : j \in SearchKeys /\ searches[m][j] = 0
          BY <1>1, <3>1, <3>2, <3>5 DEF SearchKeys
        <5> QED
          BY <2>4, <2>5, <4>3, <5>1
      <4>6. Exists(n)
        BY <3>1, <3>2, <3>5
      <4>7. searches'[m]["target"] < 2 /\ searches'[m]["variant"] < 2
        BY <3>1, <3>5, <4>3 DEF SearchKeys
      <4> QED
        BY <3>5, <4>4, <4>5, <4>6, <4>7
    <3> QED
      BY <3>4, <3>5
  <2> QED
    BY <2>5, <2>8, <2>10 DEF MissionsInv
<1> QED
  BY <1>3, <1>4 DEF DeployHunt

LEMMA DeleteMissionStep ==
  ASSUME MissionsInv, NEW r \in Requests, DeleteMission(r)
  PROVE  MissionsInv'
<1>1. doing[r] \in Work /\ doing[r].at = "delete" /\ OnMission(r) /\ doing[r].id \in Ids
  BY AtWork DEF DeleteMission, OnMission
<1>2. PICK m \in Ids : m = doing[r].id
  BY <1>1
<1>3. UNCHANGED <<cache, told, crossed, events>>
  BY DEF DeleteMission
<1>4. Idle \in Work /\ Idle.at = "idle" /\ doing' = [doing EXCEPT ![r] = Idle]
  BY DEF Work, Idle, Done, DeleteMission
<1>5. \/ UNCHANGED <<mission, searches, muddled>>
      \/ /\ Exists(m) /\ mission' = [mission EXCEPT ![m] = Gone]
         /\ searches' = Emptied(m)
         /\ muddled' = muddled \cup {n \in {m} : Holders(m) # {}}
  BY <1>2 DEF DeleteMission
<1>6. \A n \in Ids : mission[n] # Never => mission'[n] # Never
  <2>1. Gone # Never
    <3>1. Gone.status = "gone" /\ Never.status = "never"
      BY DEF Gone, Never
    <3> QED
      BY <3>1
  <2> QED
    BY <1>5, <2>1 DEF MissionsInv, Typed
<1>7. /\ doing' \in [Requests \cup Ids -> Work]
      /\ doing'[r] = Idle /\ \A v \in Requests \cup Ids : v # r => doing'[v] = doing[v]
      /\ Grounded' /\ Answered'
  BY <1>3, <1>4, <1>6, DeployFrame
<1>8. /\ NoSearches \in [SearchKeys -> 0..2]
      /\ NoSearches["target"] = 0 /\ NoSearches["variant"] = 0
  BY DEF NoSearches, SearchKeys
<1>9. Typed'
  BY <1>3, <1>5, <1>7, <1>8 DEF MissionsInv, Typed, Emptied
<1>10. CASE UNCHANGED <<mission, searches, muddled>>
  <2>1. \A n \in Ids : ~Holds(Idle, n)
    BY <1>4 DEF Holds
  <2>2. Orderly'
    BY <1>4, <1>7, <1>10, <2>1, OrderlyKept DEF MissionsInv, Exists
  <2> QED
    BY <1>7, <1>9, <2>2 DEF MissionsInv
<1>11. CASE /\ Exists(m) /\ mission' = [mission EXCEPT ![m] = Gone]
            /\ searches' = Emptied(m)
            /\ muddled' = muddled \cup {n \in {m} : Holders(m) # {}}
  <2>1. \A v \in Requests \cup Ids, n \in Ids :
          /\ Holds(doing'[v], n) => Holds(doing[v], n)
          /\ Creating(v, n)' => Creating(v, n) /\ doing'[v] = doing[v]
    BY <1>4, <1>7 DEF Holds, Creating
  <2>2. Orderly'
    <3> SUFFICES ASSUME NEW n \in Ids \ muddled'
                 PROVE  /\ ~Exists(n)' => searches'[n] = NoSearches /\ Holders(n)' = {}
                        /\ \A u, v \in Requests \cup Ids : Creating(u, n)' /\ Creating(v, n)' => u = v
                        /\ \A v \in Requests \cup Ids : Creating(v, n)' =>
                             \A j \in doing'[v].todo : searches'[n][j] = 0
                        /\ searches'[n]["target"] < 2 /\ searches'[n]["variant"] < 2
      BY DEF Orderly, NoSearches
    <3>1. /\ ~Exists(n) => searches[n] = NoSearches /\ Holders(n) = {}
          /\ \A u, v \in Requests \cup Ids : Creating(u, n) /\ Creating(v, n) => u = v
          /\ \A v \in Requests \cup Ids : Creating(v, n) =>
               \A j \in doing[v].todo : searches[n][j] = 0
          /\ searches[n]["target"] < 2 /\ searches[n]["variant"] < 2
      BY <1>11 DEF MissionsInv, Orderly
    <3>2. CASE n # m
      <4>1. searches'[n] = searches[n] /\ mission'[n] = mission[n]
        BY <1>11, <3>2 DEF Emptied, MissionsInv, Typed
      <4>2. Holders(n) = {} => Holders(n)' = {}
        BY <2>1, HoldersHold
      <4> QED
        BY <2>1, <3>1, <4>1, <4>2 DEF Exists
    <3>3. CASE n = m
      <4>1. searches'[n] = NoSearches
        BY <1>11, <3>3 DEF Emptied, MissionsInv, Typed
      <4>2. Holders(m) = {}
        BY <1>11, <3>3
      <4>3. Holders(m)' = {} /\ \A v \in Requests \cup Ids : ~Creating(v, m)'
        BY <2>1, <4>2, HoldersHold DEF Creating, Holds
      <4> QED
        BY <1>8, <3>3, <4>1, <4>3
    <3> QED
      BY <3>2, <3>3
  <2> QED
    BY <1>7, <1>9, <2>2 DEF MissionsInv
<1> QED
  BY <1>5, <1>10, <1>11

LEMMA CreateOwnSearchStep ==
  ASSUME MissionsInv, NEW r \in Requests, CreateOwnSearch(r)
  PROVE  MissionsInv'
<1>1. doing[r] \in Work /\ doing[r].at = "own" /\ OnMission(r) /\ doing[r].id \in Ids
  BY AtWork DEF CreateOwnSearch, OnMission
<1>2. PICK m \in Ids : m = doing[r].id
  BY <1>1
<1>3. UNCHANGED <<mission, cache, told, muddled, crossed, events>>
  BY DEF CreateOwnSearch, HistoryKept
<1>4. Idle \in Work /\ Idle.at = "idle" /\ doing' = [doing EXCEPT ![r] = Idle]
  BY DEF Work, Idle, Done, CreateOwnSearch
<1>5. /\ doing' \in [Requests \cup Ids -> Work]
      /\ doing'[r] = Idle /\ \A v \in Requests \cup Ids : v # r => doing'[v] = doing[v]
      /\ Grounded' /\ Answered'
  BY <1>3, <1>4, DeployFrame
<1>6. /\ searches' \in [Ids -> [SearchKeys -> 0..2]]
      /\ \A n \in Ids, j \in {"target", "variant"} : searches'[n][j] = searches[n][j]
      /\ \A n \in Ids : n # m => searches'[n] = searches[n]
  BY <1>2 DEF CreateOwnSearch, CreateSearchConfig, MissionsInv, Typed, SearchKeys
<1>7. Typed'
  BY <1>3, <1>5, <1>6 DEF MissionsInv, Typed
<1>8. \A v \in Requests \cup Ids, n \in Ids :
        /\ Holds(doing'[v], n) => Holds(doing[v], n)
        /\ Creating(v, n)' => Creating(v, n) /\ doing'[v] = doing[v]
  BY <1>4, <1>5 DEF Holds, Creating
<1>9. Orderly'
  <2> SUFFICES ASSUME NEW n \in Ids \ muddled
               PROVE  /\ ~Exists(n) => searches'[n] = NoSearches /\ Holders(n)' = {}
                      /\ \A u, v \in Requests \cup Ids : Creating(u, n)' /\ Creating(v, n)' => u = v
                      /\ \A v \in Requests \cup Ids : Creating(v, n)' =>
                           \A j \in doing'[v].todo : searches'[n][j] = 0
                      /\ searches'[n]["target"] < 2 /\ searches'[n]["variant"] < 2
    BY <1>3 DEF Orderly, NoSearches, Exists
  <2>1. /\ ~Exists(n) => searches[n] = NoSearches /\ Holders(n) = {}
        /\ \A u, v \in Requests \cup Ids : Creating(u, n) /\ Creating(v, n) => u = v
        /\ \A v \in Requests \cup Ids : Creating(v, n) =>
             \A j \in doing[v].todo : searches[n][j] = 0
        /\ searches[n]["target"] < 2 /\ searches[n]["variant"] < 2
    BY DEF MissionsInv, Orderly
  <2>2. r \in Holders(m)
    BY <1>1, <1>2, HoldersHold DEF Holds
  <2>3. ~Exists(n) => searches'[n] = NoSearches /\ Holders(n)' = {}
    BY <1>6, <1>8, <2>1, <2>2, HoldersHold, SMTT(60)
  <2>4. \A v \in Requests \cup Ids : Creating(v, n)' => doing'[v].todo \subseteq {"target", "variant"}
    BY <1>8, AtWork, WorkFields DEF Creating
  <2> QED
    BY <1>6, <1>8, <2>1, <2>3, <2>4
<1> QED
  BY <1>5, <1>7, <1>9 DEF MissionsInv

-----------------------------------------------------------------------------
(* Time and restarts.                                                       *)

LEMMA OlderEntry ==
  ASSUME NEW e \in Entries
  PROVE  /\ Older(e) \in Entries
         /\ Older(NoEntry) = NoEntry /\ ~Fresh(NoEntry)
         /\ e # NoEntry => Older(e).id = e.id
         /\ Fresh(Older(e)) => Fresh(e)
<1>1. CASE e = NoEntry
  BY <1>1 DEF Older, Fresh
<1>2. CASE e \in [id : Ids, age : 0..Ttl]
  <2>1. Ttl \in Nat
    BY LimitsAssumption
  <2>2. PICK id \in Ids, age \in 0..Ttl : e = [id |-> id, age |-> age]
    BY <1>2
  <2>3. CASE age < Ttl
    <3>1. [e EXCEPT !.age = age + 1] = [id |-> id, age |-> age + 1]
      BY <2>2
    <3>2. Older(e) = e \/ Older(e) = [id |-> id, age |-> age + 1]
      BY <2>2, <3>1 DEF Older
    <3>3. e.age < Ttl /\ e.id = id
      BY <2>2, <2>3
    <3>4. [id |-> id, age |-> age + 1] \in Entries /\ [id |-> id, age |-> age + 1].id = id
      BY <2>1, <2>3 DEF Entries
    <3>5. Fresh(e) \/ e = NoEntry
      BY <3>3 DEF Fresh
    <3> QED
      BY <3>2, <3>3, <3>4, <3>5 DEF Older, Fresh
  <2>4. CASE ~(age < Ttl)
    <3>1. Older(e) = e
      BY <2>2, <2>4 DEF Older
    <3> QED
      BY <3>1 DEF Older, Fresh
  <2> QED
    BY <2>3, <2>4
<1> QED
  BY <1>1, <1>2 DEF Entries

LEMMA ElapseStep ==
  ASSUME MissionsInv, Elapse
  PROVE  MissionsInv'
<1>1. UNCHANGED <<mission, searches, doing, muddled, crossed, events>>
  BY DEF Elapse
<1>2. \A k \in PostKeys :
        /\ cache[k] \in Entries /\ told[k] \in Entries
        /\ cache'[k] = Older(cache[k])
        /\ told'[k] = IF Fresh(Older(told[k])) THEN Older(told[k]) ELSE NoEntry
  BY DEF Elapse, MissionsInv, Typed
<1>3. Typed'
  <2>1. NoEntry \in Entries
    BY DEF Entries
  <2>2. \A k \in PostKeys : cache'[k] \in Entries /\ told'[k] \in Entries
    BY <1>2, <2>1, OlderEntry
  <2>3. cache' = [k \in PostKeys |-> cache'[k]] /\ told' = [k \in PostKeys |-> told'[k]]
    BY DEF Elapse
  <2> QED
    BY <1>1, <2>2, <2>3 DEF MissionsInv, Typed
<1>4. Grounded'
  <2>1. \A k \in PostKeys : cache'[k] = NoEntry \/ (cache[k] # NoEntry /\ cache'[k].id = cache[k].id)
    BY <1>2, OlderEntry
  <2> QED
    BY <1>1, <2>1, GroundedKept
<1>5. Answered'
  <2>1. \A k \in PostKeys : Fresh(told'[k]) => Fresh(told[k]) /\ told'[k] = Older(told[k])
    BY <1>2, OlderEntry
  <2>2. \A k \in PostKeys : Fresh(told'[k]) => cache'[k] = told'[k]
    BY <1>2, <2>1 DEF MissionsInv, Answered
  <2>3. \A r \in Requests, k \in PostKeys : Posting(r, k)' <=> Posting(r, k)
    BY <1>1 DEF Posting
  <2> QED
    BY <1>1, <2>1, <2>2, <2>3 DEF MissionsInv, Answered, Fresh
<1>6. Orderly'
  BY <1>1, OrderlyKept DEF MissionsInv, Exists
<1> QED
  BY <1>3, <1>4, <1>5, <1>6 DEF MissionsInv

LEMMA RestartStep ==
  ASSUME MissionsInv, Restart
  PROVE  MissionsInv'
<1>1. /\ mission' = mission /\ crossed' = crossed
      /\ \A w \in Requests \cup Ids : doing'[w] = Idle
      /\ \A k \in PostKeys : cache'[k] = NoEntry /\ told'[k] = NoEntry
      /\ Idle.at = "idle"
  BY DEF Restart, Idle
<1>2. /\ muddled \subseteq muddled' /\ muddled' \subseteq Ids
      /\ \A n \in Ids \ muddled' : Holders(n) = {}
  BY DEF Restart, MissionsInv, Typed
<1>3. /\ searches' \in [Ids -> [SearchKeys -> 0..2]]
      /\ \A n \in Ids, k \in SearchKeys :
           \/ searches'[n][k] = searches[n][k]
           \/ Exists(n) /\ searches'[n][k] = 1
  BY DEF Restart, backfillMissionHunts, MissionsInv, Typed
<1>4. Typed'
  <2>1. /\ doing' \in [Requests \cup Ids -> Work]
        /\ cache' \in [PostKeys -> Entries] /\ told' \in [PostKeys -> Entries]
    BY DEF Restart, Work, Entries
  <2>2. events' \in 0..MaxEvents
    BY EventTyped DEF Restart, MissionsInv
  <2> QED
    BY <1>1, <1>2, <1>3, <2>1, <2>2 DEF MissionsInv, Typed
<1>5. Grounded'
  BY <1>1, GroundedKept
<1>6. Answered'
  BY <1>1 DEF Answered, Fresh, Posting
<1>7. Orderly'
  <2>1. \A w \in Requests \cup Ids, n \in Ids : ~Creating(w, n)' /\ ~Holds(doing'[w], n)
    BY <1>1 DEF Creating, Holds
  <2>2. \A n \in Ids : Holders(n)' = {}
    BY <2>1, HoldersHold
  <2>3. ASSUME NEW n \in Ids \ muddled', ~Exists(n)
        PROVE  searches'[n] = NoSearches
    <3>1. searches[n] = NoSearches
      BY <1>2, <2>3 DEF MissionsInv, Orderly
    <3>2. \A k \in SearchKeys : searches'[n][k] = NoSearches[k]
      BY <1>3, <2>3, <3>1
    <3>3. /\ searches'[n] = [k \in SearchKeys |-> searches'[n][k]]
          /\ NoSearches = [k \in SearchKeys |-> NoSearches[k]]
      BY <1>3 DEF NoSearches
    <3> QED
      BY <3>2, <3>3
  <2>4. \A n \in Ids \ muddled' : searches'[n]["target"] < 2 /\ searches'[n]["variant"] < 2
    <3> SUFFICES ASSUME NEW n \in Ids \ muddled', NEW k \in {"target", "variant"}
                 PROVE  searches'[n][k] < 2
      OBVIOUS
    <3>1. searches[n][k] < 2 /\ k \in SearchKeys
      BY <1>2 DEF MissionsInv, Orderly, SearchKeys
    <3> QED
      BY <1>3, <3>1
  <2>5. \A n \in Ids : Exists(n)' <=> Exists(n)
    BY <1>1 DEF Exists
  <2> QED
    BY <2>1, <2>2, <2>3, <2>4, <2>5 DEF Orderly, NoSearches
<1> QED
  BY <1>4, <1>5, <1>6, <1>7 DEF MissionsInv

-----------------------------------------------------------------------------
LEMMA MissionsInvInit == MissionsInit => MissionsInv
<1> SUFFICES ASSUME MissionsInit PROVE MissionsInv
  OBVIOUS
<1>1. Typed
  <2>1. 0 \in 0..2 /\ 0 \in 0..MaxEvents
    BY LimitsAssumption
  <2> QED
    BY <2>1 DEF MissionsInit, Typed, Work, Entries
<1>2. Grounded /\ Answered
  BY DEF MissionsInit, Grounded, Answered, OnMission, Posting, Fresh, Idle
<1>3. Orderly
  <2>1. \A w \in Requests \cup Ids, n \in Ids : ~Creating(w, n) /\ ~Holds(doing[w], n)
    BY DEF MissionsInit, Creating, Holds, Idle
  <2>2. \A n \in Ids : Holders(n) = {}
    BY <2>1, HoldersHold
  <2> QED
    BY <2>1, <2>2 DEF MissionsInit, Orderly, NoSearches, SearchKeys
<1> QED
  BY <1>1, <1>2, <1>3 DEF MissionsInv

LEMMA MissionsInvStep == MissionsInv /\ [MissionsNext]_missionVars => MissionsInv'
<1> SUFFICES ASSUME MissionsInv, [MissionsNext]_missionVars PROVE MissionsInv'
  OBVIOUS
<1>1. ASSUME NEW r \in Requests, Serve(r)
      PROVE  MissionsInv'
  BY <1>1, PostLimitsStep, PostInsertStep, PostRecordStep, PutMissionStep, PutRereadStep,
     AutoDeployHuntsStep, DeployHuntStep, UpdateMissionStatusStep, DeleteMissionStep,
     handleSearchesStep, CreateOwnSearchStep DEF Serve
<1>2. ASSUME NEW m \in Ids, Goroutine(m)
      PROVE  MissionsInv'
  BY <1>2, EnsureSearchVariantsStep, PersistVariantsStep, AutoDeployHuntsStep, DeployHuntStep
  DEF Goroutine
<1>3. CASE UNCHANGED missionVars
  BY <1>3 DEF missionVars, MissionsInv, Typed, Grounded, Answered, Orderly, OnMission, Posting,
              Creating, Holders, Exists, Fresh
<1> QED
  BY <1>1, <1>2, <1>3, PostLookUpStep, handleMissionByIDStep, ElapseStep, RestartStep
  DEF MissionsNext

LEMMA MissionsInvariant == MissionsSpec => []MissionsInv
  BY MissionsInvInit, MissionsInvStep, PTL DEF MissionsSpec

\* Rows stay normalised, and no copy in memory names a mission that was never
\* created, through posts, edits, deletes, failures and restarts.
THEOREM MissionsTyping == MissionsSpec => []MissionsTypeOK
<1>1. MissionsInv => MissionsTypeOK
  <2> SUFFICES ASSUME MissionsInv PROVE MissionsTypeOK
    OBVIOUS
  <2>1. mission \in [Ids -> [status : Statuses, active : BOOLEAN, queries : {"thin", "full"}]
                              \cup {Never, Gone}]
    <3>1. Rows \subseteq [status : Statuses, active : BOOLEAN, queries : {"thin", "full"}]
      BY RowFacts
    <3> QED
      BY <3>1 DEF MissionsInv, Typed
  <2>2. \A m \in Ids : Exists(m) => mission[m].active = (mission[m].status = "active")
    <3>1. \A m \in Ids : Exists(m) => mission[m] \in Rows
      BY DEF MissionsInv, Typed, Exists
    <3> QED
      BY <3>1, RowFacts
  <2>3. \A w \in Requests \cup Ids :
          \/ doing[w] = Idle
          \/ doing[w].at \in {"limits", "insert"}
          \/ doing[w].id \in Ids /\ mission[doing[w].id] # Never
    BY AtWork, WorkFields DEF OnMission
  <2> QED
    BY <2>1, <2>2, <2>3 DEF MissionsInv, Typed, Grounded, MissionsTypeOK
<1> QED
  BY <1>1, MissionsInvariant, PTL

\* However requests, goroutines and restarts interleave: a mission that is gone
\* has left no search and none was deployed twice, unless two operations on that
\* mission overlapped or one failed.
THEOREM SearchesAccountedFor == MissionsSpec => []SearchesAccounted
<1>1. MissionsInv => SearchesAccounted
  BY DEF MissionsInv, Orderly, SearchesAccounted
<1> QED
  BY <1>1, MissionsInvariant, PTL

\* No copy of a mission in memory brings it back once the user deleted it.
THEOREM DeletedForGood == MissionsSpec => DeletedStaysDeleted
<1>1. ASSUME MissionsInv, [MissionsNext]_missionVars, NEW m \in Ids, mission[m] = Gone
      PROVE  mission'[m] = Gone
  <2>1. Gone # Never
    <3>1. Gone.status = "gone" /\ Never.status = "never"
      BY DEF Gone, Never
    <3> QED
      BY <3>1
  <2>2. \A r \in Requests : PostInsert(r) => mission'[m] = Gone
    BY <1>1, <2>1, NextFree DEF PostInsert, MissionsInv, Typed
  <2>3. \A n \in Ids : PersistVariants(n) => mission'[m] = Gone
    BY <1>1 DEF PersistVariants, Updated, Exists, MissionsInv, Typed
  <2>4. \A r \in Requests : PutMission(r) => mission'[m] = Gone
    BY <1>1 DEF PutMission, Updated, Exists, MissionsInv, Typed
  <2>5. \A r \in Requests : UpdateMissionStatus(r) => mission'[m] = Gone
    BY <1>1 DEF UpdateMissionStatus, Exists, MissionsInv, Typed
  <2>6. \A r \in Requests : DeleteMission(r) => mission'[m] = Gone
    BY <1>1 DEF DeleteMission, MissionsInv, Typed
  <2>7. \A r \in Requests : Serve(r) => mission'[m] = Gone
    BY <1>1, <2>2, <2>4, <2>5, <2>6
    DEF Serve, PostLimits, PostRecord, PutReread, AutoDeployHunts, DeployHunt, handleSearches,
        CreateOwnSearch
  <2>8. \A n \in Ids : Goroutine(n) => mission'[m] = Gone
    BY <1>1, <2>3 DEF Goroutine, EnsureSearchVariants, AutoDeployHunts, DeployHunt
  <2> QED
    BY <1>1, <2>7, <2>8
    DEF MissionsNext, PostLookUp, handleMissionByID, Elapse, Restart, missionVars
<1>2. MissionsInv /\ [MissionsNext]_missionVars
        => [\A m \in Ids : mission[m] = Gone => mission'[m] = Gone]_missionVars
  BY <1>1
<1> QED
  BY <1>2, MissionsInvariant, PTL DEF MissionsSpec, DeletedStaysDeleted

\* A retry of a POST is answered the same mission while the answer is fresh, and
\* no second answer overtakes it, unless the client sent two at once.
THEOREM RetriesAnsweredAlike == MissionsSpec => RetryAnsweredAlike
<1>1. ASSUME MissionsInv, [MissionsNext]_missionVars, NEW k \in PostKeys, Fresh(told[k]),
             k \notin crossed'
      PROVE  /\ Fresh(cache[k]) => cache[k].id = told[k].id
             /\ \A r \in Requests : doing[r] = Idle /\ doing'[r].at = "limits" => doing'[r].key # k
             /\ Fresh(told'[k]) => told'[k].id = told[k].id
  <2>1. cache[k] = told[k]
    BY <1>1 DEF MissionsInv, Answered
  <2>2. k \notin crossed
    BY <1>1 DEF MissionsNext, PostLookUp, handleMissionByID, Serve, PostLimits, PostInsert,
       PostRecord, PutMission, PutReread, AutoDeployHunts, DeployHunt, UpdateMissionStatus,
       DeleteMission, handleSearches, CreateOwnSearch, Goroutine, EnsureSearchVariants,
       PersistVariants, Elapse, Restart, HistoryKept, missionVars
  <2>3. \A r \in Requests : ~Posting(r, k)
    BY <1>1, <2>2 DEF MissionsInv, Answered
  <2>4. Fresh(told'[k]) => told'[k].id = told[k].id
    <3>1. \A r \in Requests : PostRecord(r) => told'[k] = told[k]
      <4> SUFFICES ASSUME NEW r \in Requests, PostRecord(r) PROVE told'[k] = told[k]
        OBVIOUS
      <4>1. doing[r].at = "record" /\ doing[r].key # k
        BY <2>3 DEF PostRecord, Posting
      <4> QED
        BY <1>1, <4>1 DEF PostRecord, MissionsInv, Typed
    <3>2. Elapse => told'[k] = NoEntry \/ told'[k] = Older(told[k])
      BY <1>1 DEF Elapse
    <3>3. Elapse => ~Fresh(told'[k]) \/ told'[k].id = told[k].id
      <4>1. told[k] \in Entries /\ told[k] # NoEntry
        BY <1>1 DEF MissionsInv, Typed, Fresh
      <4> QED
        BY <3>2, <4>1, OlderEntry
    <3>4. Restart => ~Fresh(told'[k])
      BY <1>1 DEF Restart, Fresh
    <3>5. \A r \in Requests : Serve(r) => told'[k] = told[k]
      BY <1>1, <3>1
      DEF Serve, PostLimits, PostInsert, PutMission, PutReread, AutoDeployHunts, DeployHunt,
          UpdateMissionStatus, DeleteMission, handleSearches, CreateOwnSearch, HistoryKept
    <3>6. \A n \in Ids : Goroutine(n) => told'[k] = told[k]
      BY <1>1 DEF Goroutine, EnsureSearchVariants, PersistVariants, AutoDeployHunts, DeployHunt, HistoryKept
    <3> QED
      BY <1>1, <3>3, <3>4, <3>5, <3>6
      DEF MissionsNext, PostLookUp, handleMissionByID, HistoryKept, missionVars
  <2>5. ASSUME NEW r \in Requests, doing[r] = Idle, doing'[r].at = "limits", doing'[r].key = k
        PROVE  FALSE
    <3>1. doing[r].at = "idle"
      BY <2>5 DEF Idle
    <3>2. doing'[r] # doing[r] /\ doing'[r] # Idle
      BY <2>5, <3>1 DEF Idle
    <3>3. doing \in [Requests \cup Ids -> Work]
      BY <1>1 DEF MissionsInv, Typed
    <3>4. ASSUME NEW s \in Requests, NEW j \in PostKeys, PostLookUp(s, j)
          PROVE  FALSE
      <4>1. doing' = [doing EXCEPT ![s] = [at |-> "limits", key |-> j]] /\ ~Fresh(cache[j])
        BY <3>2, <3>4 DEF PostLookUp
      <4>2. s = r
        BY <3>2, <3>3, <4>1
      <4>3. doing'[r] = [at |-> "limits", key |-> j]
        BY <3>3, <4>1, <4>2
      <4>4. j = k
        BY <2>5, <4>3
      <4> QED
        BY <1>1, <2>1, <4>1, <4>4
    <3>5. ASSUME NEW s \in Requests, NEW m \in Ids, NEW at \in {"put", "status", "delete", "search"},
                 handleMissionByID(s, m, at)
          PROVE  FALSE
      <4>1. doing' = [doing EXCEPT ![s] = [at |-> at, id |-> m]]
        BY <3>5 DEF handleMissionByID
      <4>2. s = r /\ doing'[r] = [at |-> at, id |-> m]
        BY <3>2, <3>3, <4>1
      <4> QED
        BY <2>5, <4>2
    <3>6. ASSUME NEW s \in Requests, Serve(s)
          PROVE  doing'[r] = doing[r]
      <4>1. s # r
        BY <3>1, <3>6 DEF Serve, PostLimits, PostInsert, PostRecord, PutMission, PutReread,
           AutoDeployHunts, DeployHunt, UpdateMissionStatus, DeleteMission, handleSearches,
           CreateOwnSearch
      <4>2. PostRecord(s) => doing'[r] = doing[r]
        <5> SUFFICES ASSUME PostRecord(s) PROVE doing'[r] = doing[r]
          OBVIOUS
        <5>1. PICK m \in Ids : m = doing[s].id
          <6>1. doing[s] \in Work /\ doing[s].at = "record"
            BY <3>3 DEF PostRecord
          <6> QED
            BY <6>1, WorkFields
        <5>2. r # m
          BY IdsAssumption
        <5> QED
          BY <3>3, <4>1, <5>1, <5>2 DEF PostRecord
      <4> QED
        BY <3>3, <3>6, <4>1, <4>2
        DEF Serve, PostLimits, PostInsert, PutMission, PutReread, AutoDeployHunts, DeployHunt,
            UpdateMissionStatus, DeleteMission, handleSearches, CreateOwnSearch, Done, Now
    <3>7. ASSUME NEW n \in Ids, Goroutine(n)
          PROVE  doing'[r] = doing[r]
      <4>1. n # r
        BY IdsAssumption
      <4> QED
        BY <3>3, <3>7, <4>1 DEF Goroutine, EnsureSearchVariants, PersistVariants, AutoDeployHunts,
           DeployHunt, Done, Now
    <3>8. Restart \/ Elapse \/ UNCHANGED missionVars => doing'[r] \in {Idle, doing[r]}
      BY DEF Restart, Elapse, missionVars
    <3> QED
      BY <1>1, <3>2, <3>4, <3>5, <3>6, <3>7, <3>8 DEF MissionsNext
  <2> QED
    BY <2>1, <2>4, <2>5
<1>2. MissionsInv /\ [MissionsNext]_missionVars
        => [\A k \in PostKeys : Fresh(told[k]) /\ k \notin crossed' =>
             /\ Fresh(cache[k]) => cache[k].id = told[k].id
             /\ \A r \in Requests : doing[r] = Idle /\ doing'[r].at = "limits" => doing'[r].key # k
             /\ Fresh(told'[k]) => told'[k].id = told[k].id]_missionVars
  BY <1>1
<1> QED
  BY <1>2, MissionsInvariant, PTL DEF MissionsSpec, RetryAnsweredAlike

-----------------------------------------------------------------------------
(* The conversation that briefs the assistant.                              *)

Turns == {"answer", "ask", "start", "continue", "clear"}
Message == {Quiet} \cup [at : {"parse"}]
  \cup [at : Turns, brief : Briefs, missing : SUBSET Slots]

ChatTyped ==
  /\ session \in {NoSession} \cup [brief : Briefs, missing : SUBSET Slots]
  /\ chat \in [Chats -> Message]
  /\ made \in [Briefs -> 0..3]
  /\ tangled \subseteq Briefs /\ mishaps \in Nat

\* Message c is about brief b.
About(c, b) == chat[c].at \in Turns /\ chat[c].brief = b

\* Before it is parsed nothing names a brief.  A brief whose session was never
\* answered twice at once, and was cleared, is in the hands of one message at a
\* time, which clears the session if and only if it made the mission.
BriefsInHand ==
  /\ \A b \in Briefs : made[b] = Unparsed => session.brief # b /\ \A c \in Chats : ~About(c, b)
  /\ \A b \in Briefs \ tangled :
       /\ made[b] # 2
       /\ \A c, d \in Chats : About(c, b) /\ About(d, b) => c = d
       /\ \A c \in Chats : About(c, b) => made[b] = IF chat[c].at = "clear" THEN 1 ELSE 0
       /\ session.brief = b =>
            made[b] = 0 \/ \E c \in Chats : About(c, b) /\ chat[c].at = "clear"

ChatInv == ChatTyped /\ BriefsInHand

LEMMA MessageFields ==
  ASSUME NEW d \in Message
  PROVE  /\ d.at \in {"quiet", "parse"} \cup Turns
         /\ d = Quiet <=> d.at = "quiet"
         /\ d.at \in Turns =>
              /\ d.brief \in Briefs /\ d.missing \in SUBSET Slots
              /\ d = [at |-> d.at, brief |-> d.brief, missing |-> d.missing]
<1>1. CASE d = Quiet
  BY <1>1 DEF Quiet, Turns
<1>2. CASE d \in [at : {"parse"}]
  BY <1>2 DEF Quiet, Turns
<1>3. CASE d \in [at : Turns, brief : Briefs, missing : SUBSET Slots]
  BY <1>3 DEF Quiet, Turns
<1> QED
  BY <1>1, <1>2, <1>3 DEF Message

\* Message c goes on to d: what it and the other messages are about then.
LEMMA GoesOn ==
  ASSUME ChatTyped, NEW c \in Chats, NEW d \in Message, chat' = [chat EXCEPT ![c] = d]
  PROVE  /\ chat' \in [Chats -> Message]
         /\ chat'[c] = d /\ \A e \in Chats : e # c => chat'[e] = chat[e]
         /\ \A b : About(c, b)' <=> d.at \in Turns /\ d.brief = b
         /\ \A e \in Chats, b \in Briefs : e # c => (About(e, b)' <=> About(e, b))
<1>1. /\ chat' \in [Chats -> Message]
      /\ chat'[c] = d /\ \A e \in Chats : e # c => chat'[e] = chat[e]
  BY DEF ChatTyped
<1> QED
  BY <1>1 DEF About

LEMMA SessionFields ==
  ASSUME ChatTyped
  PROVE  /\ session = NoSession <=> session.brief \notin Briefs
         /\ session # NoSession => session.missing \in SUBSET Slots
         /\ NoSession.brief = 0 /\ 0 \notin Briefs
<1>1. 0 \notin Briefs /\ NoSession.brief = 0
  BY BriefsAssumption DEF NoSession
<1> QED
  BY <1>1 DEF ChatTyped

LEMMA ConverseStep ==
  ASSUME ChatInv, NEW c \in Chats, Converse(c)
  PROVE  ChatInv'
<1>1. UNCHANGED <<session, made, mishaps>> /\ chat[c] = Quiet /\ \A b : ~About(c, b)
  BY DEF Converse, Quiet, About, Turns
<1>2. CASE PendingBrief(session)
  <2>1. PICK b \in Briefs, missing \in SUBSET Slots : b = session.brief /\ missing = session.missing
    BY <1>2, SessionFields DEF PendingBrief, ChatInv
  <2>2. PICK d \in Message : d = [at |-> "answer", brief |-> b, missing |-> missing]
    BY DEF Message, Turns
  <2>3. d.at = "answer" /\ d.brief = b /\ d.at \in Turns /\ d.at # "clear"
    BY <2>2 DEF Turns
  <2>4. chat' = [chat EXCEPT ![c] = d] /\ tangled' = tangled \cup {x \in {b} : Elsewhere(c, x)}
    BY <1>2, <2>1, <2>2 DEF Converse
  <2>5. /\ chat' \in [Chats -> Message] /\ chat'[c] = d
        /\ \A e \in Chats : e # c => chat'[e] = chat[e]
        /\ \A x : About(c, x)' <=> x = b
        /\ \A e \in Chats, x \in Briefs : e # c => (About(e, x)' <=> About(e, x))
    BY <2>3, <2>4, GoesOn DEF ChatInv
  <2>6. ChatTyped'
    BY <1>1, <2>4, <2>5 DEF ChatInv, ChatTyped
  <2>7. b \notin tangled' => \A e \in Chats : ~About(e, b)
    <3> SUFFICES ASSUME b \notin tangled', NEW e \in Chats, About(e, b) PROVE FALSE
      OBVIOUS
    <3>1. chat[e] # Quiet /\ chat[e].at # "parse" /\ e # c
      BY <1>1 DEF About, Turns, Quiet
    <3> QED
      BY <2>4, <3>1 DEF Elsewhere, About
  <2>8. made[b] # Unparsed
    BY <2>1 DEF ChatInv, BriefsInHand
  <2>9. b \notin tangled' => made[b] = 0
    BY <2>1, <2>4, <2>7 DEF ChatInv, BriefsInHand
  <2>10. \A x \in Briefs : x # b => \A e \in Chats : (About(e, x)' <=> About(e, x))
    BY <1>1, <2>5
  <2>11. BriefsInHand'
    <3>1. \A x \in Briefs : made[x] = Unparsed =>
            session.brief # x /\ \A e \in Chats : ~About(e, x)'
      BY <2>8, <2>10 DEF ChatInv, BriefsInHand
    <3> SUFFICES ASSUME NEW x \in Briefs \ tangled'
                 PROVE  /\ made[x] # 2
                        /\ \A e, f \in Chats : About(e, x)' /\ About(f, x)' => e = f
                        /\ \A e \in Chats : About(e, x)' =>
                             made[x] = IF chat'[e].at = "clear" THEN 1 ELSE 0
                        /\ session.brief = x =>
                             made[x] = 0 \/ \E e \in Chats : About(e, x)' /\ chat'[e].at = "clear"
      BY <1>1, <3>1 DEF BriefsInHand, Unparsed
    <3>2. x \notin tangled
      BY <2>4
    <3>3. CASE x = b
      BY <2>3, <2>5, <2>7, <2>9, <3>3
    <3>4. CASE x # b
      BY <1>1, <2>1, <2>5, <2>10, <3>2, <3>4 DEF ChatInv, BriefsInHand
    <3> QED
      BY <3>3, <3>4
  <2> QED
    BY <2>6, <2>11 DEF ChatInv
<1>3. CASE ~PendingBrief(session)
  <2>1. PICK d \in Message : d = [at |-> "parse"]
    BY DEF Message
  <2>2. chat' = [chat EXCEPT ![c] = d] /\ tangled' = tangled /\ d.at = "parse" /\ d.at \notin Turns
    BY <1>3, <2>1 DEF Converse, Turns
  <2>3. /\ chat' \in [Chats -> Message] /\ chat'[c] = d
        /\ \A e \in Chats : e # c => chat'[e] = chat[e]
        /\ \A x : ~About(c, x)'
        /\ \A e \in Chats, x \in Briefs : e # c => (About(e, x)' <=> About(e, x))
    BY <2>2, GoesOn DEF ChatInv
  <2>4. \A e \in Chats, x \in Briefs :
          /\ About(e, x)' <=> About(e, x)
          /\ About(e, x) => chat'[e] = chat[e]
    BY <1>1, <2>3
  <2> QED
    BY <1>1, <2>2, <2>3, <2>4 DEF ChatInv, ChatTyped, BriefsInHand, Unparsed
<1> QED
  BY <1>2, <1>3

LEMMA parseBriefStep ==
  ASSUME ChatInv, NEW c \in Chats, parseBrief(c)
  PROVE  ChatInv'
<1>1. UNCHANGED <<session, tangled>> /\ chat[c].at = "parse" /\ \A b : ~About(c, b)
  BY DEF parseBrief, About, Turns
<1>2. CASE \E b \in Briefs, missing \in SUBSET Slots :
             /\ made[b] = Unparsed /\ \A e \in Briefs : e < b => made[e] # Unparsed
             /\ made' = [made EXCEPT ![b] = 0]
             /\ chat' = [chat EXCEPT ![c] =
                  [at |-> IF missing = {} THEN "start" ELSE "ask", brief |-> b, missing |-> missing]]
             /\ UNCHANGED mishaps
  <2>1. PICK b \in Briefs, missing \in SUBSET Slots, at \in {"start", "ask"} :
          /\ made[b] = Unparsed /\ made' = [made EXCEPT ![b] = 0] /\ mishaps' = mishaps
          /\ chat' = [chat EXCEPT ![c] = [at |-> at, brief |-> b, missing |-> missing]]
    BY <1>2
  <2>2. PICK d \in Message : d = [at |-> at, brief |-> b, missing |-> missing]
    BY DEF Message, Turns
  <2>3. d.at \in Turns /\ d.at # "clear" /\ d.brief = b /\ chat' = [chat EXCEPT ![c] = d]
    BY <2>1, <2>2 DEF Turns
  <2>4. /\ chat' \in [Chats -> Message] /\ chat'[c] = d
        /\ \A e \in Chats : e # c => chat'[e] = chat[e]
        /\ \A x : About(c, x)' <=> x = b
        /\ \A e \in Chats, x \in Briefs : e # c => (About(e, x)' <=> About(e, x))
    BY <2>3, GoesOn DEF ChatInv
  <2>5. /\ made' \in [Briefs -> 0..3] /\ made'[b] = 0
        /\ \A x \in Briefs : x # b => made'[x] = made[x]
    BY <2>1 DEF ChatInv, ChatTyped
  <2>6. session.brief # b /\ \A e \in Chats : ~About(e, b)
    BY <2>1 DEF ChatInv, BriefsInHand
  <2>7. BriefsInHand'
    <3> SUFFICES ASSUME NEW x \in Briefs
                 PROVE  /\ made'[x] = Unparsed => session.brief # x /\ \A e \in Chats : ~About(e, x)'
                        /\ x \notin tangled =>
                           /\ made'[x] # 2
                           /\ \A e, f \in Chats : About(e, x)' /\ About(f, x)' => e = f
                           /\ \A e \in Chats : About(e, x)' =>
                                made'[x] = IF chat'[e].at = "clear" THEN 1 ELSE 0
                           /\ session.brief = x =>
                                made'[x] = 0 \/ \E e \in Chats : About(e, x)' /\ chat'[e].at = "clear"
      BY <1>1 DEF BriefsInHand, Unparsed
    <3>1. CASE x = b
      BY <2>3, <2>4, <2>5, <2>6, <3>1 DEF Unparsed
    <3>2. CASE x # b
      BY <1>1, <2>4, <2>5, <3>2 DEF ChatInv, BriefsInHand
    <3> QED
      BY <3>1, <3>2
  <2> QED
    BY <1>1, <2>1, <2>4, <2>5, <2>7 DEF ChatInv, ChatTyped
<1>3. CASE Mishap /\ End(c) /\ UNCHANGED made
  <2>1. Quiet \in Message /\ Quiet.at \notin Turns /\ chat' = [chat EXCEPT ![c] = Quiet]
    BY <1>3 DEF Message, Quiet, Turns, End
  <2>2. /\ chat' \in [Chats -> Message]
        /\ \A e \in Chats : e # c => chat'[e] = chat[e]
        /\ \A x : ~About(c, x)'
        /\ \A e \in Chats, x \in Briefs : e # c => (About(e, x)' <=> About(e, x))
    BY <2>1, GoesOn DEF ChatInv
  <2>3. \A e \in Chats, x \in Briefs :
          /\ About(e, x)' <=> About(e, x)
          /\ About(e, x) => chat'[e] = chat[e]
    BY <1>1, <2>2
  <2>4. mishaps' \in Nat
    BY <1>3 DEF Mishap, ChatInv, ChatTyped
  <2> QED
    BY <1>1, <1>3, <2>2, <2>3, <2>4 DEF ChatInv, ChatTyped, BriefsInHand, Unparsed
<1> QED
  BY <1>2, <1>3 DEF parseBrief

\* A message that stays with its brief, or lets go of it, without a mission.
LEMMA StaysWith ==
  ASSUME ChatInv, NEW c \in Chats, NEW b \in Briefs, About(c, b), chat[c].at # "clear",
         NEW d \in Message, chat' = [chat EXCEPT ![c] = d],
         d.at = "quiet" \/ (d.at \in Turns /\ d.at # "clear" /\ d.brief = b),
         UNCHANGED <<made, tangled>>, mishaps' \in Nat,
         session' = session \/ \E missing \in SUBSET Slots : session' = Draft(b, missing)
  PROVE  ChatInv'
<1>1. /\ chat' \in [Chats -> Message] /\ chat'[c] = d
      /\ \A e \in Chats : e # c => chat'[e] = chat[e]
      /\ \A x : About(c, x)' => x = b
      /\ \A e \in Chats, x \in Briefs : e # c => (About(e, x)' <=> About(e, x))
  BY GoesOn, ZenonT(60) DEF ChatInv, Turns
<1>2. \A e \in Chats, x \in Briefs :
        /\ About(e, x)' => About(e, x)
        /\ About(e, x) /\ chat[e].at = "clear" => About(e, x)' /\ chat'[e].at = "clear"
        /\ About(e, x)' => (chat'[e].at = "clear" <=> chat[e].at = "clear")
  BY <1>1 DEF Turns
<1>3. session'.brief = session.brief \/ session'.brief = b
  BY DEF Draft
<1>4. session' \in {NoSession} \cup [brief : Briefs, missing : SUBSET Slots]
  BY DEF Draft, ChatInv, ChatTyped
<1>5. made[b] # Unparsed /\ (b \notin tangled => made[b] = 0)
  BY DEF ChatInv, BriefsInHand
<1>6. BriefsInHand'
  <2> SUFFICES ASSUME NEW x \in Briefs
               PROVE  /\ made[x] = Unparsed => session'.brief # x /\ \A e \in Chats : ~About(e, x)'
                      /\ x \notin tangled =>
                         /\ made[x] # 2
                         /\ \A e, f \in Chats : About(e, x)' /\ About(f, x)' => e = f
                         /\ \A e \in Chats : About(e, x)' =>
                              made[x] = IF chat'[e].at = "clear" THEN 1 ELSE 0
                         /\ session'.brief = x =>
                              made[x] = 0 \/ \E e \in Chats : About(e, x)' /\ chat'[e].at = "clear"
    BY DEF BriefsInHand, Unparsed
  <2>1. CASE x = b /\ x \notin tangled
    BY <1>2, <1>5, <2>1 DEF ChatInv, BriefsInHand
  <2>2. CASE x = b /\ x \in tangled
    BY <1>5, <2>2
  <2>3. CASE x # b
    BY <1>2, <1>3, <2>3 DEF ChatInv, BriefsInHand
  <2> QED
    BY <2>1, <2>2, <2>3
<1> QED
  BY <1>1, <1>4, <1>6 DEF ChatInv, ChatTyped

\* A message at a stage is about a brief.
LEMMA StageAbout ==
  ASSUME ChatInv, NEW c \in Chats, chat[c].at \in Turns
  PROVE  \E b \in Briefs, missing \in SUBSET Slots :
           /\ About(c, b) /\ b = chat[c].brief /\ missing = chat[c].missing
           /\ chat[c] = [at |-> chat[c].at, brief |-> b, missing |-> missing]
<1>1. chat[c] \in Message
  BY DEF ChatInv, ChatTyped
<1> QED
  BY <1>1, MessageFields DEF About

LEMMA AnswerStep ==
  ASSUME ChatInv, NEW c \in Chats, Answer(c)
  PROVE  ChatInv'
<1>1. chat[c].at = "answer" /\ chat[c].at \in Turns /\ UNCHANGED <<session, made, tangled, mishaps>>
  BY DEF Answer, Turns
<1>2. PICK b \in Briefs, old \in SUBSET Slots : About(c, b) /\ b = chat[c].brief /\ old = chat[c].missing
  BY <1>1, StageAbout
<1>3. PICK understood \in BOOLEAN :
        chat' = [chat EXCEPT ![c] =
          [at |-> IF applyAnswerToProfile(old, understood) = {} THEN "continue" ELSE "ask",
           brief |-> b, missing |-> applyAnswerToProfile(old, understood)]]
  BY <1>2 DEF Answer
<1>4. PICK missing \in SUBSET Slots : missing = applyAnswerToProfile(old, understood)
  BY DEF applyAnswerToProfile
<1>5. PICK d \in Message :
        d = [at |-> IF missing = {} THEN "continue" ELSE "ask", brief |-> b, missing |-> missing]
  BY DEF Message, Turns
<1>6. chat' = [chat EXCEPT ![c] = d] /\ d.at \in Turns /\ d.at # "clear" /\ d.brief = b
  BY <1>3, <1>4, <1>5 DEF Turns
<1>7. mishaps' \in Nat
  BY <1>1 DEF ChatInv, ChatTyped
<1> QED
  BY <1>1, <1>2, <1>6, <1>7, StaysWith

LEMMA AskStep ==
  ASSUME ChatInv, NEW c \in Chats, Ask(c)
  PROVE  ChatInv'
<1>1. chat[c].at = "ask" /\ chat[c].at \in Turns /\ UNCHANGED <<made, tangled>>
  BY DEF Ask, Turns
<1>2. PICK b \in Briefs, missing \in SUBSET Slots :
        About(c, b) /\ b = chat[c].brief /\ missing = chat[c].missing
  BY <1>1, StageAbout
<1>3. Quiet \in Message /\ Quiet.at = "quiet" /\ chat' = [chat EXCEPT ![c] = Quiet]
  BY DEF Message, Quiet, Ask, End
<1>4. session' = session \/ session' = Draft(b, missing)
  BY <1>2 DEF Ask
<1>5. mishaps' \in Nat
  BY DEF Ask, Mishap, ChatInv, ChatTyped
<1> QED
  BY <1>1, <1>2, <1>3, <1>4, <1>5, StaysWith

LEMMA MakeMissionStep ==
  ASSUME ChatInv, NEW c \in Chats, MakeMission(c)
  PROVE  ChatInv'
<1>1. chat[c].at \in {"start", "continue"} /\ chat[c].at \in Turns /\ UNCHANGED <<session, tangled>>
  BY DEF MakeMission, Turns
<1>2. PICK b \in Briefs, missing \in SUBSET Slots :
        /\ About(c, b) /\ b = chat[c].brief /\ missing = chat[c].missing
        /\ chat[c] = [at |-> chat[c].at, brief |-> b, missing |-> missing]
  BY <1>1, StageAbout
<1>3. CASE Mishap /\ End(c) /\ UNCHANGED made
  <2>1. Quiet \in Message /\ Quiet.at = "quiet" /\ chat' = [chat EXCEPT ![c] = Quiet]
    BY <1>3 DEF Message, Quiet, End
  <2>2. mishaps' \in Nat
    BY <1>3 DEF Mishap, ChatInv, ChatTyped
  <2> QED
    BY <1>1, <1>2, <1>3, <2>1, <2>2, StaysWith
<1>4. CASE /\ made' = [made EXCEPT ![chat[c].brief] = IF @ < 2 THEN @ + 1 ELSE @]
           /\ ThenClear(c) /\ UNCHANGED mishaps
  <2>1. PICK d : d = [at |-> "clear", brief |-> b, missing |-> missing]
    OBVIOUS
  <2>2. [chat[c] EXCEPT !.at = "clear"] = d
    BY <1>2, <2>1
  <2>3. d \in Message /\ d.at = "clear" /\ d.at \in Turns /\ d.brief = b /\ chat' = [chat EXCEPT ![c] = d]
    <3>1. d \in Message /\ d.at = "clear" /\ d.at \in Turns /\ d.brief = b
      BY <2>1 DEF Message, Turns
    <3> QED
      BY <1>4, <2>2, <3>1 DEF ThenClear, To
  <2>4. /\ chat' \in [Chats -> Message] /\ chat'[c] = d
        /\ \A e \in Chats : e # c => chat'[e] = chat[e]
        /\ \A x : About(c, x)' <=> x = b
        /\ \A e \in Chats, x \in Briefs : e # c => (About(e, x)' <=> About(e, x))
    BY <2>3, GoesOn, ZenonT(60) DEF ChatInv
  <2>5. \A e \in Chats, x \in Briefs :
          /\ About(e, x)' <=> About(e, x)
          /\ e # c => chat'[e] = chat[e]
    BY <1>2, <2>4 DEF About
  <2>6. /\ made' \in [Briefs -> 0..3]
        /\ made[b] = 0 => made'[b] = 1
        /\ made[b] # Unparsed /\ made'[b] # Unparsed
        /\ \A x \in Briefs : x # b => made'[x] = made[x]
    <3>1. made[b] # Unparsed
      BY <1>2 DEF ChatInv, BriefsInHand
    <3> QED
      BY <1>2, <1>4, <3>1 DEF ChatInv, ChatTyped, Unparsed
  <2>7. b \notin tangled => made[b] = 0
    BY <1>1, <1>2 DEF ChatInv, BriefsInHand
  <2>8. BriefsInHand'
    <3> SUFFICES ASSUME NEW x \in Briefs
                 PROVE  /\ made'[x] = Unparsed => session.brief # x /\ \A e \in Chats : ~About(e, x)'
                        /\ x \notin tangled =>
                           /\ made'[x] # 2
                           /\ \A e, f \in Chats : About(e, x)' /\ About(f, x)' => e = f
                           /\ \A e \in Chats : About(e, x)' =>
                                made'[x] = IF chat'[e].at = "clear" THEN 1 ELSE 0
                           /\ session.brief = x =>
                                made'[x] = 0 \/ \E e \in Chats : About(e, x)' /\ chat'[e].at = "clear"
      BY <1>1 DEF BriefsInHand, Unparsed
    <3>1. CASE x = b /\ x \notin tangled
      <4>1. \A e \in Chats : About(e, b)' => e = c
        BY <1>2, <2>5, <3>1 DEF ChatInv, BriefsInHand
      <4> QED
        BY <2>3, <2>4, <2>6, <2>7, <3>1, <4>1
    <3>2. CASE x = b /\ x \in tangled
      BY <2>6, <3>2
    <3>3. CASE x # b
      <4>1. \A e \in Chats : About(e, x) => e # c
        BY <1>2, <3>3 DEF About
      <4>2. /\ made[x] = Unparsed => session.brief # x /\ \A e \in Chats : ~About(e, x)
            /\ x \notin tangled =>
               /\ made[x] # 2
               /\ \A e, f \in Chats : About(e, x) /\ About(f, x) => e = f
               /\ \A e \in Chats : About(e, x) =>
                    made[x] = IF chat[e].at = "clear" THEN 1 ELSE 0
               /\ session.brief = x =>
                    made[x] = 0 \/ \E e \in Chats : About(e, x) /\ chat[e].at = "clear"
        BY DEF ChatInv, BriefsInHand
      <4> QED
        BY <2>5, <2>6, <3>3, <4>1, <4>2
    <3> QED
      BY <3>1, <3>2, <3>3
  <2> QED
    BY <1>1, <1>4, <2>4, <2>6, <2>8 DEF ChatInv, ChatTyped
<1> QED
  BY <1>3, <1>4 DEF MakeMission

LEMMA ClearSessionStep ==
  ASSUME ChatInv, NEW c \in Chats, ClearSession(c)
  PROVE  ChatInv'
<1>1. chat[c].at = "clear" /\ chat[c].at \in Turns /\ UNCHANGED made
  BY DEF ClearSession, Turns
<1>2. Quiet \in Message /\ Quiet.at \notin Turns /\ chat' = [chat EXCEPT ![c] = Quiet]
  BY DEF Message, Quiet, Turns, ClearSession, End
<1>3. /\ chat' \in [Chats -> Message]
      /\ \A e \in Chats : e # c => chat'[e] = chat[e]
      /\ \A x : ~About(c, x)'
      /\ \A e \in Chats, x \in Briefs : e # c => (About(e, x)' <=> About(e, x))
  BY <1>2, GoesOn DEF ChatInv
<1>4. \A e \in Chats, x \in Briefs :
        /\ About(e, x)' => About(e, x) /\ chat'[e] = chat[e]
  BY <1>3
<1>5. /\ session' \in {NoSession} \cup [brief : Briefs, missing : SUBSET Slots]
      /\ tangled \subseteq tangled' /\ tangled' \subseteq Briefs /\ mishaps' \in Nat
      /\ \A x \in Briefs : session'.brief = x => session.brief = x /\ x \in tangled'
  <2>1. CASE session' = NoSession /\ UNCHANGED <<mishaps, tangled>>
    BY <2>1, SessionFields DEF ChatInv, ChatTyped
  <2>2. CASE /\ Mishap
             /\ tangled' = tangled \cup {b \in {session.brief} : session # NoSession}
             /\ UNCHANGED session
    BY <2>2, SessionFields DEF ChatInv, ChatTyped, Mishap
  <2> QED
    BY <2>1, <2>2 DEF ClearSession
<1>6. BriefsInHand'
  BY <1>1, <1>4, <1>5 DEF ChatInv, BriefsInHand, Unparsed
<1> QED
  BY <1>1, <1>3, <1>5, <1>6 DEF ChatInv, ChatTyped

LEMMA ChatInvStep == ChatInv /\ [ChatNext]_chatVars => ChatInv'
<1> SUFFICES ASSUME ChatInv, [ChatNext]_chatVars PROVE ChatInv'
  OBVIOUS
<1>1. CASE UNCHANGED chatVars
  BY <1>1 DEF chatVars, ChatInv, ChatTyped, BriefsInHand, About
<1> QED
  BY <1>1, ConverseStep, parseBriefStep, AnswerStep, AskStep, MakeMissionStep, ClearSessionStep
  DEF ChatNext, Conversing

LEMMA ChatInvInit == ChatInit => ChatInv
<1> SUFFICES ASSUME ChatInit PROVE ChatInv
  OBVIOUS
<1>1. ChatTyped
  BY DEF ChatInit, ChatTyped, Message, Unparsed
<1>2. \A c \in Chats, b \in Briefs : ~About(c, b)
  BY DEF ChatInit, About, Quiet, Turns
<1>3. \A b \in Briefs : session.brief # b
  BY BriefsAssumption DEF ChatInit, NoSession
<1> QED
  BY <1>1, <1>2, <1>3 DEF ChatInit, ChatInv, BriefsInHand, Unparsed

\* However many tabs talk to the assistant: a brief makes one mission, and its
\* session asks nothing once it has, unless two answers to it were in flight
\* together or the session could not be cleared.
THEOREM OneMissionPerBrief == ChatSpec => []BriefMakesOneMission
<1>1. ChatInv => BriefMakesOneMission
  <2> SUFFICES ASSUME ChatInv, NEW b \in Briefs \ tangled, made[b] = 1, session.brief = b
               PROVE  \E c \in Chats : chat[c].at = "clear" /\ chat[c].brief = b
    BY DEF ChatInv, BriefsInHand, BriefMakesOneMission
  <2> QED
    BY DEF ChatInv, BriefsInHand, About
<1> QED
  BY <1>1, ChatInvInit, ChatInvStep, PTL DEF ChatSpec

-----------------------------------------------------------------------------
(* The hourly limits: windows.                                              *)

\* Times of calls, none later than now, in order.
Ordered(calls) ==
  /\ calls \in Seq(Nat)
  /\ \A i \in 1..Len(calls) : calls[i] <= tick
  /\ \A i, j \in 1..Len(calls) : i <= j => calls[i] <= calls[j]

\* The calls that are no older than an hour at moment c.
Since(calls, c) == {i \in 1..Len(calls) : calls[i] + Hour >= c}

\* The calls let through that are no older than an hour at moment c.
AdmittedSince(c) == {i \in 1..Len(admitted) : admitted[i].at + Hour >= c}
AdmittedOf(u, c) == {i \in AdmittedSince(c) : admitted[i].who = u}
AskedSince(c) == {i \in 1..Len(asked) : asked[i].at + Hour >= c}

\* The windows agree with the history from now on, whatever was pruned.
LimitsInv ==
  /\ tick \in Nat
  /\ Ordered(globalCalls) /\ Ordered(missionCalls)
  /\ userCalls \in [Tenants -> Seq(Nat)] /\ \A u \in Tenants : Ordered(userCalls[u])
  /\ admitted \in Seq([who : Tenants \cup {NoUser}, at : Nat])
  /\ asked \in Seq([at : Nat])
  /\ \A c \in Nat : c >= tick =>
       /\ Cardinality(Since(globalCalls, c)) = Cardinality(AdmittedSince(c))
       /\ \A u \in Tenants : Cardinality(Since(userCalls[u], c)) = Cardinality(AdmittedOf(u, c))
       /\ Cardinality(AskedSince(c)) <= Cardinality(Since(missionCalls, c))
  /\ Cardinality(Since(missionCalls, tick)) <= MaxCallsPerMissionPerHour
  /\ ruling.ok = ruling.room

LEMMA LimitsNat ==
  /\ Hour \in Nat /\ perUserLimit \in Nat /\ globalLimit \in Nat
  /\ MaxCallsPerMissionPerHour \in Nat /\ LastTick \in Nat
  BY CallLimitsAssumption

LEMMA SinceFinite ==
  ASSUME NEW calls \in Seq(Nat), NEW c \in Nat
  PROVE  IsFiniteSet(Since(calls, c)) /\ Cardinality(Since(calls, c)) \in Nat
<1>1. Len(calls) \in Nat
  OBVIOUS
<1>2. IsFiniteSet(1..Len(calls)) /\ Since(calls, c) \in SUBSET (1..Len(calls))
  BY <1>1, FS_Interval DEF Since
<1> QED
  BY <1>2, FS_Subset, FS_CardinalityType

\* What is pruned is a front of the list, and all of what is too old.
LEMMA PrunedFront ==
  ASSUME tick \in Nat, NEW calls, Ordered(calls)
  PROVE  \E k \in 0..Len(calls) :
           /\ pruneCalls(calls) \in Seq(Nat) /\ Len(pruneCalls(calls)) = Len(calls) - k
           /\ \A i \in 1..(Len(calls) - k) :
                pruneCalls(calls)[i] = calls[i + k] /\ calls[i + k] + Hour >= tick
           /\ \A i \in 1..k : calls[i] + Hour < tick
<1> DEFINE keep == {i \in 1..Len(calls) : calls[i] + Hour >= tick}
<1>1. calls \in Seq(Nat) /\ Len(calls) \in Nat /\ Hour \in Nat
      /\ \A i \in 1..Len(calls) : calls[i] \in Nat
  BY LimitsNat DEF Ordered
<1>2. CASE keep = {}
  <2>1. pruneCalls(calls) = <<>>
    BY <1>2 DEF pruneCalls
  <2>2. \A i \in 1..Len(calls) : calls[i] + Hour < tick
    BY <1>1, <1>2
  <2>3. Len(<<>>) = 0 /\ <<>> \in Seq(Nat) /\ Len(calls) \in 0..Len(calls) /\ Len(calls) - Len(calls) = 0
        /\ 1..0 = {}
    BY <1>1
  <2> QED
    BY <2>1, <2>2, <2>3
<1>3. CASE keep # {}
  <2>1. \E i \in keep : \A j \in keep : i <= j
    <3>1. keep \subseteq Nat
      OBVIOUS
    <3> HIDE DEF keep
    <3> QED
      BY <1>3, <3>1, LeastNat
  <2>2. PICK f : f = CHOOSE i \in keep : \A j \in keep : i <= j
    OBVIOUS
  <2>3. f \in keep /\ \A j \in keep : f <= j
    BY <2>1, <2>2
  <2>4. f \in 1..Len(calls) /\ calls[f] + Hour >= tick
    BY <2>3
  <2>5. pruneCalls(calls) = SubSeq(calls, f, Len(calls))
    BY <1>3, <2>2 DEF pruneCalls
  <2>6. /\ SubSeq(calls, f, Len(calls)) \in Seq(Nat)
        /\ Len(SubSeq(calls, f, Len(calls))) = Len(calls) - f + 1
        /\ \A i \in 1..(Len(calls) - f + 1) : SubSeq(calls, f, Len(calls))[i] = calls[f + i - 1]
    BY <1>1, <2>4
  <2>7. \A i \in 1..(f - 1) : calls[i] + Hour < tick
    BY <1>1, <2>3, <2>4, SMTT(60)
  <2>8. \A i \in 1..(Len(calls) - (f - 1)) :
          /\ f + i - 1 = i + (f - 1) /\ i + (f - 1) \in 1..Len(calls) /\ f <= i + (f - 1)
    BY <1>1, <2>4
  <2>9. \A i \in 1..(Len(calls) - (f - 1)) : calls[i + (f - 1)] + Hour >= tick
    <3>1. ASSUME NEW i \in 1..(Len(calls) - (f - 1))
          PROVE  calls[f] <= calls[i + (f - 1)] /\ calls[i + (f - 1)] \in Nat
      BY <1>1, <2>4, <2>8 DEF Ordered
    <3>2. \A x, y \in Nat : x <= y /\ x + Hour >= tick => y + Hour >= tick
      BY <1>1
    <3> QED
      BY <1>1, <2>4, <3>1, <3>2
  <2>10. f - 1 \in 0..Len(calls) /\ Len(calls) - f + 1 = Len(calls) - (f - 1)
    BY <1>1, <2>4
  <2> QED
    BY <2>5, <2>6, <2>7, <2>8, <2>9, <2>10
<1> QED
  BY <1>2, <1>3

\* Pruning changes no count from now on, and what it leaves is all recent.
LEMMA PrunedSince ==
  ASSUME tick \in Nat, NEW calls, Ordered(calls)
  PROVE  /\ Ordered(pruneCalls(calls))
         /\ \A c \in Nat : c >= tick =>
              Cardinality(Since(pruneCalls(calls), c)) = Cardinality(Since(calls, c))
         /\ Len(pruneCalls(calls)) = Cardinality(Since(calls, tick))
<1> DEFINE new == pruneCalls(calls)
<1>1. PICK k \in 0..Len(calls) :
        /\ new \in Seq(Nat) /\ Len(new) = Len(calls) - k
        /\ \A i \in 1..(Len(calls) - k) : new[i] = calls[i + k] /\ calls[i + k] + Hour >= tick
        /\ \A i \in 1..k : calls[i] + Hour < tick
  BY PrunedFront
<1>2. calls \in Seq(Nat) /\ Len(calls) \in Nat /\ Hour \in Nat
      /\ \A i \in 1..Len(calls) : calls[i] \in Nat
  BY LimitsNat DEF Ordered
<1> HIDE DEF new
<1>3. \A i \in 1..Len(new) : i + k \in 1..Len(calls) /\ new[i] = calls[i + k] /\ new[i] + Hour >= tick
  BY <1>1, <1>2, SMTT(60)
<1>4. Ordered(new)
  <2>1. \A i, j \in 1..Len(new) : i <= j => i + k <= j + k
    BY <1>1, <1>2
  <2> QED
    BY <1>1, <1>3, <2>1 DEF Ordered
<1>5. ASSUME NEW c \in Nat, c >= tick
      PROVE  Cardinality(Since(new, c)) = Cardinality(Since(calls, c))
  <2> DEFINE f == [i \in Since(new, c) |-> i + k]
  <2>1. f \in [Since(new, c) -> Since(calls, c)]
    BY <1>3 DEF Since
  <2>2. \A i, j \in Since(new, c) : f[i] = f[j] => i = j
    BY <1>1, <1>2 DEF Since
  <2>3. ASSUME NEW j \in Since(calls, c)
        PROVE  \E i \in Since(new, c) : f[i] = j
    <3>1. j \in 1..Len(calls) /\ calls[j] + Hour >= c /\ calls[j] \in Nat
      BY <1>2 DEF Since
    <3>2. j \notin 1..k
      BY <1>1, <1>2, <1>5, <3>1, SMTT(60)
    <3>3. j - k \in 1..Len(new) /\ (j - k) + k = j
      BY <1>1, <1>2, <3>1, <3>2
    <3>4. j - k \in Since(new, c)
      BY <1>3, <3>1, <3>3 DEF Since
    <3> QED
      BY <3>3, <3>4
  <2>4. f \in Bijection(Since(new, c), Since(calls, c))
    <3> HIDE DEF f
    <3> QED
      BY <2>1, <2>2, <2>3 DEF Bijection, Injection, Surjection, IsInjective
  <2>5. IsFiniteSet(Since(new, c))
    BY <1>1, SinceFinite
  <2> QED
    BY <2>4, <2>5, FS_Bijection DEF ExistsBijection
<1>6. Since(new, tick) = 1..Len(new) /\ Len(new) \in Nat
  BY <1>1, <1>3 DEF Since
<1>7. Cardinality(1..Len(new)) = Len(new)
  <2>1. \A n \in Nat : Cardinality(1..n) = IF 1 > n THEN 0 ELSE n - 1 + 1
    BY FS_Interval
  <2>2. \A n \in Nat : (IF 1 > n THEN 0 ELSE n - 1 + 1) = n
    OBVIOUS
  <2> QED
    BY <1>6, <2>1, <2>2
<1>8. Len(new) = Cardinality(Since(calls, tick))
  BY <1>5, <1>6, <1>7
<1> QED
  BY <1>4, <1>5, <1>8 DEF new

\* A call booked now is recent for an hour.
LEMMA BookedSince ==
  ASSUME tick \in Nat, NEW calls, Ordered(calls)
  PROVE  /\ Ordered(Append(calls, tick))
         /\ \A c \in Nat : Cardinality(Since(Append(calls, tick), c))
                           = Cardinality(Since(calls, c)) + IF tick + Hour >= c THEN 1 ELSE 0
<1> DEFINE n == Len(calls)
           new == Append(calls, tick)
<1>1. calls \in Seq(Nat) /\ n \in Nat /\ \A i \in 1..n : calls[i] \in Nat /\ calls[i] <= tick
  BY DEF Ordered
<1>2. /\ new \in Seq(Nat) /\ Len(new) = n + 1 /\ new[n + 1] = tick
      /\ \A i \in 1..n : new[i] = calls[i]
  BY <1>1
<1> HIDE DEF new
<1>3. 1..(n + 1) = 1..n \cup {n + 1} /\ n + 1 \notin 1..n
  BY <1>1
<1>4. Ordered(new)
  <2>1. \A i \in 1..Len(new) : new[i] <= tick
    BY <1>1, <1>2, <1>3, SMTT(60)
  <2>2. ASSUME NEW i \in 1..(n + 1), NEW j \in 1..(n + 1), i <= j
        PROVE  new[i] <= new[j]
    <3>1. CASE j = n + 1
      BY <1>2, <2>1, <3>1
    <3>2. CASE j # n + 1
      <4>1. i \in 1..n /\ j \in 1..n
        BY <1>1, <2>2, <3>2
      <4> QED
        BY <1>2, <2>2, <4>1 DEF Ordered
    <3> QED
      BY <3>1, <3>2
  <2> QED
    BY <1>2, <2>1, <2>2 DEF Ordered
<1>5. ASSUME NEW c \in Nat
      PROVE  Cardinality(Since(new, c)) = Cardinality(Since(calls, c)) + IF tick + Hour >= c THEN 1 ELSE 0
  <2>1. IsFiniteSet(Since(calls, c)) /\ Cardinality(Since(calls, c)) \in Nat /\ n + 1 \notin Since(calls, c)
    BY <1>1, <1>3, SinceFinite DEF Since
  <2>2. CASE tick + Hour >= c
    <3>1. Since(new, c) = Since(calls, c) \cup {n + 1}
      BY <1>2, <1>3, <2>2 DEF Since
    <3> QED
      BY <2>1, <2>2, <3>1, FS_AddElement
  <2>3. CASE ~(tick + Hour >= c)
    <3>1. Since(new, c) = Since(calls, c)
      BY <1>2, <1>3, <2>3 DEF Since
    <3> QED
      BY <2>1, <2>3, <3>1
  <2> QED
    BY <2>2, <2>3
<1> QED
  BY <1>4, <1>5 DEF new
-----------------------------------------------------------------------------
(* The hourly limits: the history.                                          *)

LEMMA Appended ==
  ASSUME NEW S, NEW s \in Seq(S), NEW x \in S
  PROVE  /\ Append(s, x) \in Seq(S) /\ Len(s) \in Nat
         /\ Len(Append(s, x)) = Len(s) + 1 /\ Append(s, x)[Len(s) + 1] = x
         /\ \A i \in 1..Len(s) : Append(s, x)[i] = s[i]
         /\ 1..(Len(s) + 1) = 1..Len(s) \cup {Len(s) + 1} /\ Len(s) + 1 \notin 1..Len(s)
<1>1. Len(s) \in Nat
  OBVIOUS
<1>2. \A n \in Nat : 1..(n + 1) = 1..n \cup {n + 1} /\ n + 1 \notin 1..n
  OBVIOUS
<1>3. Append(s, x) \in Seq(S) /\ Len(Append(s, x)) = Len(s) + 1
  OBVIOUS
<1>4. Append(s, x)[Len(s) + 1] = x /\ \A i \in 1..Len(s) : Append(s, x)[i] = s[i]
  OBVIOUS
<1> QED
  BY <1>1, <1>2, <1>3, <1>4

\* Records picked by a field, of a set that gains an index or keeps its own.
LEMMA PickedOf ==
  ASSUME NEW S, NEW m, m \notin S, NEW f, NEW g, \A i \in S : f[i] = g[i], NEW v
  PROVE  /\ {i \in S : f[i].who = v} = {i \in S : g[i].who = v}
         /\ f[m].who = v => {i \in S \cup {m} : f[i].who = v} = {i \in S : g[i].who = v} \cup {m}
         /\ f[m].who # v => {i \in S \cup {m} : f[i].who = v} = {i \in S : g[i].who = v}
  OBVIOUS

LEMMA HistoryTyped ==
  ASSUME LimitsInv
  PROVE  /\ admitted \in Seq([who : Tenants \cup {NoUser}, at : Nat]) /\ asked \in Seq([at : Nat])
         /\ tick \in Nat
  BY DEF LimitsInv

LEMMA HistoryFinite ==
  ASSUME LimitsInv, NEW c \in Nat
  PROVE  /\ IsFiniteSet(AdmittedSince(c)) /\ Cardinality(AdmittedSince(c)) \in Nat
         /\ \A u : IsFiniteSet(AdmittedOf(u, c)) /\ Cardinality(AdmittedOf(u, c)) \in Nat
         /\ IsFiniteSet(AskedSince(c)) /\ Cardinality(AskedSince(c)) \in Nat
<1>1. \A S, s : s \in Seq(S) => IsFiniteSet(1..Len(s))
  <2>1. \A S, s : s \in Seq(S) => Len(s) \in Nat
    OBVIOUS
  <2> QED
    BY <2>1, FS_Interval
<1>2. IsFiniteSet(1..Len(admitted)) /\ IsFiniteSet(1..Len(asked))
  BY <1>1, HistoryTyped
<1>3. AdmittedSince(c) \in SUBSET (1..Len(admitted)) /\ AskedSince(c) \in SUBSET (1..Len(asked))
  BY DEF AdmittedSince, AskedSince
<1>4. IsFiniteSet(AdmittedSince(c)) /\ IsFiniteSet(AskedSince(c))
  BY <1>2, <1>3, FS_Subset
<1>5. \A u : AdmittedOf(u, c) \in SUBSET AdmittedSince(c)
  BY DEF AdmittedOf
<1>6. \A u : IsFiniteSet(AdmittedOf(u, c))
  BY <1>4, <1>5, FS_Subset
<1> QED
  BY <1>4, <1>6, FS_CardinalityType

\* A call let through now is one more on record.
LEMMA HistoryGrows ==
  ASSUME LimitsInv, NEW Calls, Calls = [who : Tenants \cup {NoUser}, at : Nat],
         NEW call \in Calls, call.at = tick, admitted' = Append(admitted, call)
  PROVE  /\ admitted' \in Seq(Calls)
         /\ \A c \in Nat :
              LET more == IF tick + Hour >= c THEN 1 ELSE 0
              IN /\ Cardinality(AdmittedSince(c)') = Cardinality(AdmittedSince(c)) + more
                 /\ \A v : Cardinality(AdmittedOf(v, c)')
                           = Cardinality(AdmittedOf(v, c)) + IF v = call.who THEN more ELSE 0
<1>3. admitted \in Seq(Calls)
  BY HistoryTyped
<1>4. PICK u : u = call.who
  OBVIOUS
<1>5. PICK n : n = Len(admitted)
  OBVIOUS
<1>6. /\ admitted' \in Seq(Calls)
      /\ Len(admitted') = n + 1 /\ admitted'[n + 1] = call
      /\ \A i \in 1..n : admitted'[i] = admitted[i]
      /\ 1..(n + 1) = 1..n \cup {n + 1} /\ n + 1 \notin 1..n
  <2>1. /\ Append(admitted, call) \in Seq(Calls) /\ Len(admitted) \in Nat
        /\ Len(Append(admitted, call)) = Len(admitted) + 1
        /\ Append(admitted, call)[Len(admitted) + 1] = call
        /\ \A i \in 1..Len(admitted) : Append(admitted, call)[i] = admitted[i]
        /\ 1..(Len(admitted) + 1) = 1..Len(admitted) \cup {Len(admitted) + 1}
        /\ Len(admitted) + 1 \notin 1..Len(admitted)
    BY <1>3, Appended
  <2> QED
    BY <1>5, <2>1, Zenon
<1>7. ASSUME NEW c \in Nat
      PROVE  /\ n + 1 \notin AdmittedSince(c) /\ \A v : n + 1 \notin AdmittedOf(v, c)
             /\ tick + Hour >= c =>
                  /\ AdmittedSince(c)' = AdmittedSince(c) \cup {n + 1}
                  /\ AdmittedOf(u, c)' = AdmittedOf(u, c) \cup {n + 1}
             /\ ~(tick + Hour >= c) => AdmittedSince(c)' = AdmittedSince(c)
             /\ \A v : v # u \/ ~(tick + Hour >= c) => AdmittedOf(v, c)' = AdmittedOf(v, c)
  <2>1. n + 1 \notin AdmittedSince(c) /\ \A v : n + 1 \notin AdmittedOf(v, c)
    BY <1>5, <1>6 DEF AdmittedSince, AdmittedOf
  <2>2. AdmittedSince(c)' = {i \in 1..(n + 1) : admitted'[i].at + Hour >= c}
    BY <1>6 DEF AdmittedSince
  <2>3. AdmittedSince(c) = {i \in 1..n : admitted[i].at + Hour >= c}
    BY <1>5 DEF AdmittedSince
  <2>4. tick + Hour >= c => AdmittedSince(c)' = AdmittedSince(c) \cup {n + 1}
    <3>1. admitted'[n + 1].at = tick /\ \A i \in 1..n : admitted'[i] = admitted[i]
      BY <1>4, <1>6
    <3> SUFFICES ASSUME tick + Hour >= c PROVE AdmittedSince(c)' = AdmittedSince(c) \cup {n + 1}
      OBVIOUS
    <3> QED
      BY <1>6, <2>2, <2>3, <3>1
  <2>5. ~(tick + Hour >= c) => AdmittedSince(c)' = AdmittedSince(c)
    BY <1>4, <1>6, <2>2, <2>3, ZenonT(30)
  <2>6. \A v : /\ AdmittedOf(v, c)' = {i \in AdmittedSince(c)' : admitted'[i].who = v}
               /\ AdmittedOf(v, c) = {i \in AdmittedSince(c) : admitted[i].who = v}
    BY DEF AdmittedOf
  <2>7. \A i \in AdmittedSince(c) : admitted'[i] = admitted[i]
    BY <1>6, <2>3
  <2>8. \A v :
          /\ {i \in AdmittedSince(c) : admitted'[i].who = v} = AdmittedOf(v, c)
          /\ v = u => {i \in AdmittedSince(c) \cup {n + 1} : admitted'[i].who = v}
                      = AdmittedOf(v, c) \cup {n + 1}
          /\ v # u => {i \in AdmittedSince(c) \cup {n + 1} : admitted'[i].who = v} = AdmittedOf(v, c)
    <3>1. admitted'[n + 1].who = u
      BY <1>4, <1>6
    <3>2. ASSUME NEW v
          PROVE  /\ {i \in AdmittedSince(c) : admitted'[i].who = v} = {i \in AdmittedSince(c) : admitted[i].who = v}
                 /\ u = v => {i \in AdmittedSince(c) \cup {n + 1} : admitted'[i].who = v}
                             = {i \in AdmittedSince(c) : admitted[i].who = v} \cup {n + 1}
                 /\ u # v => {i \in AdmittedSince(c) \cup {n + 1} : admitted'[i].who = v}
                             = {i \in AdmittedSince(c) : admitted[i].who = v}
      <4>1. n + 1 \notin AdmittedSince(c) /\ \A i \in AdmittedSince(c) : admitted'[i] = admitted[i]
        BY <2>1, <2>7
            <4> QED
        BY <4>1, <3>1, PickedOf
    <3> QED
      BY <2>6, <3>2, Zenon
  <2>9. tick + Hour >= c => AdmittedOf(u, c)' = AdmittedOf(u, c) \cup {n + 1}
    BY <2>4, <2>6, <2>8, ZenonT(60)
  <2>10. ASSUME NEW v, v # u \/ ~(tick + Hour >= c)
         PROVE  AdmittedOf(v, c)' = AdmittedOf(v, c)
    <3>1. CASE tick + Hour >= c
      BY <2>4, <2>6, <2>8, <2>10, <3>1, Zenon
    <3>2. CASE ~(tick + Hour >= c)
      BY <2>5, <2>6, <2>8, <3>2, Zenon
    <3> QED
      BY <3>1, <3>2
  <2> QED
    BY <2>1, <2>4, <2>5, <2>9, <2>10, Zenon
<1>8. \A T, x : IsFiniteSet(T) /\ x \notin T => Cardinality(T \cup {x}) = Cardinality(T) + 1
  BY FS_AddElement
<1>9. ASSUME NEW c \in Nat
      PROVE  LET more == IF tick + Hour >= c THEN 1 ELSE 0
             IN /\ Cardinality(AdmittedSince(c)') = Cardinality(AdmittedSince(c)) + more
                /\ \A v : Cardinality(AdmittedOf(v, c)')
                          = Cardinality(AdmittedOf(v, c)) + IF v = call.who THEN more ELSE 0
  <2>1. CASE tick + Hour >= c
    <3>1. Cardinality(AdmittedSince(c)') = Cardinality(AdmittedSince(c)) + 1
      BY <1>7, <1>8, <2>1, HistoryFinite
    <3>2. Cardinality(AdmittedOf(u, c)') = Cardinality(AdmittedOf(u, c)) + 1
      BY <1>7, <1>8, <2>1, HistoryFinite
    <3>3. ASSUME NEW v, v # u
          PROVE  Cardinality(AdmittedOf(v, c)') = Cardinality(AdmittedOf(v, c)) + 0
      <4>1. AdmittedOf(v, c)' = AdmittedOf(v, c)
        BY <1>7, <3>3, Zenon
      <4>2. Cardinality(AdmittedOf(v, c)) \in Nat
        BY HistoryFinite
      <4> QED
        BY <4>1, <4>2
    <3> QED
      BY <1>4, <2>1, <3>1, <3>2, <3>3
  <2>2. CASE ~(tick + Hour >= c)
    <3>1. Cardinality(AdmittedSince(c)') = Cardinality(AdmittedSince(c)) + 0
      <4>1. AdmittedSince(c)' = AdmittedSince(c)
        BY <1>7, <2>2
      <4>2. Cardinality(AdmittedSince(c)) \in Nat
        BY HistoryFinite
      <4> QED
        BY <4>1, <4>2
    <3>2. ASSUME NEW v
          PROVE  Cardinality(AdmittedOf(v, c)') = Cardinality(AdmittedOf(v, c)) + 0
      <4>1. AdmittedOf(v, c)' = AdmittedOf(v, c)
        BY <1>7, <2>2, Zenon
      <4>2. Cardinality(AdmittedOf(v, c)) \in Nat
        BY HistoryFinite
      <4> QED
        BY <4>1, <4>2
    <3> QED
      BY <2>2, <3>1, <3>2
  <2> QED
    BY <2>1, <2>2
<1> QED
  BY <1>6, <1>9

LEMMA AskedGrows ==
  ASSUME LimitsInv, asked' = Append(asked, [at |-> tick])
  PROVE  /\ asked' \in Seq([at : Nat])
         /\ \A c \in Nat : Cardinality(AskedSince(c)')
                           = Cardinality(AskedSince(c)) + IF tick + Hour >= c THEN 1 ELSE 0
<1> DEFINE Calls == [at : Nat]
<1>1. PICK call : call = [at |-> tick]
  OBVIOUS
<1>2. call \in Calls /\ call.at = tick
  BY <1>1, HistoryTyped
<1>3. asked \in Seq(Calls) /\ asked' = Append(asked, call)
  BY <1>1, HistoryTyped
<1> HIDE DEF Calls
<1>4. PICK n : n = Len(asked)
  OBVIOUS
<1>5. /\ asked' \in Seq(Calls)
      /\ Len(asked') = n + 1 /\ asked'[n + 1] = call
      /\ \A i \in 1..n : asked'[i] = asked[i]
      /\ 1..(n + 1) = 1..n \cup {n + 1} /\ n + 1 \notin 1..n
  BY <1>2, <1>3, <1>4, Appended
<1>6. \A T, x : IsFiniteSet(T) /\ x \notin T => Cardinality(T \cup {x}) = Cardinality(T) + 1
  BY FS_AddElement
<1>7. ASSUME NEW c \in Nat
      PROVE  Cardinality(AskedSince(c)') = Cardinality(AskedSince(c)) + IF tick + Hour >= c THEN 1 ELSE 0
  <2>1. AskedSince(c)' = {i \in 1..(n + 1) : asked'[i].at + Hour >= c}
    BY <1>5 DEF AskedSince
  <2>2. AskedSince(c) = {i \in 1..n : asked[i].at + Hour >= c}
    BY <1>4 DEF AskedSince
  <2>3. n + 1 \notin AskedSince(c)
    BY <1>5, <2>2
  <2>4. CASE tick + Hour >= c
    <3>1. AskedSince(c)' = AskedSince(c) \cup {n + 1}
      BY <1>2, <1>5, <2>1, <2>2, <2>4, ZenonT(30)
    <3>2. Cardinality(AskedSince(c)') = Cardinality(AskedSince(c)) + 1
      BY <1>6, <2>3, <3>1, HistoryFinite
    <3> QED
      BY <2>4, <3>2
  <2>5. CASE ~(tick + Hour >= c)
    <3>1. AskedSince(c)' = AskedSince(c)
      BY <1>2, <1>5, <2>1, <2>2, <2>5, ZenonT(30)
    <3>2. Cardinality(AskedSince(c)') = Cardinality(AskedSince(c)) + 0
      BY <3>1, HistoryFinite
    <3> QED
      BY <2>5, <3>2
  <2> QED
    BY <2>4, <2>5
<1> QED
  BY <1>5, <1>7 DEF Calls

-----------------------------------------------------------------------------
(* The hourly limits: the steps.                                            *)

\* What Allow and Evaluate do to a window they have room in.
LEMMA PrunedAndBooked ==
  ASSUME tick \in Nat, NEW calls, Ordered(calls)
  PROVE  LET new == Append(pruneCalls(calls), tick)
         IN /\ Ordered(new)
            /\ \A c \in Nat : c >= tick =>
                 Cardinality(Since(new, c)) = Cardinality(Since(calls, c)) + IF tick + Hour >= c THEN 1 ELSE 0
            /\ Cardinality(Since(new, tick)) = Len(pruneCalls(calls)) + 1
<1>1. PICK kept : kept = pruneCalls(calls)
  OBVIOUS
<1>2. /\ Ordered(kept) /\ Len(kept) = Cardinality(Since(calls, tick))
      /\ \A c \in Nat : c >= tick => Cardinality(Since(kept, c)) = Cardinality(Since(calls, c))
  BY <1>1, PrunedSince
<1>3. /\ Ordered(Append(kept, tick))
      /\ \A c \in Nat : Cardinality(Since(Append(kept, tick), c))
                        = Cardinality(Since(kept, c)) + IF tick + Hour >= c THEN 1 ELSE 0
  BY <1>2, BookedSince
<1>4. \A h \in Nat : tick + h >= tick /\ tick >= tick
  OBVIOUS
<1>5. Cardinality(Since(Append(kept, tick), tick)) = Len(kept) + 1
  BY <1>2, <1>3, <1>4, LimitsNat
<1> QED
  BY <1>1, <1>2, <1>3, <1>5

\* What the windows say is what the history says.
LEMMA RoomIsRoom ==
  ASSUME LimitsInv, NEW u \in Tenants \cup {NoUser}
  PROVE  (GlobalRoom /\ UserRoom(u)) <=> HasRoom(u)
<1>1. /\ tick \in Nat /\ tick >= tick /\ Ordered(globalCalls) /\ \A w \in Tenants : Ordered(userCalls[w])
      /\ Cardinality(Since(globalCalls, tick)) = Cardinality(AdmittedSince(tick))
      /\ \A w \in Tenants : Cardinality(Since(userCalls[w], tick)) = Cardinality(AdmittedOf(w, tick))
  BY DEF LimitsInv
<1>2. /\ Len(pruneCalls(globalCalls)) = Cardinality(AdmittedSince(tick))
      /\ \A w \in Tenants : Len(pruneCalls(userCalls[w])) = Cardinality(AdmittedOf(w, tick))
  BY <1>1, PrunedSince
<1>3. /\ Recently(admitted) = AdmittedSince(tick)
      /\ \A w : {i \in Recently(admitted) : admitted[i].who = w} = AdmittedOf(w, tick)
  BY DEF Recently, AdmittedSince, AdmittedOf
<1>4. HasRoom(u) <=> /\ ~Reached(globalLimit, Cardinality(AdmittedSince(tick)))
                     /\ u # NoUser => ~Reached(perUserLimit, Cardinality(AdmittedOf(u, tick)))
  BY <1>3 DEF HasRoom
<1>5. u # NoUser => u \in Tenants
  OBVIOUS
<1> QED
  BY <1>2, <1>4, <1>5 DEF GlobalRoom, UserRoom

\* Windows and history agree from now on.
Agree(c) ==
  /\ Cardinality(Since(globalCalls, c)) = Cardinality(AdmittedSince(c))
  /\ \A u \in Tenants : Cardinality(Since(userCalls[u], c)) = Cardinality(AdmittedOf(u, c))
  /\ Cardinality(AskedSince(c)) <= Cardinality(Since(missionCalls, c))

LEMMA AllowStep ==
  ASSUME LimitsInv, NEW u \in Tenants \cup {NoUser}, Allow(u)
  PROVE  LimitsInv'
<1>1. /\ tick \in Nat /\ Ordered(globalCalls) /\ Ordered(missionCalls)
      /\ userCalls \in [Tenants -> Seq(Nat)] /\ \A w \in Tenants : Ordered(userCalls[w])
      /\ \A c \in Nat : c >= tick => Agree(c)
      /\ Cardinality(Since(missionCalls, tick)) <= MaxCallsPerMissionPerHour
  BY DEF LimitsInv, Agree
<1>2. tick' = tick /\ missionCalls' = missionCalls /\ asked' = asked
  BY DEF Allow
<1>3. ruling'.ok = ruling'.room
  <2>1. ruling' = [ok |-> GlobalRoom /\ UserRoom(u), room |-> HasRoom(u)]
    BY DEF Allow
  <2>2. ruling'.ok = (GlobalRoom /\ UserRoom(u)) /\ ruling'.room = HasRoom(u)
    BY <2>1, Zenon
  <2>3. (GlobalRoom /\ UserRoom(u)) = HasRoom(u)
    BY RoomIsRoom, Zenon DEF HasRoom
  <2> QED
    BY <2>2, <2>3, Zenon
<1>4. NoUser \notin Tenants
  BY CallLimitsAssumption
<1>5. CASE GlobalRoom /\ UserRoom(u)
  <2>1. PICK Calls, call : /\ Calls = [who : Tenants \cup {NoUser}, at : Nat]
                           /\ call = [who |-> u, at |-> tick]
    OBVIOUS
  <2>2. call \in Calls /\ call.at = tick /\ call.who = u /\ admitted' = Append(admitted, call)
    BY <1>1, <1>5, <2>1 DEF Allow
  <2>3. /\ admitted' \in Seq(Calls)
        /\ \A c \in Nat :
             LET more == IF tick + Hour >= c THEN 1 ELSE 0
             IN /\ Cardinality(AdmittedSince(c)') = Cardinality(AdmittedSince(c)) + more
                /\ \A v : Cardinality(AdmittedOf(v, c)')
                          = Cardinality(AdmittedOf(v, c)) + IF v = u THEN more ELSE 0
    BY <2>1, <2>2, HistoryGrows
  <2>4. globalCalls' = Append(pruneCalls(globalCalls), tick)
    BY <1>5 DEF Allow, Booked
  <2>5. /\ userCalls' \in [Tenants -> Seq(Nat)]
        /\ \A w \in Tenants : w # u => userCalls'[w] = userCalls[w]
        /\ u \in Tenants => userCalls'[u] = Append(pruneCalls(userCalls[u]), tick)
    <3>1. CASE u = NoUser
      BY <1>1, <1>4, <1>5, <3>1 DEF Allow
    <3>2. CASE u # NoUser
      <4>1. PICK d : d = Append(pruneCalls(userCalls[u]), tick)
        OBVIOUS
      <4>2. userCalls' = [userCalls EXCEPT ![u] = d]
        BY <1>5, <3>2, <4>1 DEF Allow
      <4>3. u \in Tenants /\ d \in Seq(Nat)
        BY <1>1, <3>2, <4>1, PrunedAndBooked DEF Ordered
      <4> QED
        BY <1>1, <4>1, <4>2, <4>3
    <3> QED
      BY <3>1, <3>2
  <2>6. Ordered(globalCalls)' /\ \A w \in Tenants : Ordered(userCalls[w])'
    <3>1. Ordered(Append(pruneCalls(globalCalls), tick))
      BY <1>1, PrunedAndBooked
    <3>2. \A w \in Tenants : Ordered(userCalls'[w])
      BY <1>1, <2>5, PrunedAndBooked
    <3> QED
      BY <1>2, <2>4, <3>1, <3>2 DEF Ordered
  <2>7. ASSUME NEW c \in Nat, c >= tick
        PROVE  Agree(c)'
    <3>1. Cardinality(Since(globalCalls, c)') = Cardinality(AdmittedSince(c)')
      <4>1. Cardinality(Since(Append(pruneCalls(globalCalls), tick), c))
            = Cardinality(Since(globalCalls, c)) + IF tick + Hour >= c THEN 1 ELSE 0
        BY <1>1, <2>7, PrunedAndBooked
      <4>2. Since(globalCalls, c)' = Since(Append(pruneCalls(globalCalls), tick), c)
        BY <2>4 DEF Since
      <4> QED
        BY <1>1, <2>3, <2>7, <4>1, <4>2 DEF Agree
    <3>2. ASSUME NEW w \in Tenants
          PROVE  Cardinality(Since(userCalls[w], c)') = Cardinality(AdmittedOf(w, c)')
      <4>1. Since(userCalls[w], c)' = Since(userCalls'[w], c)
        BY DEF Since
      <4>2. CASE w = u
        <5>1. Cardinality(Since(Append(pruneCalls(userCalls[u]), tick), c))
              = Cardinality(Since(userCalls[u], c)) + IF tick + Hour >= c THEN 1 ELSE 0
          BY <1>1, <2>7, <4>2, PrunedAndBooked
        <5> QED
          BY <1>1, <2>3, <2>5, <2>7, <4>1, <4>2, <5>1 DEF Agree
      <4>3. CASE w # u
        <5>1. Cardinality(AdmittedOf(w, c)') = Cardinality(AdmittedOf(w, c)) + 0
          BY <2>3, <4>3
        <5>2. Cardinality(AdmittedOf(w, c)) \in Nat
          BY HistoryFinite
        <5> QED
          BY <1>1, <2>5, <2>7, <4>1, <4>3, <5>1, <5>2 DEF Agree
      <4> QED
        BY <4>2, <4>3
    <3>3. AskedSince(c)' = AskedSince(c) /\ Since(missionCalls, c)' = Since(missionCalls, c)
      BY <1>2 DEF AskedSince, Since
    <3> QED
      BY <1>1, <2>7, <3>1, <3>2, <3>3 DEF Agree
  <2> QED
    BY <1>1, <1>2, <1>3, <2>1, <2>3, <2>5, <2>6, <2>7, HistoryTyped DEF LimitsInv, Agree, Ordered, Since
<1>6. CASE ~(GlobalRoom /\ UserRoom(u))
  <2>1. admitted' = admitted /\ globalCalls' = pruneCalls(globalCalls)
    BY <1>6 DEF Allow, Booked
  <2>2. /\ userCalls' \in [Tenants -> Seq(Nat)]
        /\ \A w \in Tenants : userCalls'[w] \in {userCalls[w], pruneCalls(userCalls[w])}
    <3>1. CASE u = NoUser \/ ~GlobalRoom
      BY <1>1, <3>1 DEF Allow
    <3>2. CASE u # NoUser /\ GlobalRoom
      <4>1. PICK d : d = pruneCalls(userCalls[u])
        OBVIOUS
      <4>2. userCalls' = [userCalls EXCEPT ![u] = d]
        BY <1>6, <3>2, <4>1 DEF Allow
      <4>3. u \in Tenants /\ d \in Seq(Nat)
        BY <1>1, <3>2, <4>1, PrunedSince DEF Ordered
      <4> QED
        BY <1>1, <4>1, <4>2, <4>3
    <3> QED
      BY <3>1, <3>2
  <2>3. Ordered(globalCalls)' /\ \A w \in Tenants : Ordered(userCalls[w])'
    <3>1. Ordered(pruneCalls(globalCalls))
      BY <1>1, PrunedSince
    <3>2. \A w \in Tenants : Ordered(userCalls'[w])
      BY <1>1, <2>2, PrunedSince
    <3> QED
      BY <1>2, <2>1, <3>1, <3>2 DEF Ordered
  <2>4. ASSUME NEW c \in Nat, c >= tick
        PROVE  Agree(c)'
    <3>1. /\ AdmittedSince(c)' = AdmittedSince(c) /\ \A w : AdmittedOf(w, c)' = AdmittedOf(w, c)
          /\ AskedSince(c)' = AskedSince(c) /\ Since(missionCalls, c)' = Since(missionCalls, c)
      BY <1>2, <2>1 DEF AskedSince, AdmittedSince, AdmittedOf, Since
    <3>2. Cardinality(Since(globalCalls, c)') = Cardinality(Since(globalCalls, c))
      <4>1. Since(globalCalls, c)' = Since(pruneCalls(globalCalls), c)
        BY <2>1 DEF Since
      <4> QED
        BY <1>1, <2>4, <4>1, PrunedSince
    <3>3. \A w \in Tenants : Cardinality(Since(userCalls[w], c)') = Cardinality(Since(userCalls[w], c))
      <4>1. \A w \in Tenants : Since(userCalls[w], c)' = Since(userCalls'[w], c)
        BY DEF Since
      <4>2. \A w \in Tenants : Cardinality(Since(userCalls'[w], c)) = Cardinality(Since(userCalls[w], c))
        BY <1>1, <2>2, <2>4, PrunedSince
      <4> QED
        BY <4>1, <4>2
    <3> QED
      BY <1>1, <2>4, <3>1, <3>2, <3>3 DEF Agree
  <2> QED
    BY <1>1, <1>2, <1>3, <2>1, <2>2, <2>3, <2>4, HistoryTyped DEF LimitsInv, Agree, Ordered, Since
<1> QED
  BY <1>5, <1>6

LEMMA EvaluateStep ==
  ASSUME LimitsInv, NEW v, NEW l, Evaluate(v, l)
  PROVE  LimitsInv'
<1>1. /\ tick \in Nat /\ Ordered(globalCalls) /\ Ordered(missionCalls)
      /\ userCalls \in [Tenants -> Seq(Nat)] /\ \A w \in Tenants : Ordered(userCalls[w])
      /\ \A c \in Nat : c >= tick => Agree(c)
      /\ ruling.ok = ruling.room
  BY DEF LimitsInv, Agree
<1>2. /\ tick' = tick /\ globalCalls' = globalCalls /\ userCalls' = userCalls
      /\ admitted' = admitted /\ ruling' = ruling
      /\ missionCalls' = Append(pruneCalls(missionCalls), tick)
      /\ Len(pruneCalls(missionCalls)) < MaxCallsPerMissionPerHour
  BY DEF Evaluate
<1>3. asked' = asked \/ asked' = Append(asked, [at |-> tick])
  BY DEF Evaluate
<1>4. /\ Ordered(missionCalls)'
      /\ \A c \in Nat : c >= tick =>
           Cardinality(Since(missionCalls, c)')
           = Cardinality(Since(missionCalls, c)) + IF tick + Hour >= c THEN 1 ELSE 0
      /\ Cardinality(Since(missionCalls, tick)') = Len(pruneCalls(missionCalls)) + 1
  <2>1. PICK new : new = Append(pruneCalls(missionCalls), tick)
    OBVIOUS
  <2>2. /\ Ordered(new)
        /\ \A c \in Nat : c >= tick =>
             Cardinality(Since(new, c))
             = Cardinality(Since(missionCalls, c)) + IF tick + Hour >= c THEN 1 ELSE 0
        /\ Cardinality(Since(new, tick)) = Len(pruneCalls(missionCalls)) + 1
    BY <1>1, <2>1, PrunedAndBooked
  <2>3. missionCalls' = new
    BY <1>2, <2>1
  <2>4. Ordered(missionCalls)'
    BY <1>2, <2>2, <2>3 DEF Ordered
  <2>5. Since(missionCalls, tick)' = Since(new, tick)
    BY <1>2, <2>3 DEF Since
  <2>6. \A c \in Nat : Since(missionCalls, c)' = Since(new, c)
    BY <2>3 DEF Since
  <2> QED
    BY <2>2, <2>4, <2>5, <2>6
<1>5. /\ asked' \in Seq([at : Nat])
      /\ \A c \in Nat : Cardinality(AskedSince(c)') <= Cardinality(AskedSince(c)) + IF tick + Hour >= c THEN 1 ELSE 0
  <2>1. CASE asked' = asked
    <3>1. asked' \in Seq([at : Nat])
      BY <2>1, HistoryTyped
    <3>2. \A c \in Nat : AskedSince(c)' = AskedSince(c)
      BY <2>1 DEF AskedSince
    <3>3. \A c \in Nat : Cardinality(AskedSince(c)) \in Nat
      BY HistoryFinite
    <3> QED
      BY <3>1, <3>2, <3>3, SMTT(60)
  <2>2. CASE asked' = Append(asked, [at |-> tick])
    <3>1. /\ asked' \in Seq([at : Nat])
          /\ \A c \in Nat : Cardinality(AskedSince(c)')
                            = Cardinality(AskedSince(c)) + IF tick + Hour >= c THEN 1 ELSE 0
      BY <2>2, AskedGrows
    <3>2. \A c \in Nat : Cardinality(AskedSince(c)) \in Nat
      BY HistoryFinite
    <3> QED
      BY <3>1, <3>2, SMTT(60)
  <2> QED
    BY <1>3, <2>1, <2>2
<1>6. ASSUME NEW c \in Nat, c >= tick
      PROVE  Agree(c)'
  <2>1. /\ AdmittedSince(c)' = AdmittedSince(c) /\ \A w : AdmittedOf(w, c)' = AdmittedOf(w, c)
        /\ Since(globalCalls, c)' = Since(globalCalls, c)
        /\ \A w : Since(userCalls[w], c)' = Since(userCalls[w], c)
    BY <1>2 DEF AdmittedSince, AdmittedOf, Since
  <2>2. Cardinality(AskedSince(c)') <= Cardinality(Since(missionCalls, c)')
    <3>1. \A x, y, z \in Nat : x <= y /\ z <= x + (IF tick + Hour >= c THEN 1 ELSE 0)
                                 => z <= y + (IF tick + Hour >= c THEN 1 ELSE 0)
      OBVIOUS
    <3>2. IsFiniteSet(AskedSince(c)') /\ Cardinality(AskedSince(c)') \in Nat
      <4>1. PICK n : n = Len(asked')
        OBVIOUS
      <4>2. n \in Nat
        BY <1>5, <4>1
      <4>3. AskedSince(c)' \in SUBSET (1..n) /\ IsFiniteSet(1..n)
        BY <4>1, <4>2, FS_Interval DEF AskedSince
      <4> QED
        BY <4>3, FS_Subset, FS_CardinalityType
    <3>3. Cardinality(AskedSince(c)) \in Nat /\ Cardinality(Since(missionCalls, c)) \in Nat
      BY <1>1, HistoryFinite, SinceFinite DEF Ordered
    <3>4. Cardinality(AskedSince(c)) <= Cardinality(Since(missionCalls, c))
      BY <1>1, <1>6 DEF Agree
    <3> QED
      BY <1>4, <1>5, <1>6, <3>1, <3>2, <3>3, <3>4
  <2> QED
    BY <1>1, <1>6, <2>1, <2>2 DEF Agree
<1>7. Cardinality(Since(missionCalls, tick)') <= MaxCallsPerMissionPerHour
  <2>1. Len(pruneCalls(missionCalls)) \in Nat
    BY <1>1, PrunedSince DEF Ordered
  <2> QED
    BY <1>2, <1>4, <2>1, LimitsNat
<1> QED
  BY <1>1, <1>2, <1>4, <1>5, <1>6, <1>7, HistoryTyped DEF LimitsInv, Agree, Ordered

LEMMA LimitsInvInit == LimitsInit => LimitsInv
<1> SUFFICES ASSUME LimitsInit PROVE LimitsInv
  OBVIOUS
<1>1. /\ tick = 0 /\ globalCalls = <<>> /\ missionCalls = <<>> /\ userCalls = [u \in Tenants |-> <<>>]
      /\ admitted = <<>> /\ asked = <<>> /\ ruling = NoRuling
  BY DEF LimitsInit
<1>2. Len(<<>>) = 0 /\ 1..0 = {} /\ (\A S : <<>> \in Seq(S)) /\ Cardinality({}) = 0 /\ tick \in Nat
  BY <1>1, FS_EmptySet
<1>3. Ordered(<<>>) /\ \A c : Since(<<>>, c) = {}
  BY <1>2 DEF Ordered, Since
<1>4. \A c : AdmittedSince(c) = {} /\ (\A u : AdmittedOf(u, c) = {}) /\ AskedSince(c) = {}
  BY <1>1, <1>2 DEF AdmittedSince, AdmittedOf, AskedSince
<1>5. \A u \in Tenants : userCalls[u] = <<>>
  BY <1>1
<1>6. userCalls \in [Tenants -> Seq(Nat)]
  BY <1>1, <1>2
<1>7. ruling.ok = ruling.room
  BY <1>1 DEF NoRuling
<1>8. /\ admitted \in Seq([who : Tenants \cup {NoUser}, at : Nat]) /\ asked \in Seq([at : Nat])
  BY <1>1, <1>2
<1>9. \A c \in Nat : c >= tick => Agree(c)
  <2>1. 0 <= 0
    OBVIOUS
  <2>2. ASSUME NEW c \in Nat
        PROVE  /\ Since(globalCalls, c) = {} /\ Since(missionCalls, c) = {}
               /\ \A u \in Tenants : Since(userCalls[u], c) = {}
    BY <1>1, <1>3, <1>5, Zenon
  <2> QED
    BY <1>2, <1>4, <2>1, <2>2, Zenon DEF Agree
<1>10. Cardinality(Since(missionCalls, tick)) <= MaxCallsPerMissionPerHour
  <2>1. Cardinality(Since(missionCalls, tick)) = 0
    BY <1>1, <1>2, <1>3, Zenon
  <2>2. \A n \in Nat : 0 <= n
    OBVIOUS
  <2> QED
    BY <2>1, <2>2, LimitsNat, Zenon
<1> QED
  BY <1>1, <1>2, <1>3, <1>5, <1>6, <1>7, <1>8, <1>9, <1>10 DEF LimitsInv, Agree

LEMMA LimitsInvStep == LimitsInv /\ [LimitsNext]_limitVars => LimitsInv'
<1> SUFFICES ASSUME LimitsInv, [LimitsNext]_limitVars PROVE LimitsInv'
  OBVIOUS
<1>1. ASSUME NEW u \in Tenants \cup {NoUser}, Allow(u) PROVE LimitsInv'
  BY <1>1, AllowStep
<1>2. ASSUME NEW v \in Evaluators, NEW l \in Listings, Evaluate(v, l) PROVE LimitsInv'
  BY <1>2, EvaluateStep
<1>3. ASSUME /\ tick' = tick /\ globalCalls' = globalCalls /\ userCalls' = userCalls
             /\ admitted' = admitted /\ ruling' = ruling /\ missionCalls' = missionCalls /\ asked' = asked
      PROVE  LimitsInv'
  <2>1. \A c : /\ AdmittedSince(c)' = AdmittedSince(c) /\ AskedSince(c)' = AskedSince(c)
               /\ \A u : AdmittedOf(u, c)' = AdmittedOf(u, c)
    BY <1>3 DEF AdmittedSince, AdmittedOf, AskedSince
  <2>2. /\ \A c : Since(globalCalls, c)' = Since(globalCalls, c)
        /\ \A c : Since(missionCalls, c)' = Since(missionCalls, c)
        /\ \A u, c : Since(userCalls[u], c)' = Since(userCalls[u], c)
    BY <1>3 DEF Since
  <2>3. Since(missionCalls, tick)' = Since(missionCalls, tick)
    BY <1>3 DEF Since
  <2>4. /\ Ordered(globalCalls) /\ Ordered(missionCalls) /\ \A u \in Tenants : Ordered(userCalls[u])
        /\ \A c \in Nat : c >= tick => Agree(c)
    BY DEF LimitsInv, Agree
  <2>5. Ordered(globalCalls)' /\ Ordered(missionCalls)' /\ \A u \in Tenants : Ordered(userCalls[u])'
    BY <1>3, <2>4 DEF Ordered
  <2>6. \A c \in Nat : c >= tick' => Agree(c)'
    BY <1>3, <2>1, <2>2, <2>4 DEF Agree
  <2> QED
    BY <1>3, <2>3, <2>5, <2>6 DEF LimitsInv, Agree
<1>4. CASE Tick
  <2>1. /\ tick \in Nat /\ Ordered(globalCalls) /\ Ordered(missionCalls)
        /\ userCalls \in [Tenants -> Seq(Nat)] /\ \A w \in Tenants : Ordered(userCalls[w])
        /\ \A c \in Nat : c >= tick => Agree(c)
        /\ Cardinality(Since(missionCalls, tick)) <= MaxCallsPerMissionPerHour
        /\ ruling.ok = ruling.room
    BY DEF LimitsInv, Agree
  <2>2. /\ tick' = tick + 1 /\ tick' \in Nat /\ globalCalls' = globalCalls /\ userCalls' = userCalls
        /\ admitted' = admitted /\ ruling' = ruling /\ missionCalls' = missionCalls /\ asked' = asked
    BY <1>4, <2>1 DEF Tick
  <2>3. Ordered(globalCalls)' /\ Ordered(missionCalls)' /\ \A w \in Tenants : Ordered(userCalls[w])'
    <3>1. \A x, t \in Nat : x <= t => x <= t + 1
      OBVIOUS
    <3>2. ASSUME NEW calls, Ordered(calls)
          PROVE  \A i \in 1..Len(calls) : calls[i] <= tick + 1
      <4>1. \A i \in 1..Len(calls) : calls[i] \in Nat /\ calls[i] <= tick
        BY <3>2 DEF Ordered
      <4> QED
        BY <2>1, <3>1, <4>1
    <3> QED
      BY <2>1, <2>2, <3>2 DEF Ordered
  <2>4. \A c \in Nat : c >= tick' => Agree(c)'
    <3>1. \A c \in Nat : Agree(c)' <=> Agree(c)
      BY <2>2 DEF Agree, Since, AdmittedSince, AdmittedOf, AskedSince
    <3>2. \A c \in Nat : c >= tick' => c >= tick
      BY <2>1, <2>2
    <3> QED
      BY <2>1, <3>1, <3>2
  <2>5. Cardinality(Since(missionCalls, tick)') <= MaxCallsPerMissionPerHour
    <3>1. Since(missionCalls, tick)' \subseteq Since(missionCalls, tick)
      <4>1. \A i \in 1..Len(missionCalls) : missionCalls[i] \in Nat
        BY <2>1 DEF Ordered
      <4> QED
        BY <2>1, <2>2, <4>1, LimitsNat DEF Since
    <3>2. IsFiniteSet(Since(missionCalls, tick)) /\ Cardinality(Since(missionCalls, tick)) \in Nat
      BY <2>1, SinceFinite DEF Ordered
    <3>3. \A S, T : IsFiniteSet(S) /\ T \subseteq S => Cardinality(T) \in Nat /\ Cardinality(T) <= Cardinality(S)
      BY FS_Subset, FS_CardinalityType
    <3>4. \A x, y, z \in Nat : x <= y /\ y <= z => x <= z
      OBVIOUS
    <3> QED
      BY <2>1, <3>1, <3>2, <3>3, <3>4, LimitsNat
  <2> QED
    BY <2>1, <2>2, <2>3, <2>4, <2>5, HistoryTyped DEF LimitsInv, Agree
<1>5. ASSUME NEW v \in Evaluators, callLLM(v) PROVE LimitsInv'
  BY <1>3, <1>5 DEF callLLM
<1>6. CASE UNCHANGED limitVars
  BY <1>3, <1>6 DEF limitVars
<1> QED
  BY <1>1, <1>2, <1>4, <1>5, <1>6 DEF LimitsNext

\* LimitsExact: whatever was pruned when, the hourly windows let a call through
\* exactly when the history of the last hour has room for it, and no hour sees
\* more must-have calls of a mission than allowed.
THEOREM LimitsAreExact == LimitsSpec => []LimitsExact
<1>1. LimitsInv => LimitsExact
  <2> SUFFICES ASSUME LimitsInv PROVE LimitsExact
    OBVIOUS
  <2>1. Recently(asked) = AskedSince(tick)
    BY DEF Recently, AskedSince
  <2>2. /\ tick \in Nat /\ tick >= tick /\ Ordered(missionCalls) /\ ruling.ok = ruling.room
        /\ Cardinality(AskedSince(tick)) <= Cardinality(Since(missionCalls, tick))
        /\ Cardinality(Since(missionCalls, tick)) <= MaxCallsPerMissionPerHour
    BY DEF LimitsInv
  <2>3. Cardinality(AskedSince(tick)) \in Nat /\ Cardinality(Since(missionCalls, tick)) \in Nat
    BY <2>2, HistoryFinite, SinceFinite DEF Ordered
  <2>4. \A x, y, z \in Nat : x <= y /\ y <= z => x <= z
    OBVIOUS
  <2> QED
    BY <2>1, <2>2, <2>3, <2>4, LimitsNat DEF LimitsExact
<1> QED
  BY <1>1, LimitsInvInit, LimitsInvStep, PTL DEF LimitsSpec

-----------------------------------------------------------------------------
(* The daily breaker of AnonymousAnalyze.                                   *)

Stages == {"limit", "cache", "charge", "refuse", "notify", "fetch", "score", "put"}
VisitRow == [at : Stages, address : Addresses, link : Links, start : Nat]

BreakerTyped ==
  /\ moment \in Nat
  /\ ledger \in [day : Nat, spent : Nat, notified : BOOLEAN]
  /\ visit \in [Visits -> VisitRow \cup {Away}]
  /\ paid \in Nat /\ overrun \in Nat /\ alerts \in Nat
  /\ straddled \in BOOLEAN

\* The estimates that these requests hold.
Reserved(some) == Estimate * Cardinality(some)

\* Requests whose estimate the ceiling admitted.
Admitted == {v \in Visits : visit[v].at \in {"fetch", "score"}}

\* The books of a day no request was carried into or out of.
DayBooks ==
  /\ \A v \in InTheLedger : DayOf(visit[v].start) = DayOf(moment)
  /\ Open # {} => ledger.day = DayOf(moment)
  /\ ledger.spent = paid + Reserved(Open)
  /\ paid + Reserved(Admitted) <= Ceiling + overrun

AlertBooks == alerts = IF ledger.notified THEN 1 ELSE 0

BreakerInv == BreakerTyped /\ AlertBooks /\ (~straddled => DayBooks)

-----------------------------------------------------------------------------
(* Days, estimates and the requests that hold them.                         *)

LEMMA DayOfNat == ASSUME NEW t \in Nat PROVE DayOf(t) \in Nat
BY AnonymousAssumption DEF DayOf

LEMMA ReservedSteps ==
  ASSUME NEW some \in SUBSET Visits, NEW v \in Visits
  PROVE  /\ Reserved(some) \in Nat
         /\ v \notin some => Reserved(some \cup {v}) = Reserved(some) + Estimate
         /\ v \in some => Reserved(some) = Reserved(some \ {v}) + Estimate
<1>0. Estimate \in Nat
  BY AnonymousAssumption
<1>1. IsFiniteSet(some)
  BY AnonymousAssumption, FS_Subset
<1>2. Cardinality(some) \in Nat
  BY <1>1, FS_CardinalityType
<1>3. ASSUME NEW n \in Nat PROVE Estimate * (n + 1) = Estimate * n + Estimate /\ Estimate * n \in Nat
  BY <1>0
<1>4. CASE v \notin some
  <2>1. Cardinality(some \cup {v}) = Cardinality(some) + 1
    BY <1>1, <1>4, FS_AddElement
  <2> QED
    BY <1>2, <1>3, <1>4, <2>1 DEF Reserved
<1>5. CASE v \in some
  <2>1. Cardinality(some \ {v}) = Cardinality(some) - 1 /\ IsFiniteSet(some \ {v})
    BY <1>1, <1>5, FS_RemoveElement
  <2>2. Cardinality(some \ {v}) \in Nat
    BY <2>1, FS_CardinalityType
  <2>3. Cardinality(some) = Cardinality(some \ {v}) + 1
    BY <1>2, <2>1
  <2> QED
    BY <1>2, <1>3, <1>5, <2>2, <2>3 DEF Reserved
<1> QED
  BY <1>4, <1>5

LEMMA ReservedNone == Reserved({}) = 0
<1>1. Cardinality({}) = 0
  BY FS_EmptySet
<1> QED
  BY <1>1, AnonymousAssumption DEF Reserved

\* One request moves to another stage.
LEMMA StageMoved ==
  ASSUME BreakerTyped, NEW v \in Visits, NEW at \in Stages, visit[v] # Away, At(v, at)
  PROVE  /\ visit' \in [Visits -> VisitRow \cup {Away}]
         /\ \A w \in Visits \ {v} : visit'[w] = visit[w]
         /\ visit'[v].at = at /\ visit'[v].start = visit[v].start /\ visit'[v] # Away
<1>1. visit[v] \in VisitRow
  BY DEF BreakerTyped
<1>2. [visit[v] EXCEPT !.at = at] \in VisitRow
  BY <1>1 DEF VisitRow
<1>3. visit' = [visit EXCEPT ![v] = [visit[v] EXCEPT !.at = at]]
  BY DEF At
<1>4. [visit[v] EXCEPT !.at = at].at = at /\ [visit[v] EXCEPT !.at = at].start = visit[v].start
  BY <1>1 DEF VisitRow
<1>5. at # "away"
  BY DEF Stages
<1> DEFINE row == [visit[v] EXCEPT !.at = at]
<1> HIDE DEF row
<1>6. visit' = [visit EXCEPT ![v] = row] /\ row \in VisitRow /\ row.at = at /\ row.start = visit[v].start
  BY <1>2, <1>3, <1>4 DEF row
<1> QED
  BY <1>5, <1>6 DEF BreakerTyped, Away

LEMMA StageLeft ==
  ASSUME BreakerTyped, NEW v \in Visits, Leaves(v)
  PROVE  /\ visit' \in [Visits -> VisitRow \cup {Away}]
         /\ \A w \in Visits \ {v} : visit'[w] = visit[w]
         /\ visit'[v] = Away /\ visit'[v].at = "away"
BY DEF Leaves, BreakerTyped, Away

LEMMA AwayAt ==
  ASSUME BreakerTyped, NEW v \in Visits
  PROVE  /\ visit[v] = Away <=> visit[v].at = "away"
         /\ visit[v] # Away => visit[v] \in VisitRow /\ visit[v].start \in Nat
<1>1. visit[v] \in VisitRow \/ visit[v] = Away
  BY DEF BreakerTyped
<1> QED
  BY <1>1 DEF VisitRow, Away, Stages

\* What a request's move does to the sets.
LEMMA SetsMoved ==
  ASSUME NEW v \in Visits, \A w \in Visits \ {v} : visit'[w] = visit[w]
  PROVE  /\ Open' = IF visit'[v].at \in {"refuse", "fetch", "score"} THEN Open \cup {v} ELSE Open \ {v}
         /\ Admitted' = IF visit'[v].at \in {"fetch", "score"} THEN Admitted \cup {v} ELSE Admitted \ {v}
         /\ InTheLedger' \subseteq InTheLedger \cup {v}
         /\ visit'[v] = Away \/ visit'[v].at = "put" => InTheLedger' \subseteq InTheLedger \ {v}
BY DEF Open, Admitted, InTheLedger

\* What the ledger is after one of its operations.
LEMMA LedgerTyped ==
  ASSUME BreakerTyped, NEW t \in Nat, NEW delta \in Nat
  PROVE  /\ Rolled(t) \in [day : Nat, spent : Nat, notified : BOOLEAN]
         /\ addAndProject(delta, t) \in [day : Nat, spent : Nat, notified : BOOLEAN]
         /\ markBreakerNotified(t) \in [day : Nat, spent : Nat, notified : BOOLEAN]
         /\ rollback(delta) \in [day : Nat, spent : Nat, notified : BOOLEAN]
         /\ Rolled(t).day = DayOf(t)
         /\ ledger.day = DayOf(t) => Rolled(t) = ledger
         /\ ledger.day # DayOf(t) => Rolled(t).spent = 0 /\ Rolled(t).notified = FALSE
         /\ addAndProject(delta, t).day = DayOf(t)
         /\ addAndProject(delta, t).spent = Rolled(t).spent + delta
         /\ addAndProject(delta, t).notified = Rolled(t).notified
         /\ markBreakerNotified(t).day = DayOf(t)
         /\ markBreakerNotified(t).spent = Rolled(t).spent
         /\ markBreakerNotified(t).notified = TRUE
         /\ rollback(delta).day = ledger.day /\ rollback(delta).notified = ledger.notified
         /\ rollback(delta).spent = IF ledger.spent < delta THEN 0 ELSE ledger.spent - delta
<1>1. ledger \in [day : Nat, spent : Nat, notified : BOOLEAN]
  BY DEF BreakerTyped
<1>2. /\ Rolled(t) \in [day : Nat, spent : Nat, notified : BOOLEAN]
      /\ Rolled(t).day = DayOf(t)
      /\ ledger.day = DayOf(t) => Rolled(t) = ledger
      /\ ledger.day # DayOf(t) => Rolled(t).spent = 0 /\ Rolled(t).notified = FALSE
  BY <1>1, DayOfNat DEF Rolled
<1> DEFINE rolled == Rolled(t)
<1>3. /\ addAndProject(delta, t) = [rolled EXCEPT !.spent = rolled.spent + delta]
      /\ markBreakerNotified(t) = [rolled EXCEPT !.notified = TRUE]
  BY DEF addAndProject, markBreakerNotified
<1>4. /\ rolled \in [day : Nat, spent : Nat, notified : BOOLEAN]
      /\ rolled.day = DayOf(t)
  BY <1>2
<1> HIDE DEF rolled
<1> DEFINE sum == rolled.spent + delta
<1>5. sum \in Nat
  BY <1>4
<1> HIDE DEF sum
<1>6. /\ [rolled EXCEPT !.spent = sum] \in [day : Nat, spent : Nat, notified : BOOLEAN]
      /\ [rolled EXCEPT !.spent = sum].day = DayOf(t)
      /\ [rolled EXCEPT !.spent = sum].spent = sum
      /\ [rolled EXCEPT !.spent = sum].notified = rolled.notified
  BY <1>4, <1>5
<1>7. /\ [rolled EXCEPT !.notified = TRUE] \in [day : Nat, spent : Nat, notified : BOOLEAN]
      /\ [rolled EXCEPT !.notified = TRUE].day = DayOf(t)
      /\ [rolled EXCEPT !.notified = TRUE].spent = rolled.spent
      /\ [rolled EXCEPT !.notified = TRUE].notified = TRUE
  BY <1>4
<1>8. /\ rollback(delta) \in [day : Nat, spent : Nat, notified : BOOLEAN]
      /\ rollback(delta).day = ledger.day /\ rollback(delta).notified = ledger.notified
      /\ rollback(delta).spent = IF ledger.spent < delta THEN 0 ELSE ledger.spent - delta
  BY <1>1 DEF rollback
<1> QED
  BY <1>2, <1>3, <1>6, <1>7, <1>8 DEF rolled, sum

\* A request that touches no money: it starts, waits or leaves.
LEMMA QuietMove ==
  ASSUME BreakerInv, NEW v \in Visits,
         visit' \in [Visits -> VisitRow \cup {Away}], \A w \in Visits \ {v} : visit'[w] = visit[w],
         UNCHANGED <<moment, ledger, paid, overrun, straddled, alerts>>,
         visit[v].at \in {"refuse", "fetch", "score"} <=> visit'[v].at \in {"refuse", "fetch", "score"},
         visit[v].at \in {"fetch", "score"} <=> visit'[v].at \in {"fetch", "score"},
         v \in InTheLedger \/ v \notin InTheLedger' \/ visit'[v].start = moment,
         visit'[v].start = visit[v].start \/ visit'[v].start = moment \/ v \notin InTheLedger'
  PROVE  BreakerInv'
<1>1. Open' = Open /\ Admitted' = Admitted
  BY DEF Open, Admitted
<1>2. BreakerTyped' /\ AlertBooks'
  BY DEF BreakerInv, BreakerTyped, AlertBooks
<1>3. ASSUME ~straddled PROVE \A w \in InTheLedger' : DayOf(visit'[w].start) = DayOf(moment)
  <2> SUFFICES ASSUME NEW w \in InTheLedger' PROVE DayOf(visit'[w].start) = DayOf(moment)
    OBVIOUS
  <2>1. CASE w = v
    BY <1>3, <2>1 DEF BreakerInv, DayBooks, InTheLedger
  <2>2. CASE w # v
    BY <1>3, <2>2 DEF BreakerInv, DayBooks, InTheLedger
  <2> QED
    BY <2>1, <2>2
<1>4. ASSUME ~straddled PROVE DayBooks'
  BY <1>1, <1>3, <1>4 DEF BreakerInv, DayBooks, Reserved
<1> QED
  BY <1>2, <1>4 DEF BreakerInv

LEMMA InitHonest == AnonymousInit => BreakerInv
<1> SUFFICES ASSUME AnonymousInit PROVE BreakerInv
  OBVIOUS
<1>1. BreakerTyped
  BY DEF AnonymousInit, BreakerTyped
<1>2. AlertBooks
  BY DEF AnonymousInit, AlertBooks
<1>3. Open = {} /\ Admitted = {} /\ InTheLedger = {}
  BY DEF AnonymousInit, Open, Admitted, InTheLedger, Away
<1>4. DayBooks
  BY <1>3, ReservedNone, AnonymousAssumption DEF AnonymousInit, DayBooks
<1> QED
  BY <1>1, <1>2, <1>4 DEF BreakerInv

-----------------------------------------------------------------------------
(* The steps of a request.                                                  *)

LEMMA QuietSteps ==
  ASSUME BreakerInv, NEW v \in Visits,
         \/ \E a \in Addresses, l \in Links : handleAnonymousAnalyze(v, a, l)
         \/ AllowAddress(v) \/ GetCached(v) \/ PutCached(v)
  PROVE  BreakerInv'
<1>0. BreakerTyped
  BY DEF BreakerInv
<1>1. ASSUME NEW a \in Addresses, NEW l \in Links, handleAnonymousAnalyze(v, a, l) PROVE BreakerInv'
  <2> DEFINE row == [at |-> "limit", address |-> a, link |-> l, start |-> moment]
  <2>1. row \in VisitRow /\ row.at = "limit" /\ row.start = moment
    BY <1>0 DEF VisitRow, Stages, BreakerTyped
  <2>2. visit' = [visit EXCEPT ![v] = row] /\ visit[v].at = "away"
    BY <1>1 DEF handleAnonymousAnalyze, Away
  <2> HIDE DEF row
  <2>3. /\ visit' \in [Visits -> VisitRow \cup {Away}]
        /\ \A w \in Visits \ {v} : visit'[w] = visit[w]
        /\ visit'[v].at = "limit" /\ visit'[v].start = moment
    BY <1>0, <2>1, <2>2 DEF BreakerTyped
  <2>4. UNCHANGED <<moment, ledger, paid, overrun, straddled, alerts>>
    BY <1>1 DEF handleAnonymousAnalyze
  <2> QED
    BY <2>2, <2>3, <2>4, QuietMove
<1>2. ASSUME visit[v].at \in {"limit", "cache", "put"}, Leaves(v),
             UNCHANGED <<moment, ledger, paid, overrun, straddled, alerts>>
      PROVE  BreakerInv'
  <2>1. visit'[v].at = "away" /\ v \notin InTheLedger'
    BY <1>0, <1>2, StageLeft DEF InTheLedger
  <2> QED
    BY <1>0, <1>2, <2>1, StageLeft, QuietMove
<1>3. ASSUME NEW at \in {"cache", "charge"}, visit[v].at \in {"limit", "cache"}, At(v, at),
             UNCHANGED <<moment, ledger, paid, overrun, straddled, alerts>>
      PROVE  BreakerInv'
  <2>1. visit[v] # Away /\ at \in Stages
    BY <1>3 DEF Away, Stages
  <2>2. v \in InTheLedger
    BY <1>3, <2>1 DEF InTheLedger
  <2> QED
    BY <1>0, <1>3, <2>1, <2>2, StageMoved, QuietMove
<1>4. CASE AllowAddress(v)
  <2>1. Leaves(v) \/ At(v, "cache")
    BY <1>4 DEF AllowAddress
  <2>2. visit[v].at = "limit" /\ UNCHANGED <<moment, ledger, paid, overrun, straddled, alerts>>
    BY <1>4 DEF AllowAddress
  <2> QED
    BY <1>2, <1>3, <2>1, <2>2
<1>5. CASE GetCached(v)
  <2>1. Leaves(v) \/ At(v, "charge")
    BY <1>5 DEF GetCached
  <2>2. visit[v].at = "cache" /\ UNCHANGED <<moment, ledger, paid, overrun, straddled, alerts>>
    BY <1>5 DEF GetCached
  <2> QED
    BY <1>2, <1>3, <2>1, <2>2
<1>6. CASE PutCached(v)
  BY <1>2, <1>6 DEF PutCached
<1> QED
  BY <1>1, <1>4, <1>5, <1>6

LEMMA ReservedGrows ==
  ASSUME NEW big \in SUBSET Visits, NEW small \in SUBSET big
  PROVE  Reserved(small) <= Reserved(big)
<1>1. IsFiniteSet(big) /\ IsFiniteSet(small)
  BY AnonymousAssumption, FS_Subset
<1>2. Cardinality(small) <= Cardinality(big) /\ Cardinality(small) \in Nat /\ Cardinality(big) \in Nat
  BY <1>1, FS_Subset, FS_CardinalityType
<1>3. ASSUME NEW m \in Nat, NEW n \in Nat, m <= n PROVE Estimate * m <= Estimate * n
  BY <1>3, AnonymousAssumption
<1> QED
  BY <1>2, <1>3 DEF Reserved

\* The books as a request that is in the ledger finds them on its day: the
\* reset drops everything that belongs to another day, and no estimate.
LEMMA BooksOnDay ==
  ASSUME BreakerInv, NEW v \in InTheLedger
  PROVE  LET t == visit[v].start
         IN /\ t \in Nat
            /\ Kept(t, paid) \in Nat /\ Kept(t, overrun) \in Nat /\ Kept(t, alerts) \in Nat
            /\ Kept(t, alerts) = IF Rolled(t).notified THEN 1 ELSE 0
            /\ ~straddled => /\ DayOf(t) = DayOf(moment)
                             /\ Rolled(t).spent = Kept(t, paid) + Reserved(Open)
                             /\ Kept(t, paid) + Reserved(Admitted) <= Ceiling + Kept(t, overrun)
<1> DEFINE t == visit[v].start
<1>0. BreakerTyped /\ AlertBooks /\ v \in Visits
  BY DEF BreakerInv, InTheLedger
<1>1. t \in Nat
  BY <1>0, AwayAt DEF InTheLedger
<1>2. /\ Kept(t, paid) \in Nat /\ Kept(t, overrun) \in Nat /\ Kept(t, alerts) \in Nat
      /\ Kept(t, alerts) = IF Rolled(t).notified THEN 1 ELSE 0
  <2>1. CASE ledger.day = DayOf(t)
    <3>1. Rolled(t) = ledger
      BY <2>1 DEF Rolled
    <3> QED
      BY <1>0, <2>1, <3>1 DEF Kept, BreakerTyped, AlertBooks
  <2>2. CASE ledger.day # DayOf(t)
    <3>1. Rolled(t).notified = FALSE
      BY <2>2 DEF Rolled
    <3> QED
      BY <2>2, <3>1 DEF Kept
  <2> QED
    BY <2>1, <2>2
<1>3. ASSUME ~straddled
      PROVE  /\ DayOf(t) = DayOf(moment)
             /\ Rolled(t).spent = Kept(t, paid) + Reserved(Open)
             /\ Kept(t, paid) + Reserved(Admitted) <= Ceiling + Kept(t, overrun)
  <2>1. DayBooks
    BY <1>3 DEF BreakerInv
  <2>2. DayOf(t) = DayOf(moment)
    BY <2>1 DEF DayBooks
  <2>3. CASE ledger.day = DayOf(t)
    BY <2>1, <2>2, <2>3 DEF Kept, Rolled, DayBooks
  <2>4. CASE ledger.day # DayOf(t)
    <3>1. Open = {}
      BY <2>1, <2>2, <2>4 DEF DayBooks
    <3>2. Admitted = {}
      BY <3>1 DEF Admitted, Open
    <3>3. Rolled(t).spent = 0 /\ Kept(t, paid) = 0 /\ Kept(t, overrun) = 0
      BY <2>4 DEF Rolled, Kept
    <3> QED
      BY <2>2, <3>1, <3>2, <3>3, ReservedNone, AnonymousAssumption
  <2> QED
    BY <2>3, <2>4
<1> QED
  BY <1>1, <1>2, <1>3

\* A request in the ledger that goes on or leaves stays on its day.
LEMMA MoverOnDay ==
  ASSUME BreakerInv, ~straddled, NEW v \in InTheLedger, \A w \in Visits \ {v} : visit'[w] = visit[w],
         visit'[v] = Away \/ visit'[v].start = visit[v].start, moment' = moment
  PROVE  \A w \in InTheLedger' : DayOf(visit'[w].start) = DayOf(moment')
<1> SUFFICES ASSUME NEW w \in InTheLedger' PROVE DayOf(visit'[w].start) = DayOf(moment)
  OBVIOUS
<1>1. \A u \in InTheLedger : DayOf(visit[u].start) = DayOf(moment)
  BY DEF BreakerInv, DayBooks
<1>2. CASE w = v
  BY <1>1, <1>2 DEF InTheLedger
<1>3. CASE w # v
  BY <1>1, <1>3 DEF InTheLedger
<1> QED
  BY <1>2, <1>3

\* The estimate is booked; past the ceiling it is not admitted.
LEMMA ChargeKept ==
  ASSUME BreakerInv, NEW v \in Visits, Charge(v)
  PROVE  BreakerInv'
<1> DEFINE t == visit[v].start
           p == Kept(t, paid)
           o == Kept(t, overrun)
           s == Rolled(t).spent
<1>0. BreakerTyped /\ visit[v].at = "charge" /\ visit[v] # Away /\ v \in InTheLedger /\ moment' = moment /\ straddled' = straddled
  BY DEF BreakerInv, Charge, Away, InTheLedger
<1>1. CASE Leaves(v) /\ UNCHANGED <<ledger, paid, overrun, alerts>>
  <2>1. visit'[v].at = "away" /\ v \notin InTheLedger'
    BY <1>0, <1>1, StageLeft DEF InTheLedger
  <2> QED
    BY <1>0, <1>1, <2>1, StageLeft, QuietMove
<1>2. CASE /\ ledger' = addAndProject(Estimate, t)
           /\ paid' = Kept(t, paid) /\ overrun' = Kept(t, overrun) /\ alerts' = Kept(t, alerts)
           /\ At(v, IF ledger'.spent > Ceiling THEN "refuse" ELSE "fetch")
  <2>1. /\ t \in Nat /\ p \in Nat /\ o \in Nat /\ Kept(t, alerts) \in Nat
        /\ Kept(t, alerts) = IF Rolled(t).notified THEN 1 ELSE 0
        /\ ~straddled => /\ DayOf(t) = DayOf(moment)
                         /\ s = p + Reserved(Open)
                         /\ p + Reserved(Admitted) <= Ceiling + o
    BY <1>0, BooksOnDay
  <2>2. /\ ledger' \in [day : Nat, spent : Nat, notified : BOOLEAN]
        /\ ledger'.day = DayOf(t) /\ ledger'.spent = s + Estimate /\ ledger'.notified = Rolled(t).notified
    BY <1>0, <1>2, <2>1, LedgerTyped, AnonymousAssumption, ZenonT(60)
  <2> DEFINE at == IF ledger'.spent > Ceiling THEN "refuse" ELSE "fetch"
  <2>3. at \in Stages /\ at \in {"refuse", "fetch"} /\ (at = "fetch" <=> ~(ledger'.spent > Ceiling))
    BY DEF Stages
  <2>4. At(v, at)
    BY <1>2
  <2> HIDE DEF at
  <2>5. /\ visit' \in [Visits -> VisitRow \cup {Away}]
        /\ \A w \in Visits \ {v} : visit'[w] = visit[w]
        /\ visit'[v].at = at /\ visit'[v].start = visit[v].start
    BY <1>0, <2>3, <2>4, StageMoved
  <2>6. Open' = Open \cup {v} /\ Admitted' = IF at = "fetch" THEN Admitted \cup {v} ELSE Admitted \ {v}
    BY <2>3, <2>5, SetsMoved
  <2>7. v \notin Open /\ v \notin Admitted /\ Open \in SUBSET Visits /\ Admitted \in SUBSET Open
    BY <1>0 DEF Open, Admitted
  <2>8. BreakerTyped' /\ AlertBooks'
    BY <1>0, <1>2, <2>1, <2>2, <2>5 DEF BreakerTyped, AlertBooks
  <2>9. ASSUME ~straddled PROVE DayBooks'
    <3>1. Reserved(Open)' = Reserved(Open) + Estimate /\ Reserved(Open) \in Nat /\ Estimate \in Nat /\ Ceiling \in Nat
      BY <2>6, <2>7, ReservedSteps, AnonymousAssumption DEF Reserved
    <3>2. ledger'.spent = paid' + Reserved(Open)'
      BY <1>2, <2>1, <2>2, <2>9, <3>1
    <3>3. paid' + Reserved(Admitted)' <= Ceiling + overrun'
      <4>1. CASE at = "fetch"
        <5>1. Reserved(Admitted \cup {v}) <= Reserved(Open \cup {v}) /\ Reserved(Admitted \cup {v}) \in Nat
          BY <2>7, ReservedGrows, ReservedSteps
        <5>2. Reserved(Admitted)' <= Reserved(Open)' /\ Reserved(Admitted)' \in Nat
          BY <2>6, <4>1, <5>1 DEF Reserved
        <5>3. ledger'.spent <= Ceiling
          BY <2>2, <2>3, <4>1, <3>1
        <5> QED
          BY <1>2, <2>1, <3>1, <3>2, <5>2, <5>3
      <4>2. CASE at # "fetch"
        <5>1. Admitted' = Admitted
          BY <2>6, <2>7, <4>2
        <5> QED
          BY <1>2, <2>1, <2>9, <5>1 DEF Reserved
      <4> QED
        BY <4>1, <4>2
    <3>4. \A w \in InTheLedger' : DayOf(visit'[w].start) = DayOf(moment')
      BY <1>0, <2>5, <2>9, MoverOnDay
    <3> QED
      BY <1>0, <2>1, <2>2, <2>9, <3>2, <3>3, <3>4 DEF DayBooks
  <2> QED
    BY <1>0, <2>8, <2>9 DEF BreakerInv
<1> QED
  BY <1>1, <1>2 DEF Charge

\* An estimate is given back: by a refusal, or when nothing could be fetched.
LEMMA GivenBack ==
  ASSUME BreakerInv, NEW v \in Open, ledger' = rollback(Estimate),
         UNCHANGED <<moment, paid, overrun, straddled, alerts>>,
         visit' \in [Visits -> VisitRow \cup {Away}], \A w \in Visits \ {v} : visit'[w] = visit[w],
         visit'[v].at \notin {"refuse", "fetch", "score"},
         visit'[v] = Away \/ visit'[v].start = visit[v].start
  PROVE  BreakerInv'
<1>0. BreakerTyped /\ v \in Visits /\ v \in InTheLedger /\ Estimate \in Nat /\ moment \in Nat
  BY AnonymousAssumption DEF BreakerInv, BreakerTyped, Open, InTheLedger, Away
<1>1. /\ ledger' \in [day : Nat, spent : Nat, notified : BOOLEAN]
      /\ ledger'.day = ledger.day /\ ledger'.notified = ledger.notified
      /\ ledger'.spent = IF ledger.spent < Estimate THEN 0 ELSE ledger.spent - Estimate
  BY <1>0, LedgerTyped, ZenonT(60)
<1>2. Open' = Open \ {v} /\ Admitted' = Admitted \ {v}
  BY <1>0, SetsMoved
<1>3. BreakerTyped' /\ AlertBooks'
  BY <1>0, <1>1 DEF BreakerInv, BreakerTyped, AlertBooks
<1>4. ASSUME ~straddled PROVE DayBooks'
  <2>1. DayBooks
    BY <1>4 DEF BreakerInv
  <2>2. Reserved(Open) = Reserved(Open)' + Estimate /\ Reserved(Open)' \in Nat
    <3>1. Open \in SUBSET Visits /\ Open \ {v} \in SUBSET Visits
      BY DEF Open
    <3> QED
      BY <1>0, <1>2, <3>1, ReservedSteps DEF Reserved
  <2>3. Reserved(Admitted)' <= Reserved(Admitted) /\ Reserved(Admitted)' \in Nat /\ Reserved(Admitted) \in Nat
    <3>1. Admitted \in SUBSET Visits /\ Admitted \ {v} \in SUBSET Admitted /\ Admitted \ {v} \in SUBSET Visits
      BY DEF Admitted
    <3> QED
      BY <1>0, <1>2, <3>1, ReservedSteps, ReservedGrows DEF Reserved
  <2>4. ledger.spent \in Nat /\ paid \in Nat /\ overrun \in Nat /\ Ceiling \in Nat
    BY <1>0, AnonymousAssumption DEF BreakerTyped
  <2>5. ledger'.spent = paid' + Reserved(Open)' /\ paid' + Reserved(Admitted)' <= Ceiling + overrun'
    BY <1>0, <1>1, <2>1, <2>2, <2>3, <2>4 DEF DayBooks
  <2>6. \A w \in InTheLedger' : DayOf(visit'[w].start) = DayOf(moment')
    BY <1>0, <1>4, MoverOnDay
  <2> QED
    BY <1>1, <1>2, <2>1, <2>5, <2>6 DEF DayBooks
<1> QED
  BY <1>3, <1>4 DEF BreakerInv

LEMMA RefuseKept == ASSUME BreakerInv, NEW v \in Visits, Refuse(v) PROVE BreakerInv'
<1>1. BreakerTyped /\ visit[v].at = "refuse" /\ visit[v] # Away /\ v \in Open /\ At(v, "notify") /\ "notify" \in Stages
  BY DEF BreakerInv, Refuse, Away, Open, Stages
<1> QED
  BY <1>1, StageMoved, GivenBack DEF Refuse

LEMMA FetchKept == ASSUME BreakerInv, NEW v \in Visits, Fetch(v) PROVE BreakerInv'
<1>1. BreakerTyped /\ visit[v].at = "fetch" /\ visit[v] # Away /\ v \in Open /\ v \in InTheLedger /\ "score" \in Stages
  BY DEF BreakerInv, Fetch, Away, Open, InTheLedger, Stages
<1>2. CASE At(v, "score") /\ UNCHANGED ledger
  BY <1>1, <1>2, StageMoved, QuietMove DEF Fetch
<1>3. CASE ledger' = rollback(Estimate) /\ Leaves(v)
  BY <1>1, <1>3, StageLeft, GivenBack DEF Fetch
<1> QED
  BY <1>2, <1>3 DEF Fetch

\* The alert of a day is its first, and holds no estimate.
LEMMA NotifyKept == ASSUME BreakerInv, NEW v \in Visits, Notify(v) PROVE BreakerInv'
<1> DEFINE t == visit[v].start
           p == Kept(t, paid)
           o == Kept(t, overrun)
           s == Rolled(t).spent
<1>0. /\ BreakerTyped /\ v \in InTheLedger /\ v \notin Open /\ v \notin Admitted
      /\ Leaves(v) /\ moment' = moment /\ straddled' = straddled
  BY DEF BreakerInv, Notify, Away, InTheLedger, Open, Admitted
<1>1. /\ t \in Nat /\ p \in Nat /\ o \in Nat /\ Kept(t, alerts) \in Nat
      /\ Kept(t, alerts) = IF Rolled(t).notified THEN 1 ELSE 0
      /\ ~straddled => /\ DayOf(t) = DayOf(moment)
                       /\ s = p + Reserved(Open)
                       /\ p + Reserved(Admitted) <= Ceiling + o
  BY <1>0, BooksOnDay
<1>2. /\ ledger' = markBreakerNotified(t) /\ paid' = p /\ overrun' = o
      /\ alerts' = Kept(t, alerts) + (IF Rolled(t).notified THEN 0 ELSE 1)
  BY DEF Notify, AlertOnce
<1>3. /\ ledger' \in [day : Nat, spent : Nat, notified : BOOLEAN]
      /\ ledger'.day = DayOf(t) /\ ledger'.spent = s /\ ledger'.notified = TRUE
  BY <1>0, <1>1, <1>2, LedgerTyped, AnonymousAssumption
<1>4. alerts' = 1
  BY <1>1, <1>2
<1>5. /\ visit' \in [Visits -> VisitRow \cup {Away}] /\ visit'[v] = Away /\ visit'[v].at = "away"
      /\ \A w \in Visits \ {v} : visit'[w] = visit[w]
  BY <1>0, StageLeft DEF InTheLedger
<1>6. Open' = Open /\ Admitted' = Admitted
  <2>1. Open' = Open \ {v} /\ Admitted' = Admitted \ {v}
    BY <1>5, SetsMoved
  <2> QED
    BY <1>0, <2>1
<1>7. BreakerTyped' /\ AlertBooks'
  BY <1>0, <1>1, <1>2, <1>3, <1>4, <1>5 DEF BreakerTyped, AlertBooks
<1>8. ASSUME ~straddled PROVE DayBooks'
  <2>1. \A w \in InTheLedger' : DayOf(visit'[w].start) = DayOf(moment')
    BY <1>0, <1>5, <1>8, MoverOnDay
  <2> QED
    BY <1>0, <1>1, <1>2, <1>3, <1>6, <1>8, <2>1 DEF DayBooks, Reserved
<1> QED
  BY <1>0, <1>7, <1>8 DEF BreakerInv

\* The cost of a call replaces its estimate, whichever of the two is more.
LEMMA ScoreKept == ASSUME BreakerInv, NEW v \in Visits, Score(v) PROVE BreakerInv'
<1> DEFINE t == visit[v].start
           s == Rolled(t).spent
           Held(amount, cost) == IF cost > Estimate THEN Kept(t, amount) ELSE amount
<1>0. /\ BreakerTyped /\ AlertBooks /\ visit[v] # Away /\ v \in InTheLedger /\ v \in Open /\ v \in Admitted
      /\ At(v, "put") /\ "put" \in Stages /\ moment' = moment /\ straddled' = straddled
  BY DEF BreakerInv, Score, Away, InTheLedger, Open, Admitted, Stages
<1>1. /\ t \in Nat /\ Kept(t, paid) \in Nat /\ Kept(t, overrun) \in Nat /\ Kept(t, alerts) \in Nat
      /\ Kept(t, alerts) = IF Rolled(t).notified THEN 1 ELSE 0
      /\ ~straddled => /\ DayOf(t) = DayOf(moment)
                       /\ s = Kept(t, paid) + Reserved(Open)
                       /\ Kept(t, paid) + Reserved(Admitted) <= Ceiling + Kept(t, overrun)
  BY <1>0, BooksOnDay
<1>2. PICK cost \in Costs : 
        /\ ledger' = Reconciled(v, cost)
        /\ paid' = Held(paid, cost) + cost
        /\ overrun' = Held(overrun, cost) + (IF cost > Estimate THEN cost - Estimate ELSE 0)
        /\ alerts' = Held(alerts, cost)
  BY DEF Score
<1>3. cost \in Nat /\ Estimate \in Nat /\ Ceiling \in Nat
  BY AnonymousAssumption
<1>4. /\ visit' \in [Visits -> VisitRow \cup {Away}]
      /\ \A w \in Visits \ {v} : visit'[w] = visit[w]
      /\ visit'[v].at = "put" /\ visit'[v].start = visit[v].start
  BY <1>0, StageMoved
<1>5. Open' = Open \ {v} /\ Admitted' = Admitted \ {v}
  BY <1>0, <1>4, SetsMoved
<1>6. /\ Reserved(Open) = Reserved(Open)' + Estimate /\ Reserved(Open)' \in Nat
      /\ Reserved(Admitted) = Reserved(Admitted)' + Estimate /\ Reserved(Admitted)' \in Nat
  <2>1. Open \in SUBSET Visits /\ Open \ {v} \in SUBSET Visits /\ Admitted \in SUBSET Visits /\ Admitted \ {v} \in SUBSET Visits
    BY DEF Open, Admitted
  <2> QED
    BY <1>0, <1>5, <2>1, ReservedSteps DEF Reserved
<1>7. ASSUME ~straddled
      PROVE  /\ \A w \in InTheLedger' : DayOf(visit'[w].start) = DayOf(moment')
             /\ Open' \subseteq Open
  BY <1>0, <1>4, <1>5, <1>7, MoverOnDay
<1>8. CASE cost > Estimate
  <2>1. cost - Estimate \in Nat /\ ledger' = addAndProject(cost - Estimate, t)
    BY <1>2, <1>3, <1>8 DEF Reconciled
  <2>2. /\ ledger' \in [day : Nat, spent : Nat, notified : BOOLEAN]
        /\ ledger'.day = DayOf(t) /\ ledger'.spent = s + (cost - Estimate) /\ ledger'.notified = Rolled(t).notified
    <3> DEFINE gap == cost - Estimate
    <3>1. gap \in Nat /\ ledger' = addAndProject(gap, t)
      BY <2>1
    <3> HIDE DEF gap
    <3>2. /\ ledger' \in [day : Nat, spent : Nat, notified : BOOLEAN]
          /\ ledger'.day = DayOf(t) /\ ledger'.spent = s + gap /\ ledger'.notified = Rolled(t).notified
      BY <1>0, <1>1, <3>1, LedgerTyped
    <3> QED
      BY <3>2 DEF gap
  <2>3. paid' = Kept(t, paid) + cost /\ overrun' = Kept(t, overrun) + (cost - Estimate) /\ alerts' = Kept(t, alerts)
    BY <1>2, <1>8
  <2>4. BreakerTyped' /\ AlertBooks'
    BY <1>0, <1>1, <1>3, <1>4, <2>1, <2>2, <2>3 DEF BreakerTyped, AlertBooks
  <2>5. ASSUME ~straddled PROVE DayBooks'
    <3>1. ledger'.spent = paid' + Reserved(Open)' /\ paid' + Reserved(Admitted)' <= Ceiling + overrun'
      BY <1>1, <1>3, <1>6, <2>1, <2>2, <2>3, <2>5
    <3> QED
      BY <1>0, <1>1, <1>7, <2>2, <2>5, <3>1 DEF DayBooks
  <2> QED
    BY <1>0, <2>4, <2>5 DEF BreakerInv
<1>9. CASE ~(cost > Estimate)
  <2> DEFINE gap == Estimate - cost
  <2>1. gap \in Nat /\ ledger' = rollback(gap)
    BY <1>2, <1>3, <1>9 DEF Reconciled
  <2>2. paid' = paid + cost /\ overrun' = overrun /\ alerts' = alerts
    BY <1>0, <1>2, <1>9 DEF BreakerTyped
  <2> HIDE DEF gap
  <2>3. /\ ledger' \in [day : Nat, spent : Nat, notified : BOOLEAN]
        /\ ledger'.day = ledger.day /\ ledger'.notified = ledger.notified
        /\ ledger'.spent = IF ledger.spent < gap THEN 0 ELSE ledger.spent - gap
    BY <1>0, <1>1, <2>1, LedgerTyped, ZenonT(60)
  <2>4. BreakerTyped' /\ AlertBooks'
    BY <1>0, <1>3, <1>4, <2>2, <2>3 DEF BreakerTyped, AlertBooks
  <2>5. ASSUME ~straddled PROVE DayBooks'
    <3>1. DayBooks
      BY <2>5 DEF BreakerInv
    <3>2. paid \in Nat /\ ledger.spent \in Nat /\ overrun \in Nat
      BY <1>0 DEF BreakerTyped
    <3>3. ledger'.spent = paid' + Reserved(Open)' /\ paid' + Reserved(Admitted)' <= Ceiling + overrun'
      BY <1>3, <1>6, <1>9, <2>2, <2>3, <3>1, <3>2 DEF DayBooks, gap
    <3> QED
      BY <1>0, <1>7, <2>3, <2>5, <3>1, <3>3 DEF DayBooks
  <2> QED
    BY <1>0, <2>4, <2>5 DEF BreakerInv
<1> QED
  BY <1>8, <1>9

\* A day ends while nobody is in the ledger, or a request is carried over.
LEMMA PassesKept == ASSUME BreakerInv, Passes PROVE BreakerInv'
<1>1. /\ moment' = moment + 1 /\ straddled' = (straddled \/ (DayOf(moment') # DayOf(moment) /\ InTheLedger # {}))
      /\ UNCHANGED <<ledger, visit, paid, overrun, alerts>>
  BY DEF Passes
<1>2. BreakerTyped' /\ AlertBooks'
  BY <1>1 DEF BreakerInv, BreakerTyped, AlertBooks
<1>3. Open' = Open /\ Admitted' = Admitted /\ InTheLedger' = InTheLedger /\ Open \subseteq InTheLedger
  BY <1>1 DEF Open, Admitted, InTheLedger, Away
<1>4. ASSUME ~straddled' PROVE DayBooks'
  <2>1. DayBooks /\ (DayOf(moment') = DayOf(moment) \/ InTheLedger = {})
    BY <1>1, <1>4 DEF BreakerInv
  <2> QED
    BY <1>1, <1>3, <2>1 DEF DayBooks, Reserved
<1> QED
  BY <1>2, <1>4 DEF BreakerInv

-----------------------------------------------------------------------------

\* BreakerHonest for any instance: without a request open across midnight the
\* ledger is what the day's calls cost plus one estimate per open call, the
\* calls stay within the ceiling but for single overruns, and a day alerts once.
THEOREM BreakerIsHonest == AnonymousSpec => []BreakerHonest
<1>1. BreakerInv /\ [AnonymousNext]_anonymousVars => BreakerInv'
  <2> SUFFICES ASSUME BreakerInv, [AnonymousNext]_anonymousVars PROVE BreakerInv'
    OBVIOUS
  <2>1. CASE UNCHANGED anonymousVars
    BY <2>1 DEF anonymousVars, BreakerInv, BreakerTyped, AlertBooks, DayBooks, InTheLedger, Open, Admitted, Reserved
  <2> QED
    BY <2>1, QuietSteps, ChargeKept, RefuseKept, NotifyKept, FetchKept, ScoreKept, PassesKept DEF AnonymousNext
<1>2. BreakerInv => BreakerHonest
  <2> SUFFICES ASSUME BreakerInv, ~straddled
               PROVE  /\ ledger.spent = paid + Estimate * Cardinality(Open)
                      /\ paid <= Ceiling + overrun
    BY DEF BreakerInv, BreakerHonest, AlertBooks
  <2>1. DayBooks /\ paid \in Nat /\ overrun \in Nat /\ Ceiling \in Nat
    BY AnonymousAssumption DEF BreakerInv, BreakerTyped
  <2>2. CASE Visits = {}
    <3>1. Admitted = {}
      BY <2>2 DEF Admitted
    <3> QED
      BY <2>1, <3>1, ReservedNone DEF DayBooks, Reserved
  <2>3. CASE Visits # {}
    <3>1. Admitted \in SUBSET Visits
      BY DEF Admitted
    <3>2. Reserved(Admitted) \in Nat
      BY <2>3, <3>1, ReservedSteps
    <3> QED
      BY <2>1, <3>2 DEF DayBooks, Reserved
  <2> QED
    BY <2>2, <2>3
<1> QED
  BY <1>1, <1>2, InitHonest, PTL DEF AnonymousSpec

-----------------------------------------------------------------------------
(* The support events.                                                      *)

Sources == {"email", "dash_contact"}
EventRecord == [source : Sources, severity : {"none", "medium", "incident"}, issue : BOOLEAN]

RequestTask == [at : {"upsert", "insert", "update", "push"}, thread : SupportThreads, source : Sources]
ReadTask == [at : {"read"}, thread : SupportThreads]
AskTask == [at : {"ask"}, thread : SupportThreads, keyword : BOOLEAN]
ResultTask == [at : {"page", "wait", "route", "attach", "persist"}, thread : SupportThreads, keyword : BOOLEAN,
               severity : {"medium", "incident"}, project : BOOLEAN, attempt : Nat]
Tasks == RequestTask \cup ReadTask \cup AskTask \cup ResultTask \cup {Resting}

SupportTyped ==
  /\ thread \in [SupportThreads -> {"none", "calm", "alarming"}]
  /\ event \in [SupportThreads -> EventRecord \cup {NoEvent}]
  /\ channel \in Seq(SupportThreads)
  /\ task \in [Handlers \cup Workers -> Tasks]
  /\ ending \in BOOLEAN

\* What is done for task c: its event is on record once it was recorded; a
\* result past the pages has told somebody; an issue to attach is in Linear.
Founded(c) ==
  /\ c.at \notin {"rest", "upsert", "insert"} => event[c.thread] # NoEvent
  /\ c.at \in {"route", "attach", "persist"} /\ c.severity = "incident" /\ ~ending => c.thread \in paged \cup reported
  /\ c.at = "attach" => c.thread \in issues

SupportInv ==
  /\ SupportTyped
  /\ \A p \in Handlers \cup Workers : Founded(task[p])
  /\ \A t \in ToSet(channel) : event[t] # NoEvent
  /\ EventsAccounted

-----------------------------------------------------------------------------
(* The channel and the tasks.                                               *)

LEMMA ChannelTaken ==
  ASSUME NEW s \in Seq(SupportThreads), s # <<>>
  PROVE  /\ Head(s) \in SupportThreads /\ Tail(s) \in Seq(SupportThreads)
         /\ Head(s) \in ToSet(s)
         /\ ToSet(s) = ToSet(Tail(s)) \cup {Head(s)}
<1>1. Len(s) \in Nat \ {0} /\ Len(Tail(s)) = Len(s) - 1 /\ Head(s) = s[1]
  OBVIOUS
<1>2. Head(s) \in SupportThreads /\ Tail(s) \in Seq(SupportThreads)
  OBVIOUS
<1>3. \A i \in 1..Len(Tail(s)) : Tail(s)[i] = s[i + 1]
  OBVIOUS
<1>4. ToSet(s) = {s[i] : i \in 1..Len(s)} /\ ToSet(Tail(s)) = {Tail(s)[i] : i \in 1..Len(Tail(s))}
  <2>1. DOMAIN s = 1..Len(s)
    OBVIOUS
  <2>2. DOMAIN Tail(s) = 1..Len(Tail(s))
    BY <1>2
  <2> QED
    BY <2>1, <2>2, Zenon DEF ToSet
<1>5. ASSUME NEW t \in ToSet(s) PROVE t \in ToSet(Tail(s)) \cup {Head(s)}
  <2>1. PICK i \in 1..Len(s) : t = s[i]
    BY <1>4
  <2>2. CASE i = 1
    BY <1>1, <2>1, <2>2
  <2>3. CASE i # 1
    <3>1. i - 1 \in 1..Len(Tail(s)) /\ Tail(s)[i - 1] = s[i]
      BY <1>1, <1>3, <2>1, <2>3
    <3> QED
      BY <1>4, <2>1, <3>1
  <2> QED
    BY <2>2, <2>3
<1>6. ASSUME NEW t \in ToSet(Tail(s)) PROVE t \in ToSet(s)
  <2>1. PICK i \in 1..Len(Tail(s)) : t = s[i + 1]
    BY <1>3, <1>4
  <2>2. i + 1 \in 1..Len(s)
    BY <1>1, <2>1
  <2> QED
    BY <1>4, <2>1, <2>2
<1>7. Head(s) \in ToSet(s)
  BY <1>1, <1>4
<1> QED
  BY <1>2, <1>5, <1>6, <1>7

LEMMA ChannelGrown ==
  ASSUME NEW s \in Seq(SupportThreads), NEW t \in SupportThreads
  PROVE  Append(s, t) \in Seq(SupportThreads) /\ ToSet(Append(s, t)) = ToSet(s) \cup {t}
<1>1. Append(s, t) \in Seq(SupportThreads) /\ Len(Append(s, t)) = Len(s) + 1 /\ Len(s) \in Nat
  OBVIOUS
<1>2. \A i \in 1..Len(s) : Append(s, t)[i] = s[i]
  OBVIOUS
<1>3. Append(s, t)[Len(s) + 1] = t
  OBVIOUS
<1>4. ToSet(Append(s, t)) = {Append(s, t)[i] : i \in 1..(Len(s) + 1)} /\ ToSet(s) = {s[i] : i \in 1..Len(s)}
  BY <1>1 DEF ToSet
<1>5. ASSUME NEW u \in ToSet(Append(s, t)) PROVE u \in ToSet(s) \cup {t}
  <2>1. PICK i \in 1..(Len(s) + 1) : u = Append(s, t)[i]
    BY <1>4
  <2>2. CASE i = Len(s) + 1
    BY <1>3, <2>1, <2>2
  <2>3. CASE i # Len(s) + 1
    <3>1. i \in 1..Len(s)
      BY <1>1, <2>1, <2>3
    <3> QED
      BY <1>2, <1>4, <2>1, <3>1
  <2> QED
    BY <2>2, <2>3
<1>6. ASSUME NEW u \in ToSet(s) PROVE u \in ToSet(Append(s, t))
  <2>1. PICK i \in 1..Len(s) : u = s[i]
    BY <1>4
  <2>2. i \in 1..(Len(s) + 1) /\ Append(s, t)[i] = u
    BY <1>1, <1>2, <2>1
  <2> QED
    BY <1>4, <2>2
<1>7. t \in ToSet(Append(s, t))
  <2>1. Len(s) + 1 \in 1..(Len(s) + 1)
    BY <1>1
  <2> QED
    BY <1>3, <1>4, <2>1
<1> QED
  BY <1>1, <1>5, <1>6, <1>7

\* What a task holds follows from the step it is at.
LEMMA TaskKinds ==
  ASSUME SupportTyped, NEW p \in Handlers \cup Workers
  PROVE  /\ task[p].at \in {"upsert", "insert", "update", "push"} => task[p] \in RequestTask
         /\ task[p].at = "read" => task[p] \in ReadTask
         /\ task[p].at = "ask" => task[p] \in AskTask
         /\ task[p].at \in {"page", "wait", "route", "attach", "persist"} => task[p] \in ResultTask
         /\ task[p] = Resting <=> task[p].at = "rest"
         /\ task[p] # Resting => task[p].thread \in SupportThreads
<1>1. task[p] \in Tasks
  BY DEF SupportTyped
<1>2. CASE task[p] \in RequestTask
  BY <1>2 DEF RequestTask, Resting
<1>3. CASE task[p] \in ReadTask
  BY <1>3 DEF ReadTask, Resting
<1>4. CASE task[p] \in AskTask
  BY <1>4 DEF AskTask, Resting
<1>5. CASE task[p] \in ResultTask
  BY <1>5 DEF ResultTask, Resting
<1>6. CASE task[p] = Resting
  BY <1>6 DEF Resting
<1> QED
  BY <1>1, <1>2, <1>3, <1>4, <1>5, <1>6 DEF Tasks

-----------------------------------------------------------------------------
(* One step of a request or a worker.                                       *)

LEMMA TaskStepKept ==
  ASSUME SupportInv, NEW p \in Handlers \cup Workers, NEW c \in Tasks,
         task' = [task EXCEPT ![p] = c],
         ending' = ending,
         thread' \in [SupportThreads -> {"none", "calm", "alarming"}],
         event' \in [SupportThreads -> EventRecord \cup {NoEvent}],
         channel' \in Seq(SupportThreads),
         paged \subseteq paged', reported \subseteq reported', issues \subseteq issues', lost \subseteq lost',
         \A t \in SupportThreads : event[t] # NoEvent => event'[t] # NoEvent,
         \A t \in ToSet(channel') : event'[t] # NoEvent,
         Founded(c)',
         \* A row new without a result, and the event in hand, stay in hand.
         \A t \in SupportThreads : event'[t] # NoEvent /\ event'[t].severity = "none" =>
           \/ event[t] # NoEvent /\ event[t].severity = "none"
           \/ c # Resting /\ t = c.thread,
         task[p] # Resting =>
           \/ c # Resting /\ c.thread = task[p].thread
           \/ task[p].thread \in lost' \cup ToSet(channel')
           \/ event'[task[p].thread].severity # "none",
         \A t \in ToSet(channel) : t \in ToSet(channel') \/ (c # Resting /\ c.thread = t),
         \* A row that becomes an incident, or has an issue, has them for real.
         \A t \in SupportThreads : event'[t] # NoEvent /\ event'[t].severity = "incident" =>
           \/ event[t] # NoEvent /\ event[t].severity = "incident"
           \/ t \in paged' \cup reported',
         \A t \in SupportThreads : event'[t] # NoEvent /\ event'[t].issue =>
           \/ event[t] # NoEvent /\ event[t].issue
           \/ t \in issues'
  PROVE  SupportInv'
<1>0. SupportTyped /\ EventsAccounted
  BY DEF SupportInv
<1>1. SupportTyped'
  BY <1>0 DEF SupportTyped
<1>2. ASSUME NEW q \in Handlers \cup Workers PROVE Founded(task[q])'
  <2>1. CASE q = p
    <3>1. task'[q] = c
      BY <1>0, <2>1 DEF SupportTyped
    <3> QED
      BY <3>1 DEF Founded
  <2>2. CASE q # p
    <3>1. task'[q] = task[q] /\ Founded(task[q])
      BY <1>0, <2>2 DEF SupportTyped, SupportInv
    <3>2. task[q].at \notin {"rest"} => task[q].thread \in SupportThreads
      BY <1>0, TaskKinds
    <3> QED
      BY <3>1, <3>2 DEF Founded
  <2> QED
    BY <2>1, <2>2
<1>3. ASSUME NEW t \in SupportThreads, event'[t] # NoEvent, event'[t].severity = "none"
      PROVE  t \in ToSet(channel') \cup UnderWay' \cup lost'
  <2>0. c # Resting => c.thread \in UnderWay'
    <3>1. task'[p] = c
      BY <1>0 DEF SupportTyped
    <3> QED
      BY <3>1 DEF UnderWay
  <2>1. CASE c # Resting /\ t = c.thread
    BY <2>0, <2>1
  <2>2. CASE event[t] # NoEvent /\ event[t].severity = "none"
    <3>1. t \in ToSet(channel) \cup UnderWay \cup lost
      BY <1>0, <2>2 DEF EventsAccounted
    <3>2. CASE t \in ToSet(channel)
      BY <2>0, <3>2
    <3>3. CASE t \in lost
      BY <3>3
    <3>4. CASE t \in UnderWay
      <4>1. PICK q \in Handlers \cup Workers : task[q] # Resting /\ task[q].thread = t
        BY <3>4 DEF UnderWay
      <4>2. CASE q = p
        BY <1>3, <2>0, <4>1, <4>2
      <4>3. CASE q # p
        <5>1. task'[q] = task[q]
          BY <1>0, <4>3 DEF SupportTyped
        <5> QED
          BY <4>1, <5>1 DEF UnderWay
      <4> QED
        BY <4>2, <4>3
    <3> QED
      BY <3>1, <3>2, <3>3, <3>4
  <2> QED
    BY <1>3, <2>1, <2>2
<1>4. EventsAccounted'
  <2> SUFFICES ASSUME NEW t \in SupportThreads, event'[t] # NoEvent
               PROVE  /\ event'[t].severity = "none" => t \in ToSet(channel') \cup UnderWay' \cup lost'
                      /\ event'[t].severity = "incident" => t \in paged' \cup reported'
                      /\ event'[t].issue => t \in issues'
    BY DEF EventsAccounted
  <2>1. event'[t].severity = "incident" => t \in paged' \cup reported'
    BY <1>0 DEF EventsAccounted
  <2>2. event'[t].issue => t \in issues'
    BY <1>0 DEF EventsAccounted
  <2> QED
    BY <1>3, <2>1, <2>2
<1> QED
  BY <1>1, <1>2, <1>4 DEF SupportInv

\* A step that writes no row and moves no event between hand and channel.
LEMMA TaskGoesOn ==
  ASSUME SupportInv, NEW p \in Handlers \cup Workers, NEW c \in Tasks \ {Resting},
         task' = [task EXCEPT ![p] = c],
         UNCHANGED <<event, channel, ending>>,
         thread' \in [SupportThreads -> {"none", "calm", "alarming"}],
         paged \subseteq paged', reported \subseteq reported', issues \subseteq issues', lost \subseteq lost',
         task[p] = Resting \/ c.thread = task[p].thread,
         Founded(c)'
  PROVE  SupportInv'
<1>1. /\ event' \in [SupportThreads -> EventRecord \cup {NoEvent}] /\ channel' \in Seq(SupportThreads)
      /\ \A t \in ToSet(channel') : event'[t] # NoEvent
  BY DEF SupportInv, SupportTyped
<1> QED
  BY <1>1, TaskStepKept

\* A request or a worker gives its event up, or is done with it.
LEMMA TaskEnds ==
  ASSUME SupportInv, NEW p \in Handlers \cup Workers, task[p] # Resting,
         Rests(p), UNCHANGED <<event, channel, ending, thread, paged, reported, issues>>,
         lost' = lost \cup {task[p].thread}
  PROVE  SupportInv'
<1>1. /\ event' \in [SupportThreads -> EventRecord \cup {NoEvent}] /\ channel' \in Seq(SupportThreads)
      /\ thread' \in [SupportThreads -> {"none", "calm", "alarming"}]
      /\ \A t \in ToSet(channel') : event'[t] # NoEvent
  BY DEF SupportInv, SupportTyped
<1>2. Resting \in Tasks /\ Founded(Resting)'
  BY DEF Tasks, Founded, Resting
<1>3. task' = [task EXCEPT ![p] = Resting]
  BY DEF Rests
<1> QED
  BY <1>1, <1>2, <1>3, TaskStepKept

LEMMA SupportInitKept == SupportInit => SupportInv
<1> SUFFICES ASSUME SupportInit PROVE SupportInv
  OBVIOUS
<1>1. SupportTyped
  <2>1. Resting \in Tasks /\ channel \in Seq(SupportThreads)
    BY DEF Tasks, SupportInit
  <2> QED
    BY <2>1 DEF SupportInit, SupportTyped
<1>2. \A p \in Handlers \cup Workers : Founded(task[p])
  BY DEF SupportInit, Founded, Resting
<1>3. ToSet(channel) = {}
  BY DEF SupportInit, ToSet
<1>4. EventsAccounted
  BY DEF SupportInit, EventsAccounted
<1> QED
  BY <1>1, <1>2, <1>3, <1>4 DEF SupportInv

LEMMA RequestMoved ==
  ASSUME NEW p \in Handlers \cup Workers, task[p] \in RequestTask,
         NEW at \in {"insert", "update", "push"}, Moves(p, at)
  PROVE  \E c \in RequestTask : /\ task' = [task EXCEPT ![p] = c]
                                /\ c.at = at /\ c.thread = task[p].thread /\ c # Resting
<1> DEFINE c == [task[p] EXCEPT !.at = at]
<1>1. c \in RequestTask /\ c.at = at /\ c.thread = task[p].thread
  BY DEF RequestTask
<1>2. c # Resting
  BY <1>1 DEF Resting
<1>3. task' = [task EXCEPT ![p] = c]
  BY DEF Moves
<1> QED
  BY <1>1, <1>2, <1>3

LEMMA ResultMoved ==
  ASSUME NEW p \in Handlers \cup Workers, task[p] \in ResultTask,
         NEW at \in {"page", "wait", "route", "attach", "persist"}, Moves(p, at)
  PROVE  \E c \in ResultTask : /\ task' = [task EXCEPT ![p] = c]
                               /\ c.at = at /\ c.thread = task[p].thread /\ c # Resting
                               /\ c.severity = task[p].severity
<1> DEFINE c == [task[p] EXCEPT !.at = at]
<1>1. c \in ResultTask /\ c.at = at /\ c.thread = task[p].thread /\ c.severity = task[p].severity
  BY DEF ResultTask
<1>2. c # Resting
  BY <1>1 DEF Resting
<1>3. task' = [task EXCEPT ![p] = c]
  BY DEF Moves
<1> QED
  BY <1>1, <1>2, <1>3

LEMMA RowIsThere ==
  ASSUME NEW row \in EventRecord
  PROVE  row # NoEvent
<1>1. row.severity \in {"none", "medium", "incident"}
  BY DEF EventRecord
<1>2. NoEvent.severity = "no event"
  BY DEF NoEvent
<1> QED
  BY <1>1, <1>2

-----------------------------------------------------------------------------
(* The requests.                                                            *)

LEMMA EventRowKept ==
  ASSUME NEW t \in SupportThreads, event[t] \in EventRecord \cup {NoEvent}, NEW source \in Sources
  PROVE  /\ EventRow(t, source) \in EventRecord /\ EventRow(t, source) # NoEvent
         /\ event[t] = NoEvent => EventRow(t, source).severity = "none" /\ EventRow(t, source).issue = FALSE
         /\ event[t] # NoEvent => /\ EventRow(t, source).severity = event[t].severity
                                  /\ EventRow(t, source).issue = event[t].issue
<1>1. CASE event[t] = NoEvent
  BY <1>1 DEF EventRow, EventRecord, NoEvent
<1>2. CASE event[t] # NoEvent
  <2>1. event[t] \in EventRecord
    BY <1>2
  <2>2. EventRow(t, source) = [event[t] EXCEPT !.source = source]
    BY <1>2 DEF EventRow
  <2> QED
    BY <1>2, <2>1, <2>2 DEF EventRecord, NoEvent
<1> QED
  BY <1>1, <1>2

\* The row is written and the request goes on to the channel.
LEMMA RowWritten ==
  ASSUME SupportInv, NEW h \in Handlers, task[h] \in RequestTask,
         event' = [event EXCEPT ![task[h].thread] = EventRow(task[h].thread, task[h].source)],
         Moves(h, "push"),
         UNCHANGED <<thread, channel, paged, reported, issues, lost, ending>>
  PROVE  SupportInv'
<1> DEFINE t == task[h].thread
           row == EventRow(t, task[h].source)
<1>0. SupportTyped /\ t \in SupportThreads /\ task[h].source \in Sources
  BY DEF SupportInv, RequestTask
<1>1. event[t] \in EventRecord \cup {NoEvent}
  BY <1>0 DEF SupportTyped
<1>2. /\ row \in EventRecord /\ row # NoEvent
      /\ event[t] = NoEvent => row.severity = "none" /\ row.issue = FALSE
      /\ event[t] # NoEvent => row.severity = event[t].severity /\ row.issue = event[t].issue
  BY <1>0, <1>1, EventRowKept
<1>3. PICK c \in RequestTask : /\ task' = [task EXCEPT ![h] = c]
                               /\ c.at = "push" /\ c.thread = t /\ c # Resting
  BY RequestMoved
<1>4. event' = [event EXCEPT ![t] = row]
  OBVIOUS
<1> HIDE DEF t, row
<1>5. /\ event' \in [SupportThreads -> EventRecord \cup {NoEvent}]
      /\ event'[t] = row
      /\ \A u \in SupportThreads \ {t} : event'[u] = event[u]
  BY <1>0, <1>2, <1>4 DEF SupportTyped
<1>6. \A u \in ToSet(channel') : event'[u] # NoEvent
  <2>1. \A u \in ToSet(channel) : event[u] # NoEvent
    BY DEF SupportInv
  <2>2. ToSet(channel) \subseteq SupportThreads
    BY <1>0 DEF SupportTyped, ToSet
  <2> QED
    BY <1>2, <1>5, <2>1, <2>2
<1>7. c \in Tasks /\ Founded(c)'
  BY <1>2, <1>3, <1>5 DEF Tasks, Founded
<1>8. channel' \in Seq(SupportThreads) /\ thread' \in [SupportThreads -> {"none", "calm", "alarming"}]
  BY <1>0 DEF SupportTyped
<1>9. /\ \A u \in SupportThreads : event[u] # NoEvent => event'[u] # NoEvent
      /\ \A u \in SupportThreads : event'[u] # NoEvent /\ event'[u].severity = "none" =>
           (event[u] # NoEvent /\ event[u].severity = "none") \/ (c # Resting /\ u = c.thread)
      /\ \A u \in SupportThreads : event'[u] # NoEvent /\ event'[u].severity = "incident" =>
           event[u] # NoEvent /\ event[u].severity = "incident"
      /\ \A u \in SupportThreads : event'[u] # NoEvent /\ event'[u].issue =>
           event[u] # NoEvent /\ event[u].issue
  BY <1>2, <1>3, <1>5
<1> QED
  BY <1>3, <1>5, <1>6, <1>7, <1>8, <1>9, TaskStepKept DEF t

LEMMA RequestKept ==
  ASSUME SupportInv, NEW h \in Handlers,
         \/ \E t \in SupportThreads : handleSupportWebhook(h, t) \/ handleSupportReport(h, t)
         \/ UpsertEventFromWebhook(h) \/ SqliteWriteEvent(h) \/ Push(h)
  PROVE  SupportInv'
<1>0. SupportTyped /\ h \in Handlers \cup Workers
  BY DEF SupportInv
<1>1. ASSUME NEW t \in SupportThreads, handleSupportWebhook(h, t) \/ handleSupportReport(h, t)
      PROVE  SupportInv'
  <2>1. PICK source \in Sources : task' = [task EXCEPT ![h] = [at |-> "upsert", thread |-> t, source |-> source]]
    BY <1>1 DEF handleSupportWebhook, handleSupportReport, Sources
  <2> DEFINE c == [at |-> "upsert", thread |-> t, source |-> source]
  <2>2. c \in Tasks \ {Resting} /\ Founded(c)'
    BY DEF Tasks, RequestTask, Resting, Founded
  <2>3. thread' \in [SupportThreads -> {"none", "calm", "alarming"}]
    BY <1>0, <1>1 DEF handleSupportWebhook, handleSupportReport, SupportTyped
  <2>4. task[h] = Resting /\ UNCHANGED <<event, channel, ending, paged, reported, issues, lost>>
    BY <1>1 DEF handleSupportWebhook, handleSupportReport
  <2> HIDE DEF c
  <2>5. task' = [task EXCEPT ![h] = c]
    BY <2>1 DEF c
  <2> QED
    BY <1>0, <2>2, <2>3, <2>4, <2>5, TaskGoesOn
<1>2. ASSUME task[h].at \in {"upsert", "insert", "update"}, GivenUp(h),
             UNCHANGED <<event, thread, channel, paged, reported, issues, ending>>
      PROVE  SupportInv'
  <2>1. task[h] # Resting
    BY <1>2 DEF Resting
  <2> QED
    BY <1>0, <1>2, <2>1, TaskEnds DEF GivenUp
<1>3. CASE UpsertEventFromWebhook(h)
  <2>0. task[h] \in RequestTask
    BY <1>0, <1>3, TaskKinds DEF UpsertEventFromWebhook
  <2>1. CASE Moves(h, "push") /\ UNCHANGED lost /\ event' = [event EXCEPT ![task[h].thread] = EventRow(task[h].thread, task[h].source)]
    BY <1>3, <2>0, <2>1, RowWritten DEF UpsertEventFromWebhook
  <2>2. CASE /\ Moves(h, IF event[task[h].thread] = NoEvent THEN "insert" ELSE "update")
             /\ UNCHANGED <<event, lost>>
    <3> DEFINE at == IF event[task[h].thread] = NoEvent THEN "insert" ELSE "update"
    <3>1. at \in {"insert", "update", "push"} /\ (at = "update" => event[task[h].thread] # NoEvent) /\ at # "push"
      OBVIOUS
    <3>2. Moves(h, at)
      BY <2>2
    <3> HIDE DEF at
    <3>3. PICK c \in RequestTask : /\ task' = [task EXCEPT ![h] = c]
                                   /\ c.at = at /\ c.thread = task[h].thread /\ c # Resting
      BY <1>0, <2>0, <3>1, <3>2, RequestMoved
    <3>4. c \in Tasks \ {Resting} /\ Founded(c)'
      BY <2>2, <3>1, <3>3 DEF Tasks, Founded
    <3>5. UNCHANGED <<event, channel, ending, thread, paged, reported, issues, lost>>
      BY <1>3, <2>2 DEF UpsertEventFromWebhook
    <3> QED
      BY <1>0, <3>3, <3>4, <3>5, TaskGoesOn DEF SupportTyped
  <2>3. CASE GivenUp(h) /\ UNCHANGED event
    BY <1>2, <1>3, <2>3 DEF UpsertEventFromWebhook
  <2> QED
    BY <1>3, <2>1, <2>2, <2>3 DEF UpsertEventFromWebhook
<1>4. CASE SqliteWriteEvent(h)
  <2>0. task[h] \in RequestTask
    BY <1>0, <1>4, TaskKinds DEF SqliteWriteEvent
  <2>1. CASE task[h].at = "insert" /\ event[task[h].thread] # NoEvent
    BY <1>2, <1>4, <2>1 DEF SqliteWriteEvent
  <2>2. CASE ~(task[h].at = "insert" /\ event[task[h].thread] # NoEvent)
    BY <1>4, <2>0, <2>2, RowWritten DEF SqliteWriteEvent
  <2> QED
    BY <2>1, <2>2
<1>5. CASE Push(h)
  <2>0. task[h] \in RequestTask /\ task[h].thread \in SupportThreads /\ task[h] # Resting
    BY <1>0, <1>5, TaskKinds DEF Push, Resting
  <2>1. CASE channel' = channel /\ lost' = lost \cup {task[h].thread}
    BY <1>0, <1>5, <2>0, <2>1, TaskEnds DEF Push
  <2>2. CASE channel' = Append(channel, task[h].thread) /\ lost' = lost
    <3>1. channel' \in Seq(SupportThreads) /\ ToSet(channel') = ToSet(channel) \cup {task[h].thread}
      BY <1>0, <2>0, <2>2, ChannelGrown DEF SupportTyped
    <3>2. UNCHANGED <<event, ending, thread, paged, reported, issues>> /\ task' = [task EXCEPT ![h] = Resting]
      BY <1>5 DEF Push, Rests
    <3>3. event[task[h].thread] # NoEvent
      BY <1>0, <1>5 DEF SupportInv, Founded, Push
    <3>4. \A t \in ToSet(channel') : event'[t] # NoEvent
      BY <3>1, <3>2, <3>3 DEF SupportInv
    <3>5. Resting \in Tasks /\ Founded(Resting)'
      BY DEF Tasks, Founded, Resting
    <3>6. event' \in [SupportThreads -> EventRecord \cup {NoEvent}] /\ thread' \in [SupportThreads -> {"none", "calm", "alarming"}]
      BY <1>0, <3>2 DEF SupportTyped
    <3> QED
      BY <1>0, <2>2, <3>1, <3>2, <3>4, <3>5, <3>6, TaskStepKept
  <2> QED
    BY <1>5, <2>1, <2>2 DEF Push, PushOrDrop
<1> QED
  BY <1>1, <1>3, <1>4, <1>5

-----------------------------------------------------------------------------
(* The workers.                                                             *)

LEMMA TakeKept ==
  ASSUME SupportInv, NEW w \in Workers, runWorker(w)
  PROVE  SupportInv'
<1>0. SupportTyped /\ w \in Handlers \cup Workers /\ channel \in Seq(SupportThreads) /\ channel # <<>>
  BY DEF SupportInv, SupportTyped, runWorker
<1>1. /\ Head(channel) \in SupportThreads /\ Tail(channel) \in Seq(SupportThreads)
      /\ Head(channel) \in ToSet(channel)
      /\ ToSet(channel) = ToSet(Tail(channel)) \cup {Head(channel)}
  BY <1>0, ChannelTaken
<1>2. /\ task[w] = Resting /\ channel' = Tail(channel)
      /\ UNCHANGED <<thread, event, paged, reported, issues, lost, ending>>
  BY DEF runWorker
<1>3. PICK c \in ReadTask : /\ task' = [task EXCEPT ![w] = c]
                            /\ c # Resting /\ c.thread = Head(channel) /\ c.at = "read" /\ c \in Tasks
  <2> DEFINE r == [at |-> "read", thread |-> Head(channel)]
  <2>1. r \in ReadTask /\ r # Resting /\ r.thread = Head(channel) /\ r.at = "read" /\ r \in Tasks
    BY <1>1 DEF Tasks, ReadTask, Resting
  <2>2. task' = [task EXCEPT ![w] = r]
    BY DEF runWorker
  <2> QED
    BY <2>1, <2>2
<1>4. event[Head(channel)] # NoEvent
  BY <1>1 DEF SupportInv
<1>5. Founded(c)'
  BY <1>2, <1>3, <1>4 DEF Founded
<1>6. \A t \in ToSet(channel') : event'[t] # NoEvent
  BY <1>1, <1>2 DEF SupportInv
<1>7. /\ \A t \in ToSet(channel) : t \in ToSet(channel') \/ (c # Resting /\ c.thread = t)
      /\ channel' \in Seq(SupportThreads)
      /\ event' \in [SupportThreads -> EventRecord \cup {NoEvent}] /\ thread' \in [SupportThreads -> {"none", "calm", "alarming"}]
  BY <1>0, <1>1, <1>2, <1>3 DEF SupportTyped
<1> QED
  BY <1>0, <1>2, <1>3, <1>5, <1>6, <1>7, TaskStepKept

LEMMA AnswerKept ==
  ASSUME SupportInv, NEW w \in Workers, GetThread(w) \/ Complete(w)
  PROVE  SupportInv'
<1>0. SupportTyped /\ w \in Handlers \cup Workers /\ Founded(task[w])
  BY DEF SupportInv
<1>1. task[w] # Resting /\ task[w].thread \in SupportThreads /\ event[task[w].thread] # NoEvent
  BY <1>0, TaskKinds DEF Founded, GetThread, Complete
<1>2. CASE GetThread(w)
  <2>1. PICK keyword \in BOOLEAN : task' = [task EXCEPT ![w] = [at |-> "ask", thread |-> task[w].thread, keyword |-> keyword]]
    BY <1>2 DEF GetThread
  <2> DEFINE r == [at |-> "ask", thread |-> task[w].thread, keyword |-> keyword]
  <2>0. r \in Tasks \ {Resting} /\ r.thread = task[w].thread /\ r.at = "ask"
    BY <1>1 DEF Tasks, AskTask, Resting
  <2>2. PICK c \in Tasks \ {Resting} : task' = [task EXCEPT ![w] = c] /\ c.thread = task[w].thread /\ c.at = "ask"
    BY <2>0, <2>1
  <2>3. UNCHANGED <<thread, event, channel, paged, reported, issues, lost, ending>>
    BY <1>2 DEF GetThread
  <2>4. Founded(c)'
    BY <1>1, <2>2, <2>3 DEF Founded
  <2> QED
    BY <1>0, <2>2, <2>3, <2>4, TaskGoesOn DEF SupportTyped
<1>3. ASSUME Complete(w), ~GivenUp(w) PROVE SupportInv'
  <2>1. PICK answer \in Answers :
          task' = [task EXCEPT ![w] =
            [at |-> IF Classified(answer, task[w].keyword) = "incident" THEN "page" ELSE "route", thread |-> task[w].thread,
             keyword |-> task[w].keyword, severity |-> Classified(answer, task[w].keyword), project |-> answer.project, attempt |-> 0]]
    BY <1>3 DEF Complete
  <2> DEFINE severity == Classified(answer, task[w].keyword)
             at == IF severity = "incident" THEN "page" ELSE "route"
             r == [at |-> at, thread |-> task[w].thread, keyword |-> task[w].keyword, severity |-> severity,
                   project |-> answer.project, attempt |-> 0]
  <2>2. task[w].keyword \in BOOLEAN
    BY <1>0, <1>3, TaskKinds DEF Complete, AskTask
  <2>3. severity \in {"medium", "incident"} /\ answer.project \in BOOLEAN
    <3>1. answer.severity \in {"medium", "incident"} /\ answer.project \in BOOLEAN
      <4>1. CASE answer \in [ok : {TRUE}, severity : {"medium", "incident"}, project : BOOLEAN]
        BY <4>1
      <4>2. CASE answer = [ok |-> FALSE, severity |-> "medium", project |-> FALSE]
        BY <4>2
      <4> QED
        BY <4>1, <4>2 DEF Answers
    <3> QED
      BY <3>1 DEF Classified
  <2>4. task' = [task EXCEPT ![w] = r] /\ UNCHANGED <<thread, event, channel, paged, reported, issues, lost, ending>>
    BY <1>3, <2>1 DEF Complete
  <2> HIDE DEF severity
  <2>5. at \in {"page", "route"} /\ (at = "route" => severity # "incident")
    OBVIOUS
  <2> HIDE DEF at
  <2>8. r \in ResultTask /\ r # Resting /\ r.thread = task[w].thread /\ r.at = at /\ r.severity = severity
    BY <1>1, <2>2, <2>3, <2>5 DEF ResultTask, Resting
  <2>6. PICK c \in ResultTask : /\ task' = [task EXCEPT ![w] = c] /\ c # Resting /\ c.thread = task[w].thread
                                /\ c.at \in {"page", "route"} /\ (c.at = "route" => c.severity # "incident")
    <3> HIDE DEF r
    <3> QED
      BY <2>4, <2>5, <2>8
  <2>7. c \in Tasks \ {Resting} /\ Founded(c)'
    BY <1>1, <2>4, <2>6 DEF Founded, Tasks
  <2> QED
    BY <1>0, <2>4, <2>6, <2>7, TaskGoesOn DEF SupportTyped
<1>4. ASSUME Complete(w), GivenUp(w) PROVE SupportInv'
  BY <1>0, <1>1, <1>4, TaskEnds DEF Complete, GivenUp
<1> QED
  BY <1>2, <1>3, <1>4

\* A worker that holds a result goes on with it.
LEMMA ResultGoesOn ==
  ASSUME SupportInv, NEW w \in Handlers \cup Workers, task[w].at \in {"page", "wait", "route", "attach", "persist"},
         NEW at \in {"page", "wait", "route", "attach", "persist"}, Moves(w, at),
         UNCHANGED <<event, channel, ending, thread>>,
         paged \subseteq paged', reported \subseteq reported', issues \subseteq issues', lost \subseteq lost',
         at \in {"route", "attach", "persist"} =>
           \/ ending
           \/ task[w].at \in {"route", "attach", "persist"}
           \/ task[w].thread \in paged' \cup reported',
         at = "attach" => task[w].thread \in issues'
  PROVE  SupportInv'
<1>0. SupportTyped /\ Founded(task[w])
  BY DEF SupportInv
<1>1. task[w] \in ResultTask /\ task[w].thread \in SupportThreads /\ task[w] # Resting /\ event[task[w].thread] # NoEvent
  BY <1>0, TaskKinds DEF Founded, Resting
<1>2. PICK c \in ResultTask : /\ task' = [task EXCEPT ![w] = c]
                              /\ c.at = at /\ c.thread = task[w].thread /\ c # Resting
                              /\ c.severity = task[w].severity
  BY <1>1, ResultMoved
<1>3. c \in Tasks \ {Resting} /\ Founded(c)'
  BY <1>0, <1>1, <1>2 DEF Tasks, Founded
<1> QED
  BY <1>0, <1>2, <1>3, TaskGoesOn DEF SupportTyped

LEMMA PageKept ==
  ASSUME SupportInv, NEW w \in Workers, SendSMS(w) \/ Backoff(w)
  PROVE  SupportInv'
<1>0. SupportTyped /\ w \in Handlers \cup Workers /\ Founded(task[w])
  BY DEF SupportInv
<1>1. CASE SendSMS(w)
  <2>1. task[w].at = "page" /\ UNCHANGED <<event, channel, ending, thread, issues, lost>>
    BY <1>1 DEF SendSMS
  <2>2. paged \subseteq paged' /\ reported \subseteq reported'
    BY <1>1 DEF SendSMS, Reported
  <2>3. \/ Moves(w, "wait")
        \/ Moves(w, "route") /\ task[w].thread \in paged' \cup reported'
    BY <1>1 DEF SendSMS, Reported
  <2> QED
    BY <1>0, <2>1, <2>2, <2>3, ResultGoesOn
<1>2. CASE Backoff(w)
  <2>1. task[w].at = "wait" /\ UNCHANGED <<event, channel, ending, thread, paged, reported, issues, lost>>
    BY <1>2 DEF Backoff
  <2>2. CASE ending /\ Moves(w, "route")
    BY <1>0, <2>1, <2>2, ResultGoesOn
  <2>3. CASE task' = [task EXCEPT ![w].at = "page", ![w].attempt = @ + 1]
    <3>1. task[w] \in ResultTask /\ task[w] # Resting /\ event[task[w].thread] # NoEvent
      BY <1>0, <2>1, TaskKinds DEF Founded, Resting
    <3> DEFINE paging == [task[w] EXCEPT !.at = "page"]
               r == [paging EXCEPT !.attempt = task[w].attempt + 1]
    <3>2. paging \in ResultTask /\ paging.at = "page" /\ paging.thread = task[w].thread /\ task[w].attempt + 1 \in Nat
      BY <3>1 DEF ResultTask
    <3>6. r \in ResultTask /\ r.at = "page" /\ r.thread = task[w].thread
      <4> HIDE DEF paging
      <4> QED
        BY <3>2 DEF ResultTask
    <3>4. task' = [task EXCEPT ![w] = r]
      BY <1>0, <2>3, <3>1 DEF SupportTyped, ResultTask
    <3> HIDE DEF r
    <3>3. PICK c \in ResultTask : /\ task' = [task EXCEPT ![w] = c]
                                  /\ c.at = "page" /\ c.thread = task[w].thread
      BY <3>4, <3>6
    <3>5. c \in Tasks \ {Resting} /\ Founded(c)'
      BY <2>1, <3>1, <3>3 DEF Tasks, Founded, Resting
    <3> QED
      BY <1>0, <2>1, <3>3, <3>5, TaskGoesOn DEF SupportTyped
  <2> QED
    BY <1>2, <2>2, <2>3 DEF Backoff
<1> QED
  BY <1>1, <1>2

LEMMA IssueKept ==
  ASSUME SupportInv, NEW w \in Workers, CreateIssue(w)
  PROVE  SupportInv'
<1>0. SupportTyped /\ w \in Handlers \cup Workers
  BY DEF SupportInv
<1>1. task[w].at = "route" /\ UNCHANGED <<event, channel, ending, thread, paged, reported, lost>>
  BY DEF CreateIssue
<1>2. CASE Moves(w, "attach") /\ issues' = issues \cup {task[w].thread}
  BY <1>0, <1>1, <1>2, ResultGoesOn
<1>3. CASE Moves(w, "persist") /\ UNCHANGED issues
  BY <1>0, <1>1, <1>3, ResultGoesOn
<1> QED
  BY <1>2, <1>3 DEF CreateIssue

\* A worker writes its event's row, which keeps its class.
LEMMA RowChanged ==
  ASSUME SupportInv, NEW w \in Handlers \cup Workers, NEW c \in Tasks, NEW row \in EventRecord,
         task[w] \in ResultTask,
         task' = [task EXCEPT ![w] = c],
         event' = [event EXCEPT ![task[w].thread] = row],
         UNCHANGED <<channel, ending, thread, paged, reported, issues, lost>>,
         Founded(c)',
         c # Resting => c.thread = task[w].thread,
         c = Resting => row.severity # "none",
         row.severity = "none" => event[task[w].thread].severity = "none",
         row.severity = "incident" =>
           event[task[w].thread].severity = "incident" \/ task[w].thread \in paged \cup reported,
         row.issue => event[task[w].thread].issue \/ task[w].thread \in issues
  PROVE  SupportInv'
<1> DEFINE t == task[w].thread
<1>0. SupportTyped /\ t \in SupportThreads /\ task[w] # Resting
  BY DEF SupportInv, ResultTask, Resting
<1>1. event[t] # NoEvent
  <2>1. Founded(task[w])
    BY DEF SupportInv
  <2> QED
    BY <2>1 DEF Founded, ResultTask
<1>2. row # NoEvent
  BY RowIsThere
<1>3. /\ event' \in [SupportThreads -> EventRecord \cup {NoEvent}]
      /\ event'[t] = row
      /\ \A u \in SupportThreads \ {t} : event'[u] = event[u]
  BY <1>0 DEF SupportTyped
<1>4. \A u \in ToSet(channel') : event'[u] # NoEvent
  <2>1. \A u \in ToSet(channel) : event[u] # NoEvent
    BY DEF SupportInv
  <2>2. ToSet(channel) \subseteq SupportThreads
    BY <1>0 DEF SupportTyped, ToSet
  <2> QED
    BY <1>2, <1>3, <2>1, <2>2
<1>5. channel' \in Seq(SupportThreads) /\ thread' \in [SupportThreads -> {"none", "calm", "alarming"}]
  BY <1>0 DEF SupportTyped
<1>6. /\ \A u \in SupportThreads : event[u] # NoEvent => event'[u] # NoEvent
      /\ \A u \in SupportThreads : event'[u] # NoEvent /\ event'[u].severity = "none" =>
           event[u] # NoEvent /\ event[u].severity = "none"
      /\ \A u \in SupportThreads : event'[u] # NoEvent /\ event'[u].severity = "incident" =>
           (event[u] # NoEvent /\ event[u].severity = "incident") \/ u \in paged' \cup reported'
      /\ \A u \in SupportThreads : event'[u] # NoEvent /\ event'[u].issue =>
           (event[u] # NoEvent /\ event[u].issue) \/ u \in issues'
      /\ c = Resting => event'[t].severity # "none"
  BY <1>1, <1>2, <1>3
<1> QED
  BY <1>0, <1>3, <1>4, <1>5, <1>6, TaskStepKept

LEMMA ResultKept ==
  ASSUME SupportInv, NEW w \in Workers, AttachLinearIssue(w) \/ AttachClassification(w)
  PROVE  SupportInv'
<1> DEFINE t == task[w].thread
<1>0. SupportTyped /\ w \in Handlers \cup Workers /\ Founded(task[w])
  BY DEF SupportInv
<1>1. /\ task[w] \in ResultTask /\ task[w].at \in {"attach", "persist"}
      /\ t \in SupportThreads /\ task[w] # Resting /\ event[t] # NoEvent
  BY <1>0, TaskKinds DEF Founded, Resting, AttachLinearIssue, AttachClassification
<1>2. event[t] \in EventRecord
  BY <1>0, <1>1 DEF SupportTyped
<1>3. CASE AttachLinearIssue(w)
  <2>1. task[w].at = "attach" /\ Moves(w, "persist") /\ UNCHANGED <<channel, ending, thread, paged, reported, issues, lost>>
    BY <1>3 DEF AttachLinearIssue
  <2>2. CASE UNCHANGED event
    BY <1>0, <2>1, <2>2, ResultGoesOn
  <2>3. CASE event' = [event EXCEPT ![t].issue = TRUE]
    <3>1. PICK row \in EventRecord : /\ event' = [event EXCEPT ![t] = row]
                                     /\ row.severity = event[t].severity /\ t \in issues
      <4> DEFINE r == [event[t] EXCEPT !.issue = TRUE]
      <4>1. r \in EventRecord /\ r.severity = event[t].severity
        BY <1>2 DEF EventRecord
      <4>2. event' = [event EXCEPT ![t] = r]
        BY <2>3
      <4>3. t \in issues
        BY <1>0, <2>1 DEF Founded
      <4> QED
        BY <4>1, <4>2, <4>3
    <3>2. PICK c \in ResultTask : /\ task' = [task EXCEPT ![w] = c]
                                  /\ c.at = "persist" /\ c.thread = t /\ c # Resting
                                  /\ c.severity = task[w].severity
      BY <1>0, <1>1, <2>1, ResultMoved
    <3>3. event'[t] = row /\ row # NoEvent
      BY <1>0, <1>1, <3>1, RowIsThere DEF SupportTyped
    <3>4. c \in Tasks /\ Founded(c)'
      BY <1>0, <2>1, <3>2, <3>3 DEF Tasks, Founded
    <3> QED
      BY <1>0, <1>1, <2>1, <3>1, <3>2, <3>4, RowChanged
  <2> QED
    BY <1>3, <2>2, <2>3 DEF AttachLinearIssue
<1>4. ASSUME AttachClassification(w), GivenUp(w), UNCHANGED event PROVE SupportInv'
  BY <1>0, <1>1, <1>4, TaskEnds DEF AttachClassification, GivenUp
<1>5. ASSUME AttachClassification(w), CanSave(w), event' = [event EXCEPT ![t].severity = task[w].severity],
             Rests(w), UNCHANGED lost
      PROVE  SupportInv'
  <2>1. /\ task[w].at = "persist" /\ ~ending /\ task' = [task EXCEPT ![w] = Resting]
        /\ UNCHANGED <<channel, ending, thread, paged, reported, issues, lost>>
    BY <1>5 DEF AttachClassification, CanSave, Rests
  <2>2. PICK row \in EventRecord : /\ event' = [event EXCEPT ![t] = row]
                                   /\ row.severity = task[w].severity /\ row.issue = event[t].issue
    <3> DEFINE r == [event[t] EXCEPT !.severity = task[w].severity]
    <3>1. r \in EventRecord /\ r.severity = task[w].severity /\ r.issue = event[t].issue
      BY <1>1, <1>2 DEF EventRecord, ResultTask
    <3>2. event' = [event EXCEPT ![t] = r]
      BY <1>5
    <3> QED
      BY <3>1, <3>2
  <2>3. row.severity # "none" /\ (row.severity = "incident" => t \in paged \cup reported)
    BY <1>0, <1>1, <2>1, <2>2 DEF ResultTask, Founded
  <2>4. Resting \in Tasks /\ Founded(Resting)'
    BY DEF Tasks, Founded, Resting
  <2> QED
    BY <1>0, <1>1, <2>1, <2>2, <2>3, <2>4, RowChanged
<1> QED
  BY <1>3, <1>4, <1>5 DEF AttachClassification

-----------------------------------------------------------------------------
(* The environment, the end of the process, and the specification.          *)

\* A step that leaves rows, channel and tasks alone.
LEMMA Untouched ==
  ASSUME SupportInv, UNCHANGED <<event, channel, task, paged, reported, issues, lost>>,
         thread' \in [SupportThreads -> {"none", "calm", "alarming"}],
         ending' \in BOOLEAN, ending => ending'
  PROVE  SupportInv'
<1>1. SupportTyped'
  BY DEF SupportInv, SupportTyped
<1>2. UnderWay' = UnderWay
  BY DEF UnderWay
<1>3. EventsAccounted'
  BY <1>2 DEF SupportInv, EventsAccounted
<1>4. \A p \in Handlers \cup Workers : Founded(task[p])'
  BY DEF SupportInv, Founded
<1> QED
  BY <1>1, <1>3, <1>4 DEF SupportInv

LEMMA RestartKept ==
  ASSUME SupportInv, RestartSupport
  PROVE  SupportInv'
<1>0. SupportTyped /\ EventsAccounted
  BY DEF SupportInv
<1>1. SupportTyped'
  <2>1. Resting \in Tasks /\ channel' \in Seq(SupportThreads)
    BY DEF Tasks, RestartSupport
  <2> QED
    BY <1>0, <2>1 DEF RestartSupport, SupportTyped
<1>2. \A p \in Handlers \cup Workers : Founded(task[p])'
  BY DEF RestartSupport, Founded, Resting
<1>3. ToSet(channel') = {}
  BY DEF RestartSupport, ToSet
<1>4. EventsAccounted'
  BY <1>0 DEF RestartSupport, EventsAccounted
<1> QED
  BY <1>1, <1>2, <1>3, <1>4 DEF SupportInv

LEMMA SupportNextKept == SupportInv /\ [SupportNext]_supportVars => SupportInv'
<1> SUFFICES ASSUME SupportInv, [SupportNext]_supportVars PROVE SupportInv'
  OBVIOUS
<1>0. SupportTyped
  BY DEF SupportInv
<1>1. ASSUME NEW t \in SupportThreads, Write(t) PROVE SupportInv'
  <2>1. thread' \in [SupportThreads -> {"none", "calm", "alarming"}]
    BY <1>0, <1>1 DEF Write, SupportTyped
  <2> QED
    BY <1>0, <1>1, <2>1, Untouched DEF Write, SupportTyped
<1>2. ASSUME NEW h \in Handlers,
             \/ \E t \in SupportThreads : handleSupportWebhook(h, t) \/ handleSupportReport(h, t)
             \/ UpsertEventFromWebhook(h) \/ SqliteWriteEvent(h) \/ Push(h)
      PROVE  SupportInv'
  BY <1>2, RequestKept
<1>3. ASSUME NEW w \in Workers,
             \/ runWorker(w) \/ GetThread(w) \/ Complete(w) \/ SendSMS(w) \/ Backoff(w)
             \/ CreateIssue(w) \/ AttachLinearIssue(w) \/ AttachClassification(w)
      PROVE  SupportInv'
  BY <1>3, TakeKept, AnswerKept, PageKept, IssueKept, ResultKept
<1>4. CASE Shutdown
  BY <1>0, <1>4, Untouched DEF Shutdown, SupportTyped
<1>5. CASE RestartSupport
  BY <1>5, RestartKept
<1>6. CASE UNCHANGED supportVars
  BY <1>0, <1>6, Untouched DEF supportVars, SupportTyped
<1> QED
  BY <1>1, <1>2, <1>3, <1>4, <1>5, <1>6 DEF SupportNext

\* No support event disappears without a trace and no incident stays silent
\* (processEvent, sendWithRetry and the send that does not wait): a row without
\* a result is on its way or was given up with a log line, a recorded incident
\* was paged or reported, and an issue on a row is in Linear.
THEOREM EventsAreAccounted == SupportSpec => []EventsAccounted
<1>1. SupportInv => EventsAccounted
  BY DEF SupportInv
<1> QED
  BY SupportInitKept, SupportNextKept, <1>1, PTL DEF SupportSpec
=============================================================================
