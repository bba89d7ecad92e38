------------------------------ MODULE Missions ------------------------------
(***************************************************************************)
(* The missions of one user and the searches deployed for them              *)
(* (internal/api/missions.go, the deploying half of                         *)
(* internal/assistant/assistant.go, and the store's mission tables).        *)
(*                                                                         *)
(* A POST answers as soon as the row exists; a goroutine then asks a model  *)
(* for variants of the query, writes its copy of the mission back, and      *)
(* creates the searches, while the user edits, pauses or deletes the        *)
(* mission.  Every database call is a step of its own.                      *)
(*                                                                         *)
(* A mission's queries are "thin" (only the target) or "full" (three        *)
(* variants or more); a search is known by its mission and its key, which   *)
(* stands for a query on a marketplace.                                     *)
(***************************************************************************)
EXTENDS Naturals, FiniteSets, FiniteSetsExt

CONSTANTS
  Ids,          \* 1..n: bound on the missions ever created
  Requests,     \* requests being served at once
  PostKeys,     \* Idempotency-Key headers
  MaxMissions,  \* the tier's limit on active missions, 0 for none
  MaxSearches,  \* the tier's limit on searches, 0 for none
  Ttl,          \* lifetime of an idempotency entry (30 s)
  MaxEvents     \* bound: requests on missions that exist, failed database
                \* calls and restarts, all together

ASSUME IdsAssumption == Ids \subseteq Nat \ {0} /\ Requests \cap Ids = {}
ASSUME LimitsAssumption == {MaxMissions, MaxSearches, Ttl, MaxEvents} \subseteq Nat

VARIABLES
  mission,      \* shopping_profiles
  searches,     \* search_configs: how many there are of each mission and key
  doing,        \* what each request, and the goroutine of each mission, is at
  cache,        \* idempCache
  told,         \* history: the mission a key was last answered with, while fresh
  muddled,      \* history: missions whose deploys overlapped or failed
  crossed,      \* history: keys that two requests were posting at once
  events

missionVars == <<mission, searches, doing, cache, told, muddled, crossed, events>>

SearchKeys == {"target", "variant", "own"}
Never == [status |-> "never"]
Gone == [status |-> "gone"]
Idle == [at |-> "idle"]
NoEntry == [id |-> 0]

MissionsInit ==
  /\ mission = [m \in Ids |-> Never]
  /\ searches = [m \in Ids |-> [k \in SearchKeys |-> 0]]
  /\ doing = [w \in Requests \cup Ids |-> Idle]
  /\ cache = [k \in PostKeys |-> NoEntry] /\ told = [k \in PostKeys |-> NoEntry]
  /\ muddled = {} /\ crossed = {}
  /\ events = 0

Exists(m) == mission[m] \notin {Never, Gone}
HistoryKept == UNCHANGED <<told, muddled, crossed>>
MissionEvent == events < MaxEvents /\ events' = events + 1

\* Fault: the flag is left as it was.
RecordFlagged(status, queries) == [status |-> status, active |-> TRUE, queries |-> queries]
\* normalizeMissionForWrite: the active flag follows the status.
Record(status, queries) == [status |-> status, active |-> status = "active", queries |-> queries]

\* What a client may ask for; "paused" stands for "completed" too.
Statuses == {"active", "paused"}
Rows == {Record(status, queries) : status \in Statuses, queries \in {"thin", "full"}}

-----------------------------------------------------------------------------
(* The store.                                                               *)

\* Fault: "insert or replace".
UpdateOrInsert(m, row) == [mission EXCEPT ![m] = row]
\* UpsertMission of a mission with an id touches no row that is not there.
Updated(m, row) == [mission EXCEPT ![m] = IF Exists(m) THEN row ELSE @]

NextId == CHOOSE m \in Ids : mission[m] = Never /\ \A n \in Ids : n < m => mission[n] # Never
CanInsert == \E m \in Ids : mission[m] = Never

CountActiveMissions == Cardinality({m \in Ids : mission[m].status = "active"})
CountSearchConfigs == MapThenSumSet(LAMBDA p : searches[p[1]][p[2]], Ids \X SearchKeys)

\* Two of a kind stand for any number.
CreateSearchConfig(m, k) == [searches EXCEPT ![m][k] = IF @ < 2 THEN @ + 1 ELSE @]

Now(w, at) == doing' = [doing EXCEPT ![w].at = at]
Done(w) == doing' = [doing EXCEPT ![w] = Idle]

\* Those that have read m, or know that it is there, and are about to write.
Holders(m) == {w \in Requests \cup Ids :
  doing[w].at \in {"record", "expand", "persist", "deploy", "create", "search", "own"} /\ doing[w].id = m}

-----------------------------------------------------------------------------
(* POST /missions.                                                          *)

Fresh(entry) == entry # NoEntry /\ entry.age < Ttl
\* The idempotency gate comes before everything else.  (A POST without the
\* header is like one with a key that is used once.)
PostLookUp(r, k) ==
  /\ doing[r] = Idle
  /\ crossed' = crossed \cup {k2 \in {k} :
       \E s \in Requests : doing[s].at \in {"limits", "insert", "record"} /\ doing[s].key = k2}
  /\ IF Fresh(cache[k])
       THEN UNCHANGED doing
       ELSE doing' = [doing EXCEPT ![r] = [at |-> "limits", key |-> k]]
  /\ UNCHANGED <<mission, searches, cache, told, muddled, events>>

\* Over the limit: 402.
PostLimits(r) ==
  /\ doing[r].at = "limits"
  /\ IF MaxMissions > 0 /\ CountActiveMissions >= MaxMissions THEN Done(r) ELSE Now(r, "insert")
  /\ UNCHANGED <<mission, searches, cache, events>> /\ HistoryKept

\* The row first; a failure ends the request with 500.
PostInsert(r) ==
  /\ doing[r].at = "insert"
  /\ \/ /\ CanInsert
        /\ \E row \in Rows :
             /\ mission' = [mission EXCEPT ![NextId] = row]
             /\ doing' = [doing EXCEPT ![r] = [at |-> "record", key |-> @.key, row |-> row, id |-> NextId]]
        /\ UNCHANGED events
     \/ MissionEvent /\ Done(r) /\ UNCHANGED mission
  /\ UNCHANGED <<searches, cache>> /\ HistoryKept

\* Fault: an entry that is already there is kept.
RecordedOnce(k, m) == IF cache[k] = NoEntry THEN [cache EXCEPT ![k] = [id |-> m, age |-> 0]] ELSE cache
\* Expired entries go, the new one is written.
Recorded(k, m) == [c \in PostKeys |->
  IF c = k THEN [id |-> m, age |-> 0] ELSE IF Fresh(cache[c]) THEN cache[c] ELSE NoEntry]

\* Then the cache, the answer, and the goroutine of an active mission.
PostRecord(r) ==
  /\ doing[r].at = "record"
  /\ LET k == doing[r].key
         m == doing[r].id
     IN /\ cache' = Recorded(k, m)
        /\ told' = [told EXCEPT ![k] = [id |-> m, age |-> 0]]
        /\ doing' = [doing EXCEPT ![r] = Idle,
             ![m] = IF doing[r].row.active THEN [at |-> "expand", id |-> m, row |-> doing[r].row] ELSE @]
  /\ UNCHANGED <<mission, searches, muddled, crossed, events>>

-----------------------------------------------------------------------------
(* The goroutine: variants, the stale copy, the searches.                   *)

\* With three queries or more there is nothing to do; a model that fails may
\* still leave its static variants, or none.
EnsureSearchVariants(m) ==
  /\ doing[m].at = "expand"
  /\ \E queries \in {doing[m].row.queries, "full"} :
       doing' = [doing EXCEPT ![m] =
         [at |-> "persist", id |-> @.id, row |-> [@.row EXCEPT !.queries = queries]]]
  /\ UNCHANGED <<mission, searches, cache, events>> /\ HistoryKept

\* Its failure is only logged.
PersistVariants(m) ==
  /\ doing[m].at = "persist"
  /\ \/ mission' = Updated(m, doing[m].row) /\ UNCHANGED events
     \/ UNCHANGED mission /\ MissionEvent
  /\ Now(m, "deploy")
  /\ UNCHANGED <<searches, cache>> /\ HistoryKept

Planned(row) == IF row.queries = "full" THEN {"target", "variant"} ELSE {"target"}

\* Fault: the searches of any mission of the user count.
ExistingOfUser(m) == {k \in SearchKeys : \E n \in Ids : searches[n][k] > 0}
\* Fault: nothing is looked up.
ExistingUnread(m) == {k \in SearchKeys : searches[m][k] > 2}
ExistingKeys(m) == {k \in SearchKeys : searches[m][k] > 0}

\* AutoDeployHunts: one read; if it fails every query looks new ...
AutoDeployHunts(w) ==
  /\ doing[w].at = "deploy"
  /\ LET m == doing[w].id
         Todo(existing) == [at |-> "create", id |-> m, todo |-> Planned(doing[w].row) \ existing]
     IN \/ /\ doing' = [doing EXCEPT ![w] = Todo(ExistingKeys(m))]
           /\ muddled' = muddled \cup {n \in {m} : \E v \in Holders(m) \ {w} : doing[v].at = "create"}
           /\ UNCHANGED events
        \/ /\ doing' = [doing EXCEPT ![w] = Todo({})]
           /\ muddled' = muddled \cup {m}
           /\ MissionEvent
  /\ UNCHANGED <<mission, searches, cache, told, crossed>>

\* ... and then an insert for each new one; one that fails is passed over.
DeployHunt(w) ==
  /\ doing[w].at = "create"
  /\ \/ /\ doing[w].todo = {}
        /\ Done(w)
        /\ UNCHANGED <<searches, muddled, events>>
     \/ \E k \in doing[w].todo :
          /\ doing' = [doing EXCEPT ![w].todo = @ \ {k}]
          /\ \/ searches' = CreateSearchConfig(doing[w].id, k) /\ UNCHANGED <<events, muddled>>
             \/ MissionEvent /\ muddled' = muddled \cup {doing[w].id} /\ UNCHANGED searches
  /\ UNCHANGED <<mission, cache, told, crossed>>

-----------------------------------------------------------------------------
(* PUT, DELETE and PUT status of /missions/{id}; POST /searches.            *)

\* Each first reads the mission: 404 when it is gone.
handleMissionByID(r, m, at) ==
  /\ doing[r] = Idle /\ Exists(m)
  /\ MissionEvent
  /\ doing' = [doing EXCEPT ![r] = [at |-> at, id |-> m]]
  /\ UNCHANGED <<mission, searches, cache>> /\ HistoryKept

PutMission(r) ==
  /\ doing[r].at = "put"
  /\ \E row \in Rows : mission' = Updated(doing[r].id, row)
  /\ Now(r, "reread")
  /\ UNCHANGED <<searches, cache, events>> /\ HistoryKept

\* What it finds now is deployed, if active.
PutReread(r) ==
  /\ doing[r].at = "reread"
  /\ LET m == doing[r].id
     IN IF Exists(m) /\ mission[m].status = "active"
          THEN doing' = [doing EXCEPT ![r] = [at |-> "deploy", id |-> m, row |-> mission[m]]]
          ELSE Done(r)
  /\ UNCHANGED <<mission, searches, cache, events>> /\ HistoryKept

\* The status and the flag, and nothing else: no limit, no deploy.
UpdateMissionStatus(r) ==
  /\ doing[r].at = "status"
  /\ LET m == doing[r].id
     IN \E status \in Statuses :
          mission' = IF Exists(m) THEN [mission EXCEPT ![m] = Record(status, @.queries)] ELSE mission
  /\ Done(r)
  /\ UNCHANGED <<searches, cache, events>> /\ HistoryKept

NoSearches == [k \in SearchKeys |-> 0]

Emptied(m) == [searches EXCEPT ![m] = NoSearches]

\* One transaction: the mission, its searches, listings and shortlist entries.
DeleteMission(r) ==
  /\ doing[r].at = "delete"
  /\ LET m == doing[r].id
     IN IF Exists(m)
          THEN /\ mission' = [mission EXCEPT ![m] = Gone]
               /\ searches' = Emptied(m)
               /\ muddled' = muddled \cup {n \in {m} : Holders(m) # {}}
          ELSE UNCHANGED <<mission, searches, muddled>>
  /\ Done(r)
  /\ UNCHANGED <<cache, told, crossed, events>>

\* POST /searches for a mission: checked, counted, created.
handleSearches(r) ==
  /\ doing[r].at = "search"
  /\ IF MaxSearches > 0 /\ CountSearchConfigs >= MaxSearches THEN Done(r) ELSE Now(r, "own")
  /\ UNCHANGED <<mission, searches, cache, events>> /\ HistoryKept

CreateOwnSearch(r) ==
  /\ doing[r].at = "own"
  /\ searches' = CreateSearchConfig(doing[r].id, "own")
  /\ Done(r)
  /\ UNCHANGED <<mission, cache, events>> /\ HistoryKept

-----------------------------------------------------------------------------
(* Time, and the end of the process.                                        *)

Older(entry) == IF entry = NoEntry THEN entry ELSE [entry EXCEPT !.age = IF @ < Ttl THEN @ + 1 ELSE @]

Elapse ==
  /\ \E k \in PostKeys : Fresh(cache[k]) \/ Fresh(told[k])
  /\ cache' = [k \in PostKeys |-> Older(cache[k])]
  /\ told' = [k \in PostKeys |-> IF Fresh(Older(told[k])) THEN Older(told[k]) ELSE NoEntry]
  /\ UNCHANGED <<mission, searches, doing, muddled, crossed, events>>

\* What a mission with at least one search lacks, it gets before the server
\* listens again; a mission that had none yet is not found.
backfillMissionHunts == [m \in Ids |-> [k \in SearchKeys |->
  IF Exists(m) /\ searches[m] # NoSearches /\ k \in Planned(mission[m]) /\ searches[m][k] = 0
    THEN 1 ELSE searches[m][k]]]

\* Requests, goroutines and the cache are lost.
Restart ==
  /\ MissionEvent
  /\ doing' = [w \in Requests \cup Ids |-> Idle]
  /\ cache' = [k \in PostKeys |-> NoEntry] /\ told' = cache'
  /\ muddled' = muddled \cup {m \in Ids : Holders(m) # {}}
  /\ searches' = backfillMissionHunts
  /\ UNCHANGED <<mission, crossed>>

Goroutine(m) == EnsureSearchVariants(m) \/ PersistVariants(m) \/ AutoDeployHunts(m) \/ DeployHunt(m)

Serve(r) ==
  \/ PostLimits(r) \/ PostInsert(r) \/ PostRecord(r)
  \/ PutMission(r) \/ PutReread(r) \/ AutoDeployHunts(r) \/ DeployHunt(r)
  \/ UpdateMissionStatus(r) \/ DeleteMission(r) \/ handleSearches(r) \/ CreateOwnSearch(r)

MissionsNext ==
  \/ \E r \in Requests :
       \/ \E k \in PostKeys : PostLookUp(r, k)
       \/ \E m \in Ids, at \in {"put", "status", "delete", "search"} : handleMissionByID(r, m, at)
  \/ \E r \in Requests : Serve(r)
  \/ \E m \in Ids : Goroutine(m)
  \/ Elapse
  \/ Restart

\* A goroutine that was started runs to its end.
MissionsFairness == \A m \in Ids : WF_missionVars(Goroutine(m))

MissionsSpec == MissionsInit /\ [][MissionsNext]_missionVars /\ MissionsFairness

-----------------------------------------------------------------------------
(* Properties.                                                              *)

\* Types; the flag the queries look at agrees with the status; and what the
\* cache answers is a mission that was created.
MissionsTypeOK ==
  /\ mission \in [Ids -> [status : Statuses, active : BOOLEAN, queries : {"thin", "full"}]
                          \cup {Never, Gone}]
  /\ \A m \in Ids : Exists(m) => mission[m].active = (mission[m].status = "active")
  /\ searches \in [Ids -> [SearchKeys -> 0..2]]
  /\ \A w \in Requests \cup Ids :
       \/ doing[w] = Idle
       \/ doing[w].at \in {"limits", "insert"}
       \/ doing[w].id \in Ids /\ mission[doing[w].id] # Never
  /\ \A k \in PostKeys : cache[k] = NoEntry \/ mission[cache[k].id] # Never
  /\ muddled \subseteq Ids /\ crossed \subseteq PostKeys /\ events \in 0..MaxEvents

\* A client that retries a POST while its answer is fresh is answered the same
\* mission again and creates none, also when the first one used the limit up,
\* and no other answer to it comes in; unless it sent two at once.
RetryAnsweredAlike ==
  [][\A k \in PostKeys : Fresh(told[k]) /\ k \notin crossed' =>
       /\ Fresh(cache[k]) => cache[k].id = told[k].id
       /\ \A r \in Requests : doing[r] = Idle /\ doing'[r].at = "limits" => doing'[r].key # k
       /\ Fresh(told'[k]) => told'[k].id = told[k].id
    ]_missionVars

\* No copy of a mission that a goroutine or a request still holds brings it
\* back once the user deleted it.
DeletedStaysDeleted == [][\A m \in Ids : mission[m] = Gone => mission'[m] = Gone]_missionVars

\* A mission that is gone has left no search, and no search was deployed twice,
\* unless two operations on that mission overlapped or one failed: deploying
\* again, by an edit or by the backfill, adds only what is missing.
SearchesAccounted ==
  \A m \in Ids \ muddled :
    /\ ~Exists(m) => searches[m] = NoSearches
    /\ searches[m]["target"] < 2 /\ searches[m]["variant"] < 2

\* A mission posted as active gets its target searched, whatever other missions
\* of the user search for, if it is not deleted and nothing fails.
HuntsStart ==
  \A m \in Ids :
    doing[m].at = "expand" ~> (mission[m] = Gone \/ searches[m]["target"] > 0 \/ m \in muddled)

=============================================================================
