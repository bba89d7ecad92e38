------------------------------- MODULE Stores -------------------------------
(***************************************************************************)
(* The two implementations of store.Store side by side: every call a        *)
(* handler or a worker makes is made on both, from the same state of the    *)
(* program.  The tests of the repository run SQLite alone; production runs  *)
(* Postgres.                                                                *)
(***************************************************************************)
EXTENDS StoreTables

CONSTANTS Users,      \* not ""
          Items,      \* numbers, for their order
          Finds,      \* what a search finds: [item, text, price, market, score, offer, action, source]
          Samples,    \* <<query, model key, market, price>> of a price
          Enough,     \* samples an average needs
          SessionDrafts, \* what an assistant session holds
          MaxWrites   \* writes of a behaviour (bound)

\* The scorer always names an action; a stored draft is never an empty text.
ASSUME StoresAssumption ==
  /\ Blank \notin Users /\ Items \subseteq Nat /\ Enough \in Nat \ {0}
  /\ \A f \in Finds : f.item \in Items /\ f.score \in Nat /\ f.offer \in Nat /\ f.action # Blank
  /\ SessionDrafts \cap {Blank, "{}", "null"} = {}

VARIABLES sqlite, postgres,   \* the tables
          area,               \* which tables this behaviour writes
          now,                \* the time
          writes,             \* writes so far
          by,                 \* whose write was the last
          newcomers           \* users who are yet to set up a mission with a search
storesVars == <<sqlite, postgres, area, now, writes, by, newcomers>>

SQLite == INSTANCE SQLiteStore
Postgres == INSTANCE PostgresStore

StoresInit ==
  /\ area \in {"hunting", "shared"}
  /\ now = 0 /\ writes = 0 /\ by = CHOOSE u \in Users : TRUE
  /\ sqlite = EmptyDb /\ postgres = EmptyDb
  /\ newcomers = IF area = "hunting" THEN Users ELSE {}

\* Before anything else each user sets up a mission with a search.
SetUp(u) ==
  /\ u = CHOOSE v \in newcomers : TRUE
  /\ LET m == [id |-> 0, user |-> u, text |-> "old", status |-> "active", active |-> TRUE]
         s == [user |-> u, mission |-> sqlite.ids + 1, market |-> "vinted", enabled |-> TRUE, next |-> 0, text |-> "old"]
     IN /\ sqlite' = SQLite!CreateSearchConfig(SQLite!UpsertMission(sqlite, 0, m), 0, s)
        /\ postgres' = Postgres!CreateSearchConfig(Postgres!UpsertMission(postgres, 0, m), 0, s)
  /\ newcomers' = newcomers \ {u} /\ by' = u
  /\ UNCHANGED <<area, now, writes>>

Writes(where, bound, times, u, s, p) ==
  /\ area = where /\ newcomers = {} /\ writes < bound
  /\ sqlite' = s /\ postgres' = p
  /\ \E time \in times : now' = now + time
  /\ writes' = writes + 1 /\ by' = u
  /\ UNCHANGED <<area, newcomers>>
Wrote(where, u, s, p) == Writes(where, MaxWrites, {1}, u, s, p)

\* The rows the callers have read and found to be the user's.
MissionsOf(u) == {m \in sqlite.missions : m.user = u}
SearchesOf(u) == {s \in sqlite.searches : s.user = u}
Edited(s) == {[s EXCEPT !.enabled = ~@], [s EXCEPT !.market = "olxbg", !.next = now, !.text = "run"]}

-----------------------------------------------------------------------------
(* Missions and searches.                                                   *)

UpsertMission(u) ==
  \E id \in {0} \cup {m.id : m \in MissionsOf(u)}, status \in {"active", "paused"} :
    LET m == [id |-> id, user |-> u, text |-> "new", status |-> status, active |-> status = "active"]
    IN Wrote("hunting", u, SQLite!UpsertMission(sqlite, now, m), Postgres!UpsertMission(postgres, now, m))

UpdateMissionStatus(u) ==
  \E m \in MissionsOf(u), status \in {"active", "completed"} :
    Wrote("hunting", u, SQLite!UpdateMissionStatus(sqlite, now, m.id, status),
          Postgres!UpdateMissionStatus(postgres, now, m.id, status))

\* Of any mission: the statement itself looks whose it is.
DeleteMission(u) ==
  \E m \in sqlite.missions :
    Wrote("hunting", u, SQLite!DeleteMission(sqlite, m.id, u), Postgres!DeleteMission(postgres, m.id, u))

RecheckMission(u) ==
  \E m \in sqlite.missions :
    Wrote("hunting", u,
      SQLite!ResetMissionSearchSpecsNextRun(SQLite!SetMissionRecheck(sqlite, now, m.id, u), now, m.id, u),
      Postgres!ResetMissionSearchSpecsNextRun(Postgres!SetMissionRecheck(postgres, now, m.id, u), now, m.id, u))

CreateSearchConfig(u) ==
  \E m \in {r.id : r \in MissionsOf(u)} :
    LET s == [user |-> u, mission |-> m, market |-> "marktplaats", enabled |-> TRUE, next |-> 0, text |-> "new"]
    IN Wrote("hunting", u, SQLite!CreateSearchConfig(sqlite, now, s), Postgres!CreateSearchConfig(postgres, now, s))

\* PUT and DELETE /searches/:id name any search and the user.
UpdateSearchConfig(u) ==
  \E s \in sqlite.searches : \E e \in Edited([s EXCEPT !.user = u]) :
    Wrote("hunting", u, SQLite!UpdateSearchConfig(sqlite, now, e), Postgres!UpdateSearchConfig(postgres, now, e))
DeleteSearchConfig(u) ==
  \E s \in sqlite.searches :
    Wrote("hunting", u, SQLite!DeleteSearchConfig(sqlite, s.id, u), Postgres!DeleteSearchConfig(postgres, s.id, u))

\* The worker's, and the admin's, with the search of their task.
UpdateSearchRuntime(u) ==
  \E s \in SearchesOf(u) : \E e \in Edited(s) :
    Wrote("hunting", u, SQLite!UpdateSearchRuntime(sqlite, now, e), Postgres!UpdateSearchRuntime(postgres, now, e))
SetSearch(u) ==
  \E s \in SearchesOf(u) :
    \/ Wrote("hunting", u, SQLite!SetSearchEnabled(sqlite, now, s.id, ~s.enabled),
             Postgres!SetSearchEnabled(postgres, now, s.id, ~s.enabled))
    \/ Wrote("hunting", u, SQLite!SetSearchNextRunAt(sqlite, now, s.id, now + 1),
             Postgres!SetSearchNextRunAt(postgres, now, s.id, now + 1))

-----------------------------------------------------------------------------
(* Listings and the shortlist.                                              *)

\* A task saves for the mission of its search; a search may have none.
SaveListing(u) ==
  \E f \in Finds, m \in {0} \cup {r.id : r \in MissionsOf(u)} :
    LET l == [item |-> f.item, text |-> f.text, price |-> f.price, market |-> f.market, mission |-> m]
    IN Wrote("hunting", u, SQLite!SaveListing(sqlite, now, u, l, f.text, f), Postgres!SaveListing(postgres, now, u, l, f.text, f))

TouchListing(u) ==
  \E i \in Items : ~SQLite!IsNew(sqlite, u, i) /\
    Wrote("hunting", u, SQLite!TouchListing(sqlite, now, u, i), Postgres!TouchListing(postgres, now, u, i))
MarkOffered(u) ==
  \E i \in Items : ~SQLite!IsNew(sqlite, u, i) /\
    Wrote("hunting", u, SQLite!MarkOffered(sqlite, u, i), Postgres!MarkOffered(postgres, u, i))
SetListingFeedback(u) ==
  \E i \in Items, feedback \in {Blank, "approved", "dismissed"} :
    Wrote("hunting", u, SQLite!SetListingFeedback(sqlite, now, u, i, feedback),
          Postgres!SetListingFeedback(postgres, now, u, i, feedback))
UpdateOutreachStatus(u) ==
  \E i \in Items :
    Wrote("hunting", u, SQLite!UpdateOutreachStatus(sqlite, u, i, "won"), Postgres!UpdateOutreachStatus(postgres, u, i, "won"))

SaveShortlistEntry(u) ==
  \E i \in Items, m \in {r.id : r \in MissionsOf(u)}, status \in {"watching", "removed"} :
    LET e == [user |-> u, item |-> i, mission |-> m, status |-> status]
    IN Wrote("hunting", u, SQLite!SaveShortlistEntry(sqlite, e), Postgres!SaveShortlistEntry(postgres, e))

-----------------------------------------------------------------------------
(* Prices, scores, and the assistant's tables.                              *)

RecordPrice(u) ==
  \E p \in Samples : Wrote("shared", u, SQLite!RecordPrice(sqlite, now, p[1], p[2], p[3], p[4]),
                           Postgres!RecordPrice(postgres, now, p[1], p[2], p[3], p[4]))
SetAIScoreCache(u) ==
  \E key \in {Blank, "k"}, version \in {0, 1, 2} :
    Wrote("shared", u, SQLite!SetAIScoreCache(sqlite, key, now, version), Postgres!SetAIScoreCache(postgres, key, now, version))
Converse(u) ==
  \/ \E d \in SessionDrafts : Wrote("shared", u, SQLite!SaveAssistantSession(sqlite, u, now, d),
                             Postgres!SaveAssistantSession(postgres, u, now, d))
  \/ Wrote("shared", u, SQLite!ClearAssistantSession(sqlite, u), Postgres!ClearAssistantSession(postgres, u))
  \/ Wrote("shared", u, SQLite!SaveConversationArtifact(sqlite, u, now), Postgres!SaveConversationArtifact(postgres, u, now))
SaveActionDraft(u) ==
  \E i \in Items : Wrote("shared", u, SQLite!SaveActionDraft(sqlite, u, i), Postgres!SaveActionDraft(postgres, u, i))

StoresNext ==
  \/ \E u \in newcomers : SetUp(u)
  \/ \E u \in Users :
       \/ UpsertMission(u) \/ UpdateMissionStatus(u) \/ DeleteMission(u) \/ RecheckMission(u)
       \/ CreateSearchConfig(u) \/ UpdateSearchConfig(u) \/ DeleteSearchConfig(u) \/ UpdateSearchRuntime(u) \/ SetSearch(u)
       \/ SaveListing(u) \/ TouchListing(u) \/ MarkOffered(u) \/ SetListingFeedback(u) \/ UpdateOutreachStatus(u)
       \/ SaveShortlistEntry(u)
       \/ RecordPrice(u) \/ SetAIScoreCache(u) \/ Converse(u) \/ SaveActionDraft(u)

StoresSpec == StoresInit /\ [][StoresNext]_storesVars

-----------------------------------------------------------------------------
(* What the program reads.                                                  *)

Sorts == {"newest", "score", "price_asc", "price_desc"}
Filters(sort) == {[market |-> m, score |-> s, sort |-> sort] : m \in {Blank, "olxbg"}, s \in {0, 2}}

SQLiteReads(u) == [
  listings |-> {<<SQLite!GetListing(sqlite, u, i), SQLite!IsNew(sqlite, u, i), SQLite!GetListingScore(sqlite, u, i),
                  SQLite!GetListingScoringState(sqlite, u, i), SQLite!WasOffered(sqlite, u, i),
                  SQLite!GetShortlistEntry(sqlite, u, i)>> : i \in Items},
  lists |-> <<SQLite!ListRecentListings(sqlite, u, 0), SQLite!GetApprovedComparables(sqlite, u, 0),
              {SQLite!GetComparableDeals(sqlite, u, f.text, f.item) : f \in Finds}, SQLite!GetShortlist(sqlite, u)>>,
  missions |-> SQLite!ListMissions(sqlite, u),
  searches |-> <<SQLite!GetSearchConfigs(sqlite, u), SQLite!CountSearchConfigs(sqlite, u),
                 SQLite!CountActiveMissions(sqlite, u)>>,
  assistant |-> <<SQLite!GetAssistantSession(sqlite, u), SQLite!ListActionDrafts(sqlite, u)>>]

PostgresReads(u) == [
  listings |-> {<<Postgres!GetListing(postgres, u, i), Postgres!IsNew(postgres, u, i), Postgres!GetListingScore(postgres, u, i),
                  Postgres!GetListingScoringState(postgres, u, i), Postgres!WasOffered(postgres, u, i),
                  Postgres!GetShortlistEntry(postgres, u, i)>> : i \in Items},
  lists |-> <<Postgres!ListRecentListings(postgres, u, 0), Postgres!GetApprovedComparables(postgres, u, 0),
              {Postgres!GetComparableDeals(postgres, u, f.text, f.item) : f \in Finds}, Postgres!GetShortlist(postgres, u)>>,
  missions |-> Postgres!ListMissions(postgres, u),
  searches |-> <<Postgres!GetSearchConfigs(postgres, u), Postgres!CountSearchConfigs(postgres, u),
                 Postgres!CountActiveMissions(postgres, u)>>,
  assistant |-> <<Postgres!GetAssistantSession(postgres, u), Postgres!ListActionDrafts(postgres, u)>>]

\* Without next_run_at: a recheck moves it in Postgres alone.
Unscheduled(searches) == {[s EXCEPT !.next = 0] : s \in searches}
AlikeReads(reads) == [reads EXCEPT !.searches[1] = Unscheduled(@)]

-----------------------------------------------------------------------------
(* Properties.                                                              *)

\* A row per key: what the unique columns of the schema and the conflict
\* clauses of the writes are to keep in both stores.
OnePerKey(table, Key(_)) == \A r, s \in table : Key(r) = Key(s) => r = s
KeysOf(db) ==
  /\ OnePerKey(db.listings, LAMBDA r : r.item)
  /\ OnePerKey(db.shortlist, LAMBDA r : <<r.user, r.item>>)
  /\ OnePerKey(db.sessions, LAMBDA r : r.user)
  /\ OnePerKey(db.scores, LAMBDA r : r.key)
  /\ OnePerKey(db.users, LAMBDA r : r.id) /\ OnePerKey(db.users, LAMBDA r : r.email)
  /\ OnePerKey(db.identities, LAMBDA r : <<r.provider, r.subject>>)
  /\ OnePerKey(db.identities, LAMBDA r : <<r.provider, r.user>>)
  /\ OnePerKey(db.webhooks, LAMBDA r : r.event) /\ OnePerKey(db.mutations, LAMBDA r : r.key)
  /\ OnePerKey(db.snapshots, LAMBDA r : r.sub) /\ OnePerKey(db.invoices, LAMBDA r : r.invoice)
  /\ \A table \in {"missions", "searches", "prices", "drafts", "artifacts", "usage", "runs", "history", "reconciles"} :
       OnePerKey(db[table], LAMBDA r : r.id)

\* Type invariant: every row has its key to itself, belongs to a user, and a
\* mission's flag and status agree, through every call a handler or the worker
\* makes.
StoresTypeOK ==
  /\ KeysOf(sqlite) /\ KeysOf(postgres)
  /\ \A db \in {sqlite, postgres} :
       /\ \A m \in db.missions : m.user \in Users /\ m.active = (m.status = "active")
       /\ \A l \in db.listings : l.item \in Users \X Items /\ (l.judged > 0 => l.feedback # Blank)

\* No two of the listings a user is shown were seen in one second of SQLite's.
SeenApart(u) == \A l, k \in SQLite!Shown(sqlite, u, 0) : l.seen = k.seen => l = k

\* The stores agree: after the same calls each answers the queries of the
\* program alike, an answer in the order of a time being taken as the set of
\* its rows.  Three exceptions: SQLite keeps no recheck (GetMissionLastRecheck
\* and next_run_at); where its seconds tie, Postgres' active mission and market
\* average are among those it may give; and the pages in the default order, the
\* newest first, are the same only if no two listings were seen in one second
\* (SQLite then goes by the item, Postgres by the time within the second).
\* The number of listings the pages tell of is always the same.
StoresAgree ==
  /\ \A u \in Users :
       /\ AlikeReads(SQLiteReads(u)) = AlikeReads(PostgresReads(u))
       /\ Postgres!GetActiveMission(postgres, u) \subseteq SQLite!GetActiveMission(sqlite, u)
       /\ (SQLite!GetActiveMission(sqlite, u) = {}) = (Postgres!GetActiveMission(postgres, u) = {})
       /\ \A sort \in Sorts : \A f \in Filters(sort), page \in 0..1 :
            LET one == SQLite!ListRecentListingsPaginated(sqlite, u, 1, page, 0, f)
                other == Postgres!ListRecentListingsPaginated(postgres, u, 1, page, 0, f)
            IN one.total = other.total /\ (sort # "newest" \/ SeenApart(u) => one.page = other.page)
  /\ \A id \in 1..sqlite.ids :
       /\ SQLite!GetMission(sqlite, id) = Postgres!GetMission(postgres, id)
       /\ Unscheduled(SQLite!GetSearchConfigByID(sqlite, id)) = Unscheduled(Postgres!GetSearchConfigByID(postgres, id))
  /\ Unscheduled(SQLite!GetAllEnabledSearchConfigs(sqlite)) = Unscheduled(Postgres!GetAllEnabledSearchConfigs(postgres))
  /\ \A v \in 0..2 : SQLite!GetAIScoreCache(sqlite, "k", v) = Postgres!GetAIScoreCache(postgres, "k", v)
  /\ \A p \in Samples : SQLite!GetPriceHistory(sqlite, p[1]) = Postgres!GetPriceHistory(postgres, p[1])
  /\ \A p \in Samples :
       LET one == SQLite!GetMarketAverage(sqlite, p[1], p[2], p[3], Enough)
           other == Postgres!GetMarketAverage(postgres, p[1], p[2], p[3], Enough)
       IN other \subseteq one /\ (one = {}) = (other = {})

\* Users are apart: whatever a user does, and whatever ids the requests name,
\* no row of another user changes, in either store.
RowsOf(db, u) == [
  owned |-> [table \in {"missions", "searches", "shortlist", "sessions", "drafts", "artifacts"} |->
              {r \in db[table] : r.user = u}],
  listings |-> {l \in db.listings : OfUser(l, u)}]
UsersApart ==
  [][\A u \in Users \ {by'} : RowsOf(sqlite, u)' = RowsOf(sqlite, u) /\ RowsOf(postgres, u)' = RowsOf(postgres, u)]_storesVars

\* The user's own words outlive the worker: a listing found again, at another
\* price or score, keeps its title, its query, its feedback, its outreach and
\* that it was offered.
UserSide(l) == <<l.text, l.query, l.feedback, l.judged, l.outreach, l.offered>>
UserChoicesKept ==
  [][\A l \in sqlite.listings : \A k \in {r \in sqlite'.listings : r.item = l.item} :
       <<k.price, k.score>> # <<l.price, l.score>> => UserSide(k) = UserSide(l)]_storesVars

\* A deleted mission leaves no search, listing or shortlist entry of its owner
\* behind, and takes nothing of another mission along, in either store
\* (DeleteMission's four statements).
Emptied(db, after) ==
  \A m \in db.missions : (\A r \in after.missions : r.id # m.id) =>
    /\ \A s \in after.searches : ~(s.mission = m.id /\ s.user = m.user)
    /\ \A l \in after.listings : ~(l.mission = m.id /\ OfUser(l, m.user))
    /\ \A e \in after.shortlist : ~(e.mission = m.id /\ e.user = m.user)
    /\ \A table \in {"searches", "listings", "shortlist"} :
         \A r \in db[table] : r.mission # m.id => r \in after[table]
DeletedMissionEmptied == [][Emptied(sqlite, sqlite') /\ Emptied(postgres, postgres')]_storesVars

\* A reader who turns the pages sees each listing once: in every sort the
\* order is total, and listings whose offer price is unknown come last in the
\* price sorts.
PagesCover ==
  \A u \in Users : \A l, k \in SQLite!Shown(sqlite, u, 0) : l # k =>
    /\ \A sort \in Sorts : SQLite!sqliteOrderBy(sort, l, k) # SQLite!sqliteOrderBy(sort, k, l)
    /\ l.offer > 0 /\ k.offer = 0 =>
         \A sort \in {"price_asc", "price_desc"} : SQLite!sqliteOrderBy(sort, l, k)
=============================================================================
