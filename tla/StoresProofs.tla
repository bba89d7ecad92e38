--------------------------- MODULE StoresProofs ----------------------------
(***************************************************************************)
(* Proofs about Stores and Books: for any users, items, finds, emails,      *)
(* subscriptions, invoices and number of calls the SQLite and the Postgres  *)
(* store stay a pair, row by row.  What TLC checks of their keys, pages and *)
(* steps follows from that.  Each call of store.Store has two lemmas: what it *)
(* writes in either store (..Writes), and that it moves the pair to a pair  *)
(* (..Moves); each action of the model has one (..Takes).                   *)
(***************************************************************************)
EXTENDS Books, NatSets

-----------------------------------------------------------------------------
(* Names the two instances have in common.                                  *)

LEMMA Blanks == SQLite!Blank = Blank /\ Postgres!Blank = Blank
  BY Zenon DEF SQLite!Blank, Postgres!Blank, Blank

LEMMA Texts == Blank \notin {"active", "paused", "completed", "approved", "dismissed", "none", "ask_seller"}
  BY Zenon DEF Blank

LEMMA Scoped ==
  ASSUME NEW u \in Users, NEW i
  PROVE  /\ scopedItemID(u, i) = <<u, i>>
         /\ SQLite!scopedItemID(u, i) = <<u, i>> /\ Postgres!scopedItemID(u, i) = <<u, i>>
<1>1. u # Blank
  BY StoresAssumption
<1> QED
  BY <1>1, Blanks, Zenon DEF scopedItemID, SQLite!scopedItemID, Postgres!scopedItemID

LEMMA OwnedBy ==
  ASSUME NEW u \in Users, NEW l
  PROVE  /\ OfUser(l, u) <=> l.item[1] = u
         /\ SQLite!OfUser(l, u) <=> l.item[1] = u
         /\ Postgres!OfUser(l, u) <=> l.item[1] = u
<1>1. scopedItemID(u, Blank)[1] = u /\ SQLite!scopedItemID(u, SQLite!Blank)[1] = u
      /\ Postgres!scopedItemID(u, Postgres!Blank)[1] = u
  BY Scoped
<1> QED
  BY <1>1, Zenon DEF OfUser, SQLite!OfUser, Postgres!OfUser

-----------------------------------------------------------------------------
(* Rows.                                                                    *)

\* Rows with generated ids: an id is used once, and none is ahead of the counter.
Keyed(T, n) == (\A r \in T : r.id \in 1..n) /\ \A r, s \in T : r.id = s.id => r = s

\* Whatever u does, the rows of the others stay.
Apart(T, T2, u) == \A v \in Users \ {u} : {r \in T2 : r.user = v} = {r \in T : r.user = v}

MissionFields == {"id", "user", "text", "status", "active", "recheck", "at"}
MissionRow(r) ==
  /\ MissionFields \subseteq DOMAIN r /\ r.user \in Users /\ r.at \in Nat /\ r.active = (r.status = "active")
MissionsOK(T, n) == IsFiniteSet(T) /\ Keyed(T, n) /\ \A r \in T : MissionRow(r)

SearchFields == {"id", "user", "mission", "market", "enabled", "next", "text", "at"}
SearchesOK(T, n) == IsFiniteSet(T) /\ Keyed(T, n) /\ \A r \in T : SearchFields \subseteq DOMAIN r

ListingFields == {"item", "text", "query", "mission", "price", "market", "score", "offer", "action", "source",
                  "offered", "feedback", "judged", "outreach", "seen"}
ListingRow(r) ==
  /\ ListingFields \subseteq DOMAIN r /\ r.item \in Users \X Items
  /\ r.score \in Nat /\ r.offer \in Nat /\ r.judged \in Nat /\ r.seen \in Nat
  /\ r.judged > 0 => r.feedback # Blank
ListingsOK(T) == IsFiniteSet(T) /\ OnePerKey(T, LAMBDA r : r.item) /\ \A r \in T : ListingRow(r)

\* A row per key, and each row a record of the fields.
ShortlistOK(T) == OnePerKey(T, LAMBDA r : <<r.user, r.item>>)

LEMMA KeyedGrows ==
  ASSUME NEW T, NEW n \in Nat, NEW m \in Nat, n <= m, Keyed(T, n)
  PROVE  Keyed(T, m)
  BY DEF Keyed

\* The table when every row is replaced by its image.
ImageOf(T, T2, h) == (\A r \in T : h[r] \in T2) /\ \A q \in T2 : \E r \in T : q = h[r]

\* Rows that keep their ids keep the table keyed; rows of u alone change.
LEMMA Rewritten ==
  ASSUME NEW T, NEW T2, NEW h, ImageOf(T, T2, h), NEW n \in Nat, NEW u, Keyed(T, n),
         \A r \in T : h[r] = r \/ (h[r].id = r.id /\ r.user = u /\ h[r].user = u)
  PROVE  /\ Keyed(T2, n) /\ Apart(T, T2, u)
         /\ \A r \in T : \E q \in T2 : q.id = r.id
         /\ IsFiniteSet(T) => IsFiniteSet(T2)
<1>1. \A r \in T : h[r].id = r.id /\ h[r] \in T2
  BY DEF ImageOf
<1>2. Keyed(T2, n)
  BY <1>1 DEF Keyed, ImageOf
<1>3. Apart(T, T2, u)
  <2> SUFFICES ASSUME NEW v \in Users \ {u} PROVE {r \in T2 : r.user = v} = {r \in T : r.user = v}
    BY DEF Apart
  <2>1. \A r \in T : r.user = v => h[r] = r
    OBVIOUS
  <2>2. \A r \in T : h[r].user = v => h[r] = r
    OBVIOUS
  <2> QED
    BY <2>1, <2>2 DEF ImageOf
<1>4. \A r \in T : \E q \in T2 : q.id = r.id
  BY <1>1
<1>5. IsFiniteSet(T) => IsFiniteSet(T2)
  <2>1. [r \in T |-> h[r]] \in Surjection(T, T2)
    BY DEF Surjection, ImageOf
  <2> QED
    BY <2>1, FS_Surjection
<1> QED
  BY <1>2, <1>3, <1>4, <1>5

\* A row with the next id.
LEMMA Inserted ==
  ASSUME NEW T, NEW n \in Nat, Keyed(T, n), NEW row, row.id = n + 1, NEW u, row.user = u
  PROVE  LET T2 == T \cup {row}
         IN /\ Keyed(T2, n + 1) /\ Apart(T, T2, u)
            /\ \A r \in T : \E q \in T2 : q.id = r.id
            /\ IsFiniteSet(T) => IsFiniteSet(T2)
<1>1. \A r \in T : r.id \in 1..n /\ r.id # n + 1
  BY DEF Keyed
<1>2. Keyed(T \cup {row}, n + 1)
  BY <1>1 DEF Keyed
<1>3. Apart(T, T \cup {row}, u)
  BY DEF Apart
<1>4. IsFiniteSet(T) => IsFiniteSet(T \cup {row})
  BY FS_AddElement
<1> QED
  BY <1>2, <1>3, <1>4

\* Fewer rows, and only rows of u gone.
LEMMA Removed ==
  ASSUME NEW T, NEW n \in Nat, NEW T2, T2 \subseteq T, NEW u, \A r \in T \ T2 : r.user = u
  PROVE  /\ Keyed(T, n) => Keyed(T2, n)
         /\ Apart(T, T2, u)
         /\ IsFiniteSet(T) => IsFiniteSet(T2)
<1>1. Keyed(T, n) => Keyed(T2, n)
  BY DEF Keyed
<1>2. Apart(T, T2, u)
  BY DEF Apart
<1>3. IsFiniteSet(T) => IsFiniteSet(T2)
  BY FS_Subset
<1> QED
  BY <1>1, <1>2, <1>3
-----------------------------------------------------------------------------
(* What the calls do to the tables, in either store.                        *)

Tables == {"listings", "prices", "missions", "shortlist", "artifacts", "sessions", "drafts", "users", "searches",
           "events", "processed", "identities", "runs", "audit", "webhooks", "snapshots", "history", "invoices",
           "mutations", "reconciles", "scores", "usage"}
Schema(db) == Tables \cup {"ids"} \subseteq DOMAIN db /\ db.ids \in Nat

\* Only the table differs between db and d; Adding also moves the counter.
Writing1(db, d, table) == DOMAIN d = DOMAIN db /\ \A k \in DOMAIN db : k # table => d[k] = db[k]
Adding(db, d, table) ==
  /\ DOMAIN d = DOMAIN db /\ \A k \in DOMAIN db : k \notin {table, "ids"} => d[k] = db[k]
  /\ d.ids = db.ids + 1

MissionsEdited(T, id, c, t) ==
  {IF r.id = id THEN [r EXCEPT !.text = c.text, !.status = c.status, !.active = c.active, !.at = t] ELSE r : r \in T}
NewMission(id, user, c, t) ==
  [id |-> id, user |-> user, text |-> c.text, status |-> c.status, active |-> c.active, recheck |-> 0, at |-> t]
StatusEdited(T, id, status, t) ==
  {IF r.id = id THEN [r EXCEPT !.status = status, !.active = (status = "active"), !.at = t] ELSE r : r \in T}

LEMMA Writes1 ==
  ASSUME NEW db, Schema(db), NEW table \in Tables, NEW T
  PROVE  Writing1(db, [db EXCEPT ![table] = T], table) /\ [db EXCEPT ![table] = T][table] = T
  BY DEF Schema, Writing1

LEMMA SearchesWritten ==
  ASSUME NEW db, Schema(db), NEW T, NEW d, d = [db EXCEPT !.searches = T]
  PROVE  Writing1(db, d, "searches") /\ d.searches = T
  BY DEF Schema, Tables, Writing1

LEMMA ListingsWritten ==
  ASSUME NEW db, Schema(db), NEW T, NEW d, d = [db EXCEPT !.listings = T]
  PROVE  Writing1(db, d, "listings") /\ d.listings = T
  BY DEF Schema, Tables, Writing1

LEMMA Appends ==
  ASSUME NEW db, Schema(db), NEW table \in Tables, NEW row,
         NEW d \in {SQLite!Appended(db, table, row), Postgres!Appended(db, table, row)}
  PROVE  Adding(db, d, table) /\ d[table] = db[table] \cup {[row EXCEPT !.id = db.ids + 1]}
<1>1. table # "ids"
  BY DEF Tables
<1> QED
  BY <1>1 DEF Schema, Adding, SQLite!Appended, Postgres!Appended

LEMMA UpsertMissionWrites ==
  ASSUME NEW db, Schema(db), NEW t, NEW m, m.status # Blank
  PROVE  LET s == SQLite!UpsertMission(db, t, m)
             p == Postgres!UpsertMission(db, t, m)
         IN /\ m.id > 0 => /\ Writing1(db, s, "missions") /\ s.missions = MissionsEdited(db.missions, m.id, m, t \div 2)
                           /\ Writing1(db, p, "missions") /\ p.missions = MissionsEdited(db.missions, m.id, m, t)
            /\ ~(m.id > 0) =>
                 /\ Adding(db, s, "missions") /\ s.missions = db.missions \cup {NewMission(db.ids + 1, m.user, m, t \div 2)}
                 /\ Adding(db, p, "missions") /\ p.missions = db.missions \cup {NewMission(db.ids + 1, m.user, m, t)}
<1>1. /\ SQLite!MissionColumns(m) = [text |-> m.text, status |-> m.status, active |-> m.active]
      /\ Postgres!MissionColumns(m) = [text |-> m.text, status |-> m.status, active |-> m.active]
  BY Blanks, Zenon DEF SQLite!MissionColumns, Postgres!MissionColumns
<1>2. CASE m.id > 0
  <2> DEFINE c == [text |-> m.text, status |-> m.status, active |-> m.active]
  <2>1. c.text = m.text /\ c.status = m.status /\ c.active = m.active
    OBVIOUS
  <2> HIDE DEF c
  <2>2. \A n : MissionsEdited(db.missions, m.id, c, n) = MissionsEdited(db.missions, m.id, m, n)
    BY <2>1 DEF MissionsEdited
  <2>3. SQLite!UpsertMission(db, t, m) = [db EXCEPT !.missions = MissionsEdited(db.missions, m.id, c, t \div 2)]
    BY <1>1, <1>2, Zenon DEF MissionsEdited, SQLite!UpsertMission, SQLite!Changed, SQLite!Stamp, c
  <2>4. Postgres!UpsertMission(db, t, m) = [db EXCEPT !.missions = MissionsEdited(db.missions, m.id, c, t)]
    BY <1>1, <1>2, Zenon DEF MissionsEdited, Postgres!UpsertMission, Postgres!Changed, Postgres!Stamp, c
  <2> HIDE DEF MissionsEdited
  <2> QED
    BY <1>2, <2>2, <2>3, <2>4 DEF Schema, Tables, Writing1
<1>3. CASE ~(m.id > 0)
  <2> DEFINE row(n) == [id |-> 0, user |-> m.user, text |-> m.text, status |-> m.status, active |-> m.active, recheck |-> 0, at |-> n]
  <2>1. \A n : [row(n) EXCEPT !.id = db.ids + 1] = NewMission(db.ids + 1, m.user, m, n)
    BY DEF NewMission
  <2>2. SQLite!UpsertMission(db, t, m) = SQLite!Appended(db, "missions", row(t \div 2))
    BY <1>1, <1>3 DEF SQLite!UpsertMission, SQLite!Stamp
  <2>3. Postgres!UpsertMission(db, t, m) = Postgres!Appended(db, "missions", row(t))
    BY <1>1, <1>3 DEF Postgres!UpsertMission, Postgres!Stamp
  <2>4. "missions" \in Tables
    BY DEF Tables
  <2> HIDE DEF row
  <2>5. /\ Adding(db, SQLite!Appended(db, "missions", row(t \div 2)), "missions")
        /\ SQLite!Appended(db, "missions", row(t \div 2))["missions"] = db["missions"] \cup {[row(t \div 2) EXCEPT !.id = db.ids + 1]}
    BY <2>4, Appends
  <2>6. /\ Adding(db, Postgres!Appended(db, "missions", row(t)), "missions")
        /\ Postgres!Appended(db, "missions", row(t))["missions"] = db["missions"] \cup {[row(t) EXCEPT !.id = db.ids + 1]}
    BY <2>4, Appends
  <2> QED
    BY <1>3, <2>1, <2>2, <2>3, <2>5, <2>6
<1> QED
  BY <1>2, <1>3

LEMMA UpdateMissionStatusWrites ==
  ASSUME NEW db, Schema(db), NEW t, NEW id, NEW status \in {"active", "paused", "completed"}
  PROVE  LET s == SQLite!UpdateMissionStatus(db, t, id, status)
             p == Postgres!UpdateMissionStatus(db, t, id, status)
         IN /\ Writing1(db, s, "missions") /\ s.missions = StatusEdited(db.missions, id, status, t \div 2)
            /\ Writing1(db, p, "missions") /\ p.missions = StatusEdited(db.missions, id, status, t)
  BY DEF Schema, Tables, Writing1, StatusEdited, SQLite!UpdateMissionStatus, Postgres!UpdateMissionStatus,
    SQLite!Changed, Postgres!Changed, SQLite!Stamp, Postgres!Stamp

\* The tables of db that lose rows to a deleted mission.
LEMMA DeleteMissionWrites ==
  ASSUME NEW db, Schema(db), NEW id, NEW u \in Users, NEW d \in {SQLite!DeleteMission(db, id, u), Postgres!DeleteMission(db, id, u)}
  PROVE  \/ d = db /\ ~\E m \in db.missions : m.id = id /\ m.user = u
         \/ /\ \E m \in db.missions : m.id = id /\ m.user = u
            /\ DOMAIN d = DOMAIN db
            /\ \A k \in DOMAIN db : k \notin {"missions", "searches", "listings", "shortlist"} => d[k] = db[k]
            /\ d.missions = {m \in db.missions : m.id # id}
            /\ d.searches = {s \in db.searches : ~(s.mission = id /\ s.user = u)}
            /\ d.listings = {l \in db.listings : ~(l.mission = id /\ l.item[1] = u)}
            /\ d.shortlist = {e \in db.shortlist : ~(e.mission = id /\ e.user = u)}
<1>1. CASE ~\E m \in db.missions : m.id = id /\ m.user = u
  BY <1>1 DEF SQLite!DeleteMission, Postgres!DeleteMission
<1>2. CASE \E m \in db.missions : m.id = id /\ m.user = u
  <2> DEFINE M == {m \in db.missions : m.id # id}
             S == {s \in db.searches : ~(s.mission = id /\ s.user = u)}
             L == {l \in db.listings : ~(l.mission = id /\ l.item[1] = u)}
             E == {e \in db.shortlist : ~(e.mission = id /\ e.user = u)}
  <2>1. /\ \A l : SQLite!OfUser(l, u) <=> l.item[1] = u
        /\ \A l : Postgres!OfUser(l, u) <=> l.item[1] = u
    BY OwnedBy
  <2>2. /\ {l \in db.listings : ~(l.mission = id /\ SQLite!OfUser(l, u))} = L
        /\ {l \in db.listings : ~(l.mission = id /\ Postgres!OfUser(l, u))} = L
    BY <2>1
  <2>3. d = [db EXCEPT !.missions = M, !.searches = S, !.listings = L, !.shortlist = E]
    BY <1>2, <2>2 DEF SQLite!DeleteMission, Postgres!DeleteMission
  <2> HIDE DEF M, S, L, E
  <2>4. /\ DOMAIN d = DOMAIN db
        /\ \A k \in DOMAIN db : k \notin {"missions", "searches", "listings", "shortlist"} => d[k] = db[k]
        /\ d.missions = M /\ d.searches = S /\ d.listings = L /\ d.shortlist = E
    BY <2>3 DEF Schema, Tables
  <2> QED
    BY <1>2, <2>4 DEF M, S, L, E
<1> QED
  BY <1>1, <1>2

LEMMA RecheckWrites ==
  ASSUME NEW db, Schema(db), NEW t, NEW id, NEW u
  PROVE  LET s == SQLite!ResetMissionSearchSpecsNextRun(SQLite!SetMissionRecheck(db, t, id, u), t, id, u)
             p == Postgres!ResetMissionSearchSpecsNextRun(Postgres!SetMissionRecheck(db, t, id, u), t, id, u)
         IN /\ s = db
            /\ DOMAIN p = DOMAIN db /\ \A k \in DOMAIN db : k \notin {"missions", "searches"} => p[k] = db[k]
            /\ p.missions = {IF r.id = id /\ r.user = u THEN [r EXCEPT !.recheck = t] ELSE r : r \in db.missions}
            /\ p.searches = {IF r.mission = id /\ r.user = u THEN [r EXCEPT !.next = t] ELSE r : r \in db.searches}
  BY DEF Schema, Tables, SQLite!ResetMissionSearchSpecsNextRun, SQLite!SetMissionRecheck,
    Postgres!ResetMissionSearchSpecsNextRun, Postgres!SetMissionRecheck, Postgres!Changed, Postgres!Stamp
-----------------------------------------------------------------------------
(* Searches.                                                                *)

NewSearch(id, s, t) ==
  [id |-> id, user |-> s.user, mission |-> s.mission, market |-> SQLite!NormalizedMarket(s.market),
   enabled |-> s.enabled, next |-> s.next, text |-> s.text, at |-> t]
SearchEdited(T, s, t) ==
  {IF r.id = s.id /\ r.user = s.user
     THEN [r EXCEPT !.mission = s.mission, !.market = SQLite!NormalizedMarket(s.market), !.enabled = s.enabled,
                    !.next = s.next, !.text = s.text, !.at = t]
     ELSE r : r \in T}
RuntimeEdited(T, s, t) == {IF r.id = s.id THEN [r EXCEPT !.next = s.next, !.text = s.text, !.at = t] ELSE r : r \in T}
EnabledEdited(T, id, enabled, t) == {IF r.id = id THEN [r EXCEPT !.enabled = enabled, !.at = t] ELSE r : r \in T}
NextEdited(T, id, next, t) == {IF r.id = id THEN [r EXCEPT !.next = next, !.at = t] ELSE r : r \in T}

LEMMA Markets == \A m : Postgres!NormalizedMarket(m) = SQLite!NormalizedMarket(m)
  BY DEF Postgres!NormalizedMarket, SQLite!NormalizedMarket

LEMMA CreateSearchConfigWrites ==
  ASSUME NEW db, Schema(db), NEW t, NEW s
  PROVE  LET d == SQLite!CreateSearchConfig(db, t, s)
             p == Postgres!CreateSearchConfig(db, t, s)
         IN /\ Adding(db, d, "searches") /\ d.searches = db.searches \cup {NewSearch(db.ids + 1, s, t \div 2)}
            /\ Adding(db, p, "searches") /\ p.searches = db.searches \cup {NewSearch(db.ids + 1, s, t)}
<1> DEFINE row(n) == [id |-> 0, user |-> s.user, mission |-> s.mission, market |-> SQLite!NormalizedMarket(s.market),
                      enabled |-> s.enabled, next |-> s.next, text |-> s.text, at |-> n]
<1>1. \A n : [row(n) EXCEPT !.id = db.ids + 1] = NewSearch(db.ids + 1, s, n)
  BY DEF NewSearch
<1>2. SQLite!CreateSearchConfig(db, t, s) = SQLite!Appended(db, "searches", row(t \div 2))
  BY DEF SQLite!CreateSearchConfig, SQLite!Stamp
<1>3. Postgres!CreateSearchConfig(db, t, s) = Postgres!Appended(db, "searches", row(t))
  BY Markets DEF Postgres!CreateSearchConfig, Postgres!Stamp
<1>4. "searches" \in Tables
  BY DEF Tables
<1> HIDE DEF row
<1>5. /\ Adding(db, SQLite!Appended(db, "searches", row(t \div 2)), "searches")
      /\ SQLite!Appended(db, "searches", row(t \div 2))["searches"] = db["searches"] \cup {[row(t \div 2) EXCEPT !.id = db.ids + 1]}
  BY <1>4, Appends
<1>6. /\ Adding(db, Postgres!Appended(db, "searches", row(t)), "searches")
      /\ Postgres!Appended(db, "searches", row(t))["searches"] = db["searches"] \cup {[row(t) EXCEPT !.id = db.ids + 1]}
  BY <1>4, Appends
<1> QED
  BY <1>1, <1>2, <1>3, <1>5, <1>6

LEMMA UpdateSearchConfigWrites ==
  ASSUME NEW db, Schema(db), NEW t, NEW s
  PROVE  LET d == SQLite!UpdateSearchConfig(db, t, s)
             p == Postgres!UpdateSearchConfig(db, t, s)
         IN /\ Writing1(db, d, "searches") /\ d.searches = SearchEdited(db.searches, s, t \div 2)
            /\ Writing1(db, p, "searches") /\ p.searches = SearchEdited(db.searches, s, t)
<1>1. SQLite!UpdateSearchConfig(db, t, s) = [db EXCEPT !.searches = SearchEdited(db.searches, s, t \div 2)]
  BY DEF SearchEdited, SQLite!UpdateSearchConfig, SQLite!Changed, SQLite!Stamp
<1>2. Postgres!UpdateSearchConfig(db, t, s) = [db EXCEPT !.searches = SearchEdited(db.searches, s, t)]
  BY Markets DEF SearchEdited, Postgres!UpdateSearchConfig, Postgres!Changed, Postgres!Stamp
<1> QED
  BY <1>1, <1>2 DEF Schema, Tables, Writing1

LEMMA SearchByIdWrites ==
  ASSUME NEW db, Schema(db), NEW t, NEW s, NEW id, NEW value
  PROVE  /\ LET d == SQLite!UpdateSearchRuntime(db, t, s)
                p == Postgres!UpdateSearchRuntime(db, t, s)
            IN /\ Writing1(db, d, "searches") /\ d.searches = RuntimeEdited(db.searches, s, t \div 2)
               /\ Writing1(db, p, "searches") /\ p.searches = RuntimeEdited(db.searches, s, t)
         /\ LET d == SQLite!SetSearchEnabled(db, t, id, value)
                p == Postgres!SetSearchEnabled(db, t, id, value)
            IN /\ Writing1(db, d, "searches") /\ d.searches = EnabledEdited(db.searches, id, value, t \div 2)
               /\ Writing1(db, p, "searches") /\ p.searches = EnabledEdited(db.searches, id, value, t)
         /\ LET d == SQLite!SetSearchNextRunAt(db, t, id, value)
                p == Postgres!SetSearchNextRunAt(db, t, id, value)
            IN /\ Writing1(db, d, "searches") /\ d.searches = NextEdited(db.searches, id, value, t \div 2)
               /\ Writing1(db, p, "searches") /\ p.searches = NextEdited(db.searches, id, value, t)
<1>0. Schema(db)
  OBVIOUS
<1>1. /\ SQLite!UpdateSearchRuntime(db, t, s) = [db EXCEPT !.searches = RuntimeEdited(db.searches, s, t \div 2)]
      /\ Postgres!UpdateSearchRuntime(db, t, s) = [db EXCEPT !.searches = RuntimeEdited(db.searches, s, t)]
  BY DEF RuntimeEdited, SQLite!UpdateSearchRuntime, SQLite!Changed, SQLite!Stamp,
    Postgres!UpdateSearchRuntime, Postgres!Changed, Postgres!Stamp
<1>2. /\ SQLite!SetSearchEnabled(db, t, id, value) = [db EXCEPT !.searches = EnabledEdited(db.searches, id, value, t \div 2)]
      /\ Postgres!SetSearchEnabled(db, t, id, value) = [db EXCEPT !.searches = EnabledEdited(db.searches, id, value, t)]
  BY DEF EnabledEdited, SQLite!SetSearchEnabled, SQLite!Changed, SQLite!Stamp,
    Postgres!SetSearchEnabled, Postgres!Changed, Postgres!Stamp
<1>3. /\ SQLite!SetSearchNextRunAt(db, t, id, value) = [db EXCEPT !.searches = NextEdited(db.searches, id, value, t \div 2)]
      /\ Postgres!SetSearchNextRunAt(db, t, id, value) = [db EXCEPT !.searches = NextEdited(db.searches, id, value, t)]
  BY DEF NextEdited, SQLite!SetSearchNextRunAt, SQLite!Changed, SQLite!Stamp,
    Postgres!SetSearchNextRunAt, Postgres!Changed, Postgres!Stamp
<1>4. LET d == SQLite!UpdateSearchRuntime(db, t, s)
          p == Postgres!UpdateSearchRuntime(db, t, s)
      IN /\ Writing1(db, d, "searches") /\ d.searches = RuntimeEdited(db.searches, s, t \div 2)
         /\ Writing1(db, p, "searches") /\ p.searches = RuntimeEdited(db.searches, s, t)
  <2>1. Writing1(db, SQLite!UpdateSearchRuntime(db, t, s), "searches") /\ SQLite!UpdateSearchRuntime(db, t, s).searches = RuntimeEdited(db.searches, s, t \div 2)
    BY ONLY <1>0, <1>1 DEF Schema, Tables, Writing1
  <2>2. Writing1(db, Postgres!UpdateSearchRuntime(db, t, s), "searches") /\ Postgres!UpdateSearchRuntime(db, t, s).searches = RuntimeEdited(db.searches, s, t)
    BY ONLY <1>0, <1>1 DEF Schema, Tables, Writing1
  <2> QED
    BY <2>1, <2>2
<1>5. LET d == SQLite!SetSearchEnabled(db, t, id, value)
          p == Postgres!SetSearchEnabled(db, t, id, value)
      IN /\ Writing1(db, d, "searches") /\ d.searches = EnabledEdited(db.searches, id, value, t \div 2)
         /\ Writing1(db, p, "searches") /\ p.searches = EnabledEdited(db.searches, id, value, t)
  <2>1. Writing1(db, SQLite!SetSearchEnabled(db, t, id, value), "searches") /\ SQLite!SetSearchEnabled(db, t, id, value).searches = EnabledEdited(db.searches, id, value, t \div 2)
    BY ONLY <1>0, <1>2 DEF Schema, Tables, Writing1
  <2>2. Writing1(db, Postgres!SetSearchEnabled(db, t, id, value), "searches") /\ Postgres!SetSearchEnabled(db, t, id, value).searches = EnabledEdited(db.searches, id, value, t)
    BY ONLY <1>0, <1>2 DEF Schema, Tables, Writing1
  <2> QED
    BY <2>1, <2>2
<1>6. LET d == SQLite!SetSearchNextRunAt(db, t, id, value)
          p == Postgres!SetSearchNextRunAt(db, t, id, value)
      IN /\ Writing1(db, d, "searches") /\ d.searches = NextEdited(db.searches, id, value, t \div 2)
         /\ Writing1(db, p, "searches") /\ p.searches = NextEdited(db.searches, id, value, t)
  <2>1. Writing1(db, SQLite!SetSearchNextRunAt(db, t, id, value), "searches") /\ SQLite!SetSearchNextRunAt(db, t, id, value).searches = NextEdited(db.searches, id, value, t \div 2)
    BY ONLY <1>0, <1>3 DEF Schema, Tables, Writing1
  <2>2. Writing1(db, Postgres!SetSearchNextRunAt(db, t, id, value), "searches") /\ Postgres!SetSearchNextRunAt(db, t, id, value).searches = NextEdited(db.searches, id, value, t)
    BY ONLY <1>0, <1>3 DEF Schema, Tables, Writing1
  <2> QED
    BY <2>1, <2>2
<1> QED
  BY <1>4, <1>5, <1>6

LEMMA DeleteSearchConfigWrites ==
  ASSUME NEW db, Schema(db), NEW id, NEW u, NEW d \in {SQLite!DeleteSearchConfig(db, id, u), Postgres!DeleteSearchConfig(db, id, u)}
  PROVE  Writing1(db, d, "searches") /\ d.searches = {s \in db.searches : ~(s.id = id /\ s.user = u)}
  BY DEF Schema, Tables, Writing1, SQLite!DeleteSearchConfig, Postgres!DeleteSearchConfig

-----------------------------------------------------------------------------
(* Listings.                                                                *)

NewRow(u, f, m, t) ==
  [item |-> <<u, f.item>>, text |-> f.text, query |-> f.text, mission |-> m, price |-> f.price, market |-> f.market,
   score |-> f.score, offer |-> f.offer, action |-> f.action, source |-> f.source, offered |-> FALSE, feedback |-> Blank,
   judged |-> 0, outreach |-> "none", seen |-> t]
FoundAgain(r, f, m, t) ==
  [r EXCEPT !.price = f.price, !.mission = m, !.market = f.market, !.score = f.score, !.offer = f.offer,
            !.action = f.action, !.source = f.source, !.seen = t]
ListingSaved(T, u, f, m, t) ==
  IF \E r \in T : r.item = <<u, f.item>> THEN {IF r.item = <<u, f.item>> THEN FoundAgain(r, f, m, t) ELSE r : r \in T}
  ELSE T \cup {NewRow(u, f, m, t)}

LEMMA SaveListingWrites ==
  ASSUME NEW db, Schema(db), NEW t, NEW u \in Users, NEW f \in Finds, NEW m
  PROVE  LET l == [item |-> f.item, text |-> f.text, price |-> f.price, market |-> f.market, mission |-> m]
             d == SQLite!SaveListing(db, t, u, l, f.text, f)
             p == Postgres!SaveListing(db, t, u, l, f.text, f)
         IN /\ Writing1(db, d, "listings") /\ d.listings = ListingSaved(db.listings, u, f, m, t \div 2)
            /\ Writing1(db, p, "listings") /\ p.listings = ListingSaved(db.listings, u, f, m, t)
<1> DEFINE l == [item |-> f.item, text |-> f.text, price |-> f.price, market |-> f.market, mission |-> m]
<1>1. /\ l.item = f.item /\ l.text = f.text /\ l.price = f.price /\ l.market = f.market /\ l.mission = m
  OBVIOUS
<1>2. SQLite!scopedItemID(u, f.item) = <<u, f.item>> /\ Postgres!scopedItemID(u, f.item) = <<u, f.item>>
  BY Scoped
<1>3. Postgres!Action(f) = f.action
  <2>1. f.action # Postgres!Blank
    BY StoresAssumption, Blanks
  <2> QED
    BY <2>1 DEF Postgres!Action
<1> HIDE DEF l
<1>4. /\ SQLite!NewListing(t, u, l, f.text, f) = NewRow(u, f, m, t \div 2)
      /\ Postgres!NewListing(t, u, l, f.text, f) = NewRow(u, f, m, t)
  BY <1>1, <1>2, <1>3, Blanks
  DEF NewRow, SQLite!NewListing, Postgres!NewListing, SQLite!Stamp, Postgres!Stamp
<1>5. SQLite!SaveListing(db, t, u, l, f.text, f) = [db EXCEPT !.listings = ListingSaved(db.listings, u, f, m, t \div 2)]
  BY <1>1, <1>2, <1>4 DEF ListingSaved, FoundAgain, SQLite!SaveListing, SQLite!Upserted, SQLite!Changed, SQLite!Stamp
<1>6. Postgres!SaveListing(db, t, u, l, f.text, f) = [db EXCEPT !.listings = ListingSaved(db.listings, u, f, m, t)]
  BY <1>1, <1>2, <1>3, <1>4 DEF ListingSaved, FoundAgain, Postgres!SaveListing, Postgres!Upserted, Postgres!Changed, Postgres!Stamp
<1>7. LET d == SQLite!SaveListing(db, t, u, l, f.text, f)
          p == Postgres!SaveListing(db, t, u, l, f.text, f)
      IN /\ Writing1(db, d, "listings") /\ d.listings = ListingSaved(db.listings, u, f, m, t \div 2)
         /\ Writing1(db, p, "listings") /\ p.listings = ListingSaved(db.listings, u, f, m, t)
  BY <1>5, <1>6, ListingsWritten
<1> QED
  BY <1>7 DEF l

\* The statements that touch the user's listing of an item.
SeenEdited(T, u, i, t) == {IF r.item = <<u, i>> THEN [r EXCEPT !.seen = t] ELSE r : r \in T}
OfferedEdited(T, u, i) == {IF r.item = <<u, i>> THEN [r EXCEPT !.offered = TRUE] ELSE r : r \in T}
FeedbackEdited(T, u, i, feedback, t) ==
  {IF r.item = <<u, i>> THEN [r EXCEPT !.feedback = feedback, !.judged = IF feedback = Blank THEN 0 ELSE t] ELSE r : r \in T}
OutreachEdited(T, u, i, status) == {IF r.item = <<u, i>> THEN [r EXCEPT !.outreach = status] ELSE r : r \in T}

LEMMA TouchListingWrites ==
  ASSUME NEW db, Schema(db), NEW t, NEW u \in Users, NEW i
  PROVE  LET d == SQLite!TouchListing(db, t, u, i)
             p == Postgres!TouchListing(db, t, u, i)
         IN /\ Writing1(db, d, "listings") /\ d.listings = SeenEdited(db.listings, u, i, t \div 2)
            /\ Writing1(db, p, "listings") /\ p.listings = SeenEdited(db.listings, u, i, t)
<1>1. SQLite!scopedItemID(u, i) = <<u, i>> /\ Postgres!scopedItemID(u, i) = <<u, i>>
  BY Scoped
<1>2. SQLite!TouchListing(db, t, u, i) = [db EXCEPT !.listings = SeenEdited(db.listings, u, i, t \div 2)]
  BY <1>1 DEF SeenEdited, SQLite!TouchListing, SQLite!Touched, SQLite!Changed, SQLite!Stamp
<1>3. Postgres!TouchListing(db, t, u, i) = [db EXCEPT !.listings = SeenEdited(db.listings, u, i, t)]
  BY <1>1 DEF SeenEdited, Postgres!TouchListing, Postgres!Touched, Postgres!Changed, Postgres!Stamp
<1>4. ASSUME NEW d, NEW T, d = [db EXCEPT !.listings = T] PROVE Writing1(db, d, "listings") /\ d.listings = T
  BY <1>4, ListingsWritten
<1> QED
  BY <1>2, <1>3, <1>4

LEMMA MarkOfferedWrites ==
  ASSUME NEW db, Schema(db), NEW u \in Users, NEW i
  PROVE  LET d == SQLite!MarkOffered(db, u, i)
             p == Postgres!MarkOffered(db, u, i)
         IN /\ Writing1(db, d, "listings") /\ d.listings = OfferedEdited(db.listings, u, i)
            /\ Writing1(db, p, "listings") /\ p.listings = OfferedEdited(db.listings, u, i)
<1>1. SQLite!scopedItemID(u, i) = <<u, i>> /\ Postgres!scopedItemID(u, i) = <<u, i>>
  BY Scoped
<1>2. SQLite!MarkOffered(db, u, i) = [db EXCEPT !.listings = OfferedEdited(db.listings, u, i)]
  BY <1>1 DEF OfferedEdited, SQLite!MarkOffered, SQLite!Touched, SQLite!Changed
<1>3. Postgres!MarkOffered(db, u, i) = [db EXCEPT !.listings = OfferedEdited(db.listings, u, i)]
  BY <1>1 DEF OfferedEdited, Postgres!MarkOffered, Postgres!Touched, Postgres!Changed
<1>4. ASSUME NEW d, NEW T, d = [db EXCEPT !.listings = T] PROVE Writing1(db, d, "listings") /\ d.listings = T
  BY <1>4, ListingsWritten
<1> QED
  BY <1>2, <1>3, <1>4

Feedbacks == {Blank, "approved", "dismissed"}

LEMMA UpdateOutreachStatusWrites ==
  ASSUME NEW db, Schema(db), NEW u \in Users, NEW i, NEW status
  PROVE  LET d == SQLite!UpdateOutreachStatus(db, u, i, status)
             p == Postgres!UpdateOutreachStatus(db, u, i, status)
         IN /\ Writing1(db, d, "listings") /\ d.listings = OutreachEdited(db.listings, u, i, status)
            /\ Writing1(db, p, "listings") /\ p.listings = OutreachEdited(db.listings, u, i, status)
<1>1. SQLite!scopedItemID(u, i) = <<u, i>> /\ Postgres!scopedItemID(u, i) = <<u, i>>
  BY Scoped
<1>2. SQLite!UpdateOutreachStatus(db, u, i, status) = [db EXCEPT !.listings = OutreachEdited(db.listings, u, i, status)]
  BY <1>1 DEF OutreachEdited, SQLite!UpdateOutreachStatus, SQLite!Touched, SQLite!Changed
<1>3. Postgres!UpdateOutreachStatus(db, u, i, status) = [db EXCEPT !.listings = OutreachEdited(db.listings, u, i, status)]
  BY <1>1 DEF OutreachEdited, Postgres!UpdateOutreachStatus, Postgres!Touched, Postgres!Changed
<1>4. ASSUME NEW d, NEW T, d = [db EXCEPT !.listings = T] PROVE Writing1(db, d, "listings") /\ d.listings = T
  BY <1>4, ListingsWritten
<1> QED
  BY <1>2, <1>3, <1>4

-----------------------------------------------------------------------------
LEMMA SaveShortlistEntryWrites ==
  ASSUME NEW db, Schema(db), NEW e, NEW d \in {SQLite!SaveShortlistEntry(db, e), Postgres!SaveShortlistEntry(db, e)}
  PROVE  Writing1(db, d, "shortlist") /\ d.shortlist = (db.shortlist \ {r \in db.shortlist : r.user = e.user /\ r.item = e.item}) \cup {e}
<1> DEFINE S == (db.shortlist \ {r \in db.shortlist : r.user = e.user /\ r.item = e.item}) \cup {e}
<1>1. d = [db EXCEPT !.shortlist = S]
  BY DEF SQLite!SaveShortlistEntry, SQLite!Upserted, SQLite!Changed, Postgres!SaveShortlistEntry, Postgres!Upserted, Postgres!Changed
<1>2. "shortlist" \in Tables
  BY DEF Tables
<1> QED
  BY <1>1, <1>2, Writes1

LEMMA RecordPriceWrites ==
  ASSUME NEW db, Schema(db), NEW t, NEW query, NEW model, NEW market, NEW price
  PROVE  LET row(n) == [id |-> db.ids + 1, query |-> query, model |-> model, market |-> market, price |-> price, at |-> n]
             d == SQLite!RecordPrice(db, t, query, model, market, price)
             p == Postgres!RecordPrice(db, t, query, model, market, price)
         IN /\ Adding(db, d, "prices") /\ d.prices = db.prices \cup {row(t \div 2)}
            /\ Adding(db, p, "prices") /\ p.prices = db.prices \cup {row(t)}
<1> DEFINE new(n) == [id |-> 0, query |-> query, model |-> model, market |-> market, price |-> price, at |-> n]
           row(n) == [id |-> db.ids + 1, query |-> query, model |-> model, market |-> market, price |-> price, at |-> n]
<1>1. \A n : [new(n) EXCEPT !.id = db.ids + 1] = row(n)
  OBVIOUS
<1>2. SQLite!RecordPrice(db, t, query, model, market, price) = SQLite!Appended(db, "prices", new(t \div 2))
  BY DEF SQLite!RecordPrice, SQLite!Stamp
<1>3. Postgres!RecordPrice(db, t, query, model, market, price) = Postgres!Appended(db, "prices", new(t))
  BY DEF Postgres!RecordPrice, Postgres!Stamp
<1>4. "prices" \in Tables
  BY DEF Tables
<1> HIDE DEF new, row
<1>5. /\ Adding(db, SQLite!Appended(db, "prices", new(t \div 2)), "prices")
      /\ SQLite!Appended(db, "prices", new(t \div 2))["prices"] = db["prices"] \cup {[new(t \div 2) EXCEPT !.id = db.ids + 1]}
  BY <1>4, Appends
<1>6. /\ Adding(db, Postgres!Appended(db, "prices", new(t)), "prices")
      /\ Postgres!Appended(db, "prices", new(t))["prices"] = db["prices"] \cup {[new(t) EXCEPT !.id = db.ids + 1]}
  BY <1>4, Appends
<1>7. /\ Adding(db, SQLite!RecordPrice(db, t, query, model, market, price), "prices")
      /\ SQLite!RecordPrice(db, t, query, model, market, price).prices = db.prices \cup {row(t \div 2)}
      /\ Adding(db, Postgres!RecordPrice(db, t, query, model, market, price), "prices")
      /\ Postgres!RecordPrice(db, t, query, model, market, price).prices = db.prices \cup {row(t)}
  BY <1>1, <1>2, <1>3, <1>5, <1>6
<1> QED
  BY <1>7 DEF row

LEMMA SetAIScoreCacheWrites ==
  ASSUME NEW db, Schema(db), NEW key, NEW score, NEW version,
         NEW d \in {SQLite!SetAIScoreCache(db, key, score, version), Postgres!SetAIScoreCache(db, key, score, version)}
  PROVE  \/ d = db /\ key = Blank
         \/ /\ key # Blank /\ Writing1(db, d, "scores")
            /\ d.scores = (db.scores \ {r \in db.scores : r.key = key})
                            \cup {[key |-> key, score |-> score, version |-> SQLite!Version(version)]}
<1> DEFINE row == [key |-> key, score |-> score, version |-> SQLite!Version(version)]
           S == (db.scores \ {r \in db.scores : r.key = key}) \cup {row}
<1>1. Postgres!Version(version) = SQLite!Version(version)
  BY DEF Postgres!Version, SQLite!Version
<1>2. CASE key = Blank
  BY <1>2, Blanks DEF SQLite!SetAIScoreCache, Postgres!SetAIScoreCache
<1>3. CASE key # Blank
  <2> HIDE DEF row
  <2>1. d = [db EXCEPT !.scores = S]
    BY <1>1, <1>3, Blanks DEF SQLite!SetAIScoreCache, SQLite!Upserted, SQLite!Changed, Postgres!SetAIScoreCache,
      Postgres!Upserted, Postgres!Changed, row
  <2>2. "scores" \in Tables
    BY DEF Tables
  <2>3. Writing1(db, d, "scores") /\ d.scores = S
    BY <2>1, <2>2, Writes1
  <2> QED
    BY <1>3, <2>3 DEF row
<1> QED
  BY <1>2, <1>3

\* A session as each store keeps it.
SQLiteSession(u, question, draft) == [user |-> u, question |-> question, draft |-> IF draft = "none" THEN Blank ELSE draft]
PostgresSession(u, question, draft) == [user |-> u, question |-> question, draft |-> IF draft = "none" THEN "{}" ELSE draft]

LEMMA SessionWrites ==
  ASSUME NEW db, Schema(db), NEW u, NEW question, NEW draft
  PROVE  /\ LET d == SQLite!SaveAssistantSession(db, u, question, draft)
                p == Postgres!SaveAssistantSession(db, u, question, draft)
            IN /\ Writing1(db, d, "sessions")
               /\ d.sessions = (db.sessions \ {r \in db.sessions : r.user = u}) \cup {SQLiteSession(u, question, draft)}
               /\ Writing1(db, p, "sessions")
               /\ p.sessions = (db.sessions \ {r \in db.sessions : r.user = u}) \cup {PostgresSession(u, question, draft)}
         /\ \A d \in {SQLite!ClearAssistantSession(db, u), Postgres!ClearAssistantSession(db, u)} :
              Writing1(db, d, "sessions") /\ d.sessions = {s \in db.sessions : s.user # u}
<1> DEFINE S(row) == (db.sessions \ {r \in db.sessions : r.user = u}) \cup {row}
<1>1. SQLite!SaveAssistantSession(db, u, question, draft) = [db EXCEPT !.sessions = S(SQLiteSession(u, question, draft))]
  BY Blanks DEF SQLite!SaveAssistantSession, SQLite!Upserted, SQLite!Changed, SQLiteSession
<1>2. Postgres!SaveAssistantSession(db, u, question, draft) = [db EXCEPT !.sessions = S(PostgresSession(u, question, draft))]
  BY DEF Postgres!SaveAssistantSession, Postgres!Upserted, Postgres!Changed, PostgresSession
<1>3. "sessions" \in Tables
  BY DEF Tables
<1>4. \A d \in {SQLite!ClearAssistantSession(db, u), Postgres!ClearAssistantSession(db, u)} :
        d = [db EXCEPT !.sessions = {s \in db.sessions : s.user # u}]
  BY DEF SQLite!ClearAssistantSession, Postgres!ClearAssistantSession
<1> QED
  BY SMTT(60), <1>1, <1>2, <1>3, <1>4, Writes1

LEMMA AssistantWrites ==
  ASSUME NEW db, Schema(db), NEW u, NEW x
  PROVE  /\ \A d \in {SQLite!SaveConversationArtifact(db, u, x), Postgres!SaveConversationArtifact(db, u, x)} :
              Adding(db, d, "artifacts") /\ d.artifacts = db.artifacts \cup {[id |-> db.ids + 1, user |-> u, text |-> x]}
         /\ \A d \in {SQLite!SaveActionDraft(db, u, x), Postgres!SaveActionDraft(db, u, x)} :
              Adding(db, d, "drafts") /\ d.drafts = db.drafts \cup {[id |-> db.ids + 1, user |-> u, item |-> x]}
<1> DEFINE a == [id |-> 0, user |-> u, text |-> x]
           b == [id |-> 0, user |-> u, item |-> x]
<1>1. /\ [a EXCEPT !.id = db.ids + 1] = [id |-> db.ids + 1, user |-> u, text |-> x]
      /\ [b EXCEPT !.id = db.ids + 1] = [id |-> db.ids + 1, user |-> u, item |-> x]
  OBVIOUS
<1>2. /\ \A d \in {SQLite!SaveConversationArtifact(db, u, x), Postgres!SaveConversationArtifact(db, u, x)} :
           d \in {SQLite!Appended(db, "artifacts", a), Postgres!Appended(db, "artifacts", a)}
      /\ \A d \in {SQLite!SaveActionDraft(db, u, x), Postgres!SaveActionDraft(db, u, x)} :
           d \in {SQLite!Appended(db, "drafts", b), Postgres!Appended(db, "drafts", b)}
  BY DEF SQLite!SaveConversationArtifact, Postgres!SaveConversationArtifact, SQLite!SaveActionDraft, Postgres!SaveActionDraft
<1>3. "artifacts" \in Tables /\ "drafts" \in Tables
  BY DEF Tables
<1> HIDE DEF a, b
<1>4. \A d \in {SQLite!Appended(db, "artifacts", a), Postgres!Appended(db, "artifacts", a)} :
        Adding(db, d, "artifacts") /\ d["artifacts"] = db["artifacts"] \cup {[a EXCEPT !.id = db.ids + 1]}
  BY <1>3, Appends
<1>5. \A d \in {SQLite!Appended(db, "drafts", b), Postgres!Appended(db, "drafts", b)} :
        Adding(db, d, "drafts") /\ d["drafts"] = db["drafts"] \cup {[b EXCEPT !.id = db.ids + 1]}
  BY <1>3, Appends
<1> QED
  BY <1>1, <1>2, <1>4, <1>5

-----------------------------------------------------------------------------
(* Missions in both stores: each call keeps them in order, and twins.       *)

IdsKept(T, T2) == \A r \in T : \E q \in T2 : q.id = r.id

RecheckEdited(T, id, u, t) == {IF r.id = id /\ r.user = u THEN [r EXCEPT !.recheck = t] ELSE r : r \in T}
ResetEdited(T, id, u, t) == {IF r.mission = id /\ r.user = u THEN [r EXCEPT !.next = t] ELSE r : r \in T}

LEMMA MissionsEditedKeep ==
  ASSUME NEW T, NEW n \in Nat, MissionsOK(T, n), NEW u, NEW id, \A r \in T : r.id = id => r.user = u,
         NEW c, c.active = (c.status = "active"), NEW t \in Nat
  PROVE  LET T2 == MissionsEdited(T, id, c, t) IN MissionsOK(T2, n) /\ Apart(T, T2, u) /\ IdsKept(T, T2)
<1> DEFINE h == [r \in T |-> IF r.id = id THEN [r EXCEPT !.text = c.text, !.status = c.status, !.active = c.active, !.at = t] ELSE r]
           T2 == {h[r] : r \in T}
<1>1. MissionsEdited(T, id, c, t) = T2
  BY DEF MissionsEdited
<1>2. ASSUME NEW r \in T
      PROVE  MissionRow(h[r]) /\ (h[r] = r \/ (h[r].id = r.id /\ r.user = u /\ h[r].user = u))
  <2>1. MissionRow(r) /\ (r.id = id => r.user = u)
    BY DEF MissionsOK
  <2> QED
    BY <2>1 DEF MissionRow, MissionFields
<1> HIDE DEF h
<1>3. ImageOf(T, T2, h)
  BY DEF ImageOf
<1>4. Keyed(T2, n) /\ Apart(T, T2, u) /\ IdsKept(T, T2) /\ IsFiniteSet(T2)
  <2>1. Keyed(T, n) /\ IsFiniteSet(T)
    BY DEF MissionsOK
  <2>2. \A r \in T : h[r] = r \/ (h[r].id = r.id /\ r.user = u /\ h[r].user = u)
    BY <1>2
  <2>3. /\ Keyed(T2, n) /\ Apart(T, T2, u)
        /\ \A r \in T : \E q \in T2 : q.id = r.id
        /\ IsFiniteSet(T) => IsFiniteSet(T2)
    BY <1>3, <2>1, <2>2, Rewritten
  <2> QED
    BY <2>1, <2>3 DEF IdsKept
<1> QED
  BY <1>1, <1>2, <1>4 DEF MissionsOK

LEMMA StatusEditedKeep ==
  ASSUME NEW T, NEW n \in Nat, MissionsOK(T, n), NEW u, NEW id, \A r \in T : r.id = id => r.user = u,
         NEW status, NEW t \in Nat
  PROVE  LET T2 == StatusEdited(T, id, status, t) IN MissionsOK(T2, n) /\ Apart(T, T2, u) /\ IdsKept(T, T2)
<1> DEFINE h == [r \in T |-> IF r.id = id THEN [r EXCEPT !.status = status, !.active = (status = "active"), !.at = t] ELSE r]
           T2 == {h[r] : r \in T}
<1>1. StatusEdited(T, id, status, t) = T2
  BY DEF StatusEdited
<1>2. ASSUME NEW r \in T
      PROVE  MissionRow(h[r]) /\ (h[r] = r \/ (h[r].id = r.id /\ r.user = u /\ h[r].user = u))
  <2>1. MissionRow(r) /\ (r.id = id => r.user = u)
    BY DEF MissionsOK
  <2> QED
    BY <2>1 DEF MissionRow, MissionFields
<1> HIDE DEF h
<1>3. ImageOf(T, T2, h)
  BY DEF ImageOf
<1>4. Keyed(T2, n) /\ Apart(T, T2, u) /\ IdsKept(T, T2) /\ IsFiniteSet(T2)
  <2>1. Keyed(T, n) /\ IsFiniteSet(T)
    BY DEF MissionsOK
  <2>2. \A r \in T : h[r] = r \/ (h[r].id = r.id /\ r.user = u /\ h[r].user = u)
    BY <1>2
  <2>3. /\ Keyed(T2, n) /\ Apart(T, T2, u)
        /\ \A r \in T : \E q \in T2 : q.id = r.id
        /\ IsFiniteSet(T) => IsFiniteSet(T2)
    BY <1>3, <2>1, <2>2, Rewritten
  <2> QED
    BY <2>1, <2>3 DEF IdsKept
<1> QED
  BY <1>1, <1>2, <1>4 DEF MissionsOK

LEMMA RecheckEditedKeep ==
  ASSUME NEW T, NEW n \in Nat, MissionsOK(T, n), NEW u, NEW id, NEW t
  PROVE  LET T2 == RecheckEdited(T, id, u, t) IN MissionsOK(T2, n) /\ Apart(T, T2, u) /\ IdsKept(T, T2)
<1> DEFINE h == [r \in T |-> IF r.id = id /\ r.user = u THEN [r EXCEPT !.recheck = t] ELSE r]
           T2 == {h[r] : r \in T}
<1>1. RecheckEdited(T, id, u, t) = T2
  BY DEF RecheckEdited
<1>2. ASSUME NEW r \in T
      PROVE  MissionRow(h[r]) /\ (h[r] = r \/ (h[r].id = r.id /\ r.user = u /\ h[r].user = u))
  <2>1. MissionRow(r)
    BY DEF MissionsOK
  <2> QED
    BY <2>1 DEF MissionRow, MissionFields
<1> HIDE DEF h
<1>3. ImageOf(T, T2, h)
  BY DEF ImageOf
<1>4. Keyed(T2, n) /\ Apart(T, T2, u) /\ IdsKept(T, T2) /\ IsFiniteSet(T2)
  <2>1. Keyed(T, n) /\ IsFiniteSet(T)
    BY DEF MissionsOK
  <2>2. \A r \in T : h[r] = r \/ (h[r].id = r.id /\ r.user = u /\ h[r].user = u)
    BY <1>2
  <2>3. /\ Keyed(T2, n) /\ Apart(T, T2, u)
        /\ \A r \in T : \E q \in T2 : q.id = r.id
        /\ IsFiniteSet(T) => IsFiniteSet(T2)
    BY <1>3, <2>1, <2>2, Rewritten
  <2> QED
    BY <2>1, <2>3 DEF IdsKept
<1> QED
  BY <1>1, <1>2, <1>4 DEF MissionsOK

LEMMA NewMissionKeeps ==
  ASSUME NEW T, NEW n \in Nat, MissionsOK(T, n), NEW u \in Users, NEW c, c.active = (c.status = "active"), NEW t \in Nat
  PROVE  LET T2 == T \cup {NewMission(n + 1, u, c, t)} IN MissionsOK(T2, n + 1) /\ Apart(T, T2, u) /\ IdsKept(T, T2)
<1> DEFINE row == NewMission(n + 1, u, c, t)
<1>1. row.id = n + 1 /\ row.user = u /\ MissionRow(row)
  BY DEF NewMission, MissionRow, MissionFields
<1> HIDE DEF row
<1>2. LET T2 == T \cup {row} IN Keyed(T2, n + 1) /\ Apart(T, T2, u) /\ IdsKept(T, T2) /\ IsFiniteSet(T2)
  BY <1>1, Inserted DEF MissionsOK, IdsKept
<1>3. LET T2 == T \cup {row} IN MissionsOK(T2, n + 1) /\ Apart(T, T2, u) /\ IdsKept(T, T2)
  BY <1>1, <1>2 DEF MissionsOK
<1> QED
  BY <1>3 DEF row

-----------------------------------------------------------------------------
\* A mission in SQLite and the same in Postgres: SQLite's time is coarser.
MissionTwin(r, q) ==
  /\ r.id = q.id /\ r.user = q.user /\ r.text = q.text /\ r.status = q.status /\ r.active = q.active
  /\ r.at = q.at \div 2
MissionTwins(S, T) == (\A r \in S : \E q \in T : MissionTwin(r, q)) /\ (\A q \in T : \E r \in S : MissionTwin(r, q))

LEMMA MissionsEditedTwins ==
  ASSUME NEW S, NEW T, NEW n \in Nat, MissionsOK(S, n), MissionsOK(T, n), MissionTwins(S, T), NEW id, NEW c, NEW t \in Nat
  PROVE  MissionTwins(MissionsEdited(S, id, c, t \div 2), MissionsEdited(T, id, c, t))
<1> DEFINE h(r, x) == IF r.id = id THEN [r EXCEPT !.text = c.text, !.status = c.status, !.active = c.active, !.at = x] ELSE r
<1>1. ASSUME NEW r \in S, NEW q \in T, MissionTwin(r, q)
      PROVE  MissionTwin(h(r, t \div 2), h(q, t))
  <2>1. MissionRow(r) /\ MissionRow(q)
    BY DEF MissionsOK
  <2> QED
    BY <1>1, <2>1 DEF MissionTwin, MissionRow, MissionFields
<1>2. MissionsEdited(S, id, c, t \div 2) = {h(r, t \div 2) : r \in S} /\ MissionsEdited(T, id, c, t) = {h(q, t) : q \in T}
  BY DEF MissionsEdited
<1> HIDE DEF h
<1> QED
  BY <1>1, <1>2 DEF MissionTwins

LEMMA StatusEditedTwins ==
  ASSUME NEW S, NEW T, NEW n \in Nat, MissionsOK(S, n), MissionsOK(T, n), MissionTwins(S, T), NEW id, NEW status, NEW t \in Nat
  PROVE  MissionTwins(StatusEdited(S, id, status, t \div 2), StatusEdited(T, id, status, t))
<1> DEFINE h(r, x) == IF r.id = id THEN [r EXCEPT !.status = status, !.active = (status = "active"), !.at = x] ELSE r
<1>1. ASSUME NEW r \in S, NEW q \in T, MissionTwin(r, q)
      PROVE  MissionTwin(h(r, t \div 2), h(q, t))
  <2>1. MissionRow(r) /\ MissionRow(q)
    BY DEF MissionsOK
  <2> QED
    BY <1>1, <2>1 DEF MissionTwin, MissionRow, MissionFields
<1>2. StatusEdited(S, id, status, t \div 2) = {h(r, t \div 2) : r \in S} /\ StatusEdited(T, id, status, t) = {h(q, t) : q \in T}
  BY DEF StatusEdited
<1> HIDE DEF h
<1> QED
  BY <1>1, <1>2 DEF MissionTwins

\* A recheck shows in Postgres alone.
LEMMA RecheckEditedTwins ==
  ASSUME NEW S, NEW T, NEW n \in Nat, MissionsOK(S, n), MissionsOK(T, n), MissionTwins(S, T), NEW id, NEW u, NEW t
  PROVE  MissionTwins(S, RecheckEdited(T, id, u, t))
<1> DEFINE h(q) == IF q.id = id /\ q.user = u THEN [q EXCEPT !.recheck = t] ELSE q
<1>1. ASSUME NEW r \in S, NEW q \in T, MissionTwin(r, q)
      PROVE  MissionTwin(r, h(q))
  <2>1. MissionRow(r) /\ MissionRow(q)
    BY DEF MissionsOK
  <2> QED
    BY <1>1, <2>1 DEF MissionTwin, MissionRow, MissionFields
<1>2. RecheckEdited(T, id, u, t) = {h(q) : q \in T}
  BY DEF RecheckEdited
<1> HIDE DEF h
<1> QED
  BY <1>1, <1>2 DEF MissionTwins

LEMMA NewMissionTwins ==
  ASSUME NEW S, NEW T, MissionTwins(S, T), NEW id, NEW u, NEW c, NEW t
  PROVE  MissionTwins(S \cup {NewMission(id, u, c, t \div 2)}, T \cup {NewMission(id, u, c, t)})
<1> DEFINE new(x) == NewMission(id, u, c, x)
<1>1. MissionTwin(new(t \div 2), new(t))
  BY DEF NewMission, MissionTwin
<1> HIDE DEF new
<1>2. MissionTwins(S \cup {new(t \div 2)}, T \cup {new(t)})
  BY <1>1 DEF MissionTwins
<1> QED
  BY <1>2 DEF new

-----------------------------------------------------------------------------
(* Searches in both stores.  A recheck moves next in Postgres alone.        *)

SearchTwin(r, q) ==
  /\ r.id = q.id /\ r.user = q.user /\ r.mission = q.mission /\ r.market = q.market
  /\ r.enabled = q.enabled /\ r.text = q.text
SearchTwins(S, T) == (\A r \in S : \E q \in T : SearchTwin(r, q)) /\ (\A q \in T : \E r \in S : SearchTwin(r, q))
SearchesPair(S, T, n) == SearchesOK(S, n) /\ SearchesOK(T, n) /\ SearchTwins(S, T)
SearchesStep(S, T, S2, T2, n, u) == SearchesPair(S2, T2, n) /\ Apart(S, S2, u) /\ Apart(T, T2, u)

\* A row h makes of r: the same, or another of u's.
Own(r, s, u) == s = r \/ (s.id = r.id /\ r.user = u /\ s.user = u)

LEMMA SearchesMapped ==
  ASSUME NEW S, NEW T, NEW n \in Nat, SearchesPair(S, T, n), NEW u, NEW S2, NEW T2,
         NEW h, NEW g, ImageOf(S, S2, h), ImageOf(T, T2, g),
         \A r \in S : SearchFields \subseteq DOMAIN h[r] /\ Own(r, h[r], u),
         \A q \in T : SearchFields \subseteq DOMAIN g[q] /\ Own(q, g[q], u),
         \A r \in S, q \in T : SearchTwin(r, q) => SearchTwin(h[r], g[q])
  PROVE  SearchesStep(S, T, S2, T2, n, u)
<1>1. /\ Keyed(S, n) /\ IsFiniteSet(S) /\ Keyed(T, n) /\ IsFiniteSet(T) /\ SearchTwins(S, T)
  BY DEF SearchesPair, SearchesOK
<1>2. Keyed(S2, n) /\ Apart(S, S2, u) /\ IsFiniteSet(S2)
  <2>1. \A r \in S : h[r] = r \/ (h[r].id = r.id /\ r.user = u /\ h[r].user = u)
    BY DEF Own
  <2> QED
    BY <1>1, <2>1, Rewritten
<1>3. Keyed(T2, n) /\ Apart(T, T2, u) /\ IsFiniteSet(T2)
  <2>1. \A q \in T : g[q] = q \/ (g[q].id = q.id /\ q.user = u /\ g[q].user = u)
    BY DEF Own
  <2> QED
    BY <1>1, <2>1, Rewritten
<1>4. SearchesOK(S2, n) /\ SearchesOK(T2, n)
  BY <1>2, <1>3 DEF SearchesOK, ImageOf
<1>5. SearchTwins(S2, T2)
  <2>1. ASSUME NEW s \in S2 PROVE \E t \in T2 : SearchTwin(s, t)
    <3>1. PICK r \in S : s = h[r]
      BY DEF ImageOf
    <3>2. PICK q \in T : SearchTwin(r, q)
      BY <1>1 DEF SearchTwins
    <3>3. g[q] \in T2 /\ SearchTwin(h[r], g[q])
      BY <3>2 DEF ImageOf
    <3> QED
      BY <3>1, <3>3
  <2>2. ASSUME NEW t \in T2 PROVE \E s \in S2 : SearchTwin(s, t)
    <3>1. PICK q \in T : t = g[q]
      BY DEF ImageOf
    <3>2. PICK r \in S : SearchTwin(r, q)
      BY <1>1 DEF SearchTwins
    <3>3. h[r] \in S2 /\ SearchTwin(h[r], g[q])
      BY <3>2 DEF ImageOf
    <3> QED
      BY <3>1, <3>3
  <2> QED
    BY <2>1, <2>2 DEF SearchTwins
<1> QED
  BY <1>2, <1>3, <1>4, <1>5 DEF SearchesPair, SearchesStep

LEMMA SearchEditedSteps ==
  ASSUME NEW S, NEW T, NEW n \in Nat, SearchesPair(S, T, n), NEW s, NEW t
  PROVE  SearchesStep(S, T, SearchEdited(S, s, t \div 2), SearchEdited(T, s, t), n, s.user)
<1> DEFINE e(r, x) == IF r.id = s.id /\ r.user = s.user
                        THEN [r EXCEPT !.mission = s.mission, !.market = SQLite!NormalizedMarket(s.market), !.enabled = s.enabled,
                                       !.next = s.next, !.text = s.text, !.at = x]
                        ELSE r
           h == [r \in S |-> e(r, t \div 2)]
           g == [q \in T |-> e(q, t)]
<1>1. \A r \in S \cup T : SearchFields \subseteq DOMAIN r
  BY DEF SearchesPair, SearchesOK
<1>2. ASSUME NEW r \in S \cup T, NEW x
      PROVE  SearchFields \subseteq DOMAIN e(r, x) /\ Own(r, e(r, x), s.user)
  BY <1>1 DEF SearchFields, Own
<1>3. ASSUME NEW r \in S, NEW q \in T, SearchTwin(r, q)
      PROVE  SearchTwin(e(r, t \div 2), e(q, t))
  BY <1>1, <1>3 DEF SearchFields, SearchTwin
<1>4. SearchEdited(S, s, t \div 2) = {e(r, t \div 2) : r \in S} /\ SearchEdited(T, s, t) = {e(q, t) : q \in T}
  BY DEF SearchEdited
<1> HIDE DEF e
<1>5. ImageOf(S, SearchEdited(S, s, t \div 2), h) /\ ImageOf(T, SearchEdited(T, s, t), g)
  BY <1>4 DEF ImageOf
<1>6. /\ \A r \in S : SearchFields \subseteq DOMAIN h[r] /\ Own(r, h[r], s.user)
      /\ \A q \in T : SearchFields \subseteq DOMAIN g[q] /\ Own(q, g[q], s.user)
      /\ \A r \in S, q \in T : SearchTwin(r, q) => SearchTwin(h[r], g[q])
  BY <1>2, <1>3
<1> HIDE DEF h, g
<1> QED
  BY <1>5, <1>6, SearchesMapped

LEMMA RuntimeEditedSteps ==
  ASSUME NEW S, NEW T, NEW n \in Nat, SearchesPair(S, T, n), NEW s, NEW t, NEW u,
         \A r \in S \cup T : r.id = s.id => r.user = u
  PROVE  SearchesStep(S, T, RuntimeEdited(S, s, t \div 2), RuntimeEdited(T, s, t), n, u)
<1> DEFINE e(r, x) == IF r.id = s.id THEN [r EXCEPT !.next = s.next, !.text = s.text, !.at = x] ELSE r
           h == [r \in S |-> e(r, t \div 2)]
           g == [q \in T |-> e(q, t)]
<1>1. \A r \in S \cup T : SearchFields \subseteq DOMAIN r
  BY DEF SearchesPair, SearchesOK
<1>2. ASSUME NEW r \in S \cup T, NEW x
      PROVE  SearchFields \subseteq DOMAIN e(r, x) /\ Own(r, e(r, x), u)
  BY <1>1 DEF SearchFields, Own
<1>3. ASSUME NEW r \in S, NEW q \in T, SearchTwin(r, q)
      PROVE  SearchTwin(e(r, t \div 2), e(q, t))
  BY <1>1, <1>3 DEF SearchFields, SearchTwin
<1>4. RuntimeEdited(S, s, t \div 2) = {e(r, t \div 2) : r \in S} /\ RuntimeEdited(T, s, t) = {e(q, t) : q \in T}
  BY DEF RuntimeEdited
<1> HIDE DEF e
<1>5. ImageOf(S, RuntimeEdited(S, s, t \div 2), h) /\ ImageOf(T, RuntimeEdited(T, s, t), g)
  BY <1>4 DEF ImageOf
<1>6. /\ \A r \in S : SearchFields \subseteq DOMAIN h[r] /\ Own(r, h[r], u)
      /\ \A q \in T : SearchFields \subseteq DOMAIN g[q] /\ Own(q, g[q], u)
      /\ \A r \in S, q \in T : SearchTwin(r, q) => SearchTwin(h[r], g[q])
  BY <1>2, <1>3
<1> HIDE DEF h, g
<1> QED
  BY <1>5, <1>6, SearchesMapped

LEMMA EnabledEditedSteps ==
  ASSUME NEW S, NEW T, NEW n \in Nat, SearchesPair(S, T, n), NEW id, NEW enabled, NEW t, NEW u,
         \A r \in S \cup T : r.id = id => r.user = u
  PROVE  SearchesStep(S, T, EnabledEdited(S, id, enabled, t \div 2), EnabledEdited(T, id, enabled, t), n, u)
<1> DEFINE e(r, x) == IF r.id = id THEN [r EXCEPT !.enabled = enabled, !.at = x] ELSE r
           h == [r \in S |-> e(r, t \div 2)]
           g == [q \in T |-> e(q, t)]
<1>1. \A r \in S \cup T : SearchFields \subseteq DOMAIN r
  BY DEF SearchesPair, SearchesOK
<1>2. ASSUME NEW r \in S \cup T, NEW x
      PROVE  SearchFields \subseteq DOMAIN e(r, x) /\ Own(r, e(r, x), u)
  BY <1>1 DEF SearchFields, Own
<1>3. ASSUME NEW r \in S, NEW q \in T, SearchTwin(r, q)
      PROVE  SearchTwin(e(r, t \div 2), e(q, t))
  BY <1>1, <1>3 DEF SearchFields, SearchTwin
<1>4. EnabledEdited(S, id, enabled, t \div 2) = {e(r, t \div 2) : r \in S} /\ EnabledEdited(T, id, enabled, t) = {e(q, t) : q \in T}
  BY DEF EnabledEdited
<1> HIDE DEF e
<1>5. ImageOf(S, EnabledEdited(S, id, enabled, t \div 2), h) /\ ImageOf(T, EnabledEdited(T, id, enabled, t), g)
  BY <1>4 DEF ImageOf
<1>6. /\ \A r \in S : SearchFields \subseteq DOMAIN h[r] /\ Own(r, h[r], u)
      /\ \A q \in T : SearchFields \subseteq DOMAIN g[q] /\ Own(q, g[q], u)
      /\ \A r \in S, q \in T : SearchTwin(r, q) => SearchTwin(h[r], g[q])
  BY <1>2, <1>3
<1> HIDE DEF h, g
<1> QED
  BY <1>5, <1>6, SearchesMapped

LEMMA NextEditedSteps ==
  ASSUME NEW S, NEW T, NEW n \in Nat, SearchesPair(S, T, n), NEW id, NEW next, NEW t, NEW u,
         \A r \in S \cup T : r.id = id => r.user = u
  PROVE  SearchesStep(S, T, NextEdited(S, id, next, t \div 2), NextEdited(T, id, next, t), n, u)
<1> DEFINE e(r, x) == IF r.id = id THEN [r EXCEPT !.next = next, !.at = x] ELSE r
           h == [r \in S |-> e(r, t \div 2)]
           g == [q \in T |-> e(q, t)]
<1>1. \A r \in S \cup T : SearchFields \subseteq DOMAIN r
  BY DEF SearchesPair, SearchesOK
<1>2. ASSUME NEW r \in S \cup T, NEW x
      PROVE  SearchFields \subseteq DOMAIN e(r, x) /\ Own(r, e(r, x), u)
  BY <1>1 DEF SearchFields, Own
<1>3. ASSUME NEW r \in S, NEW q \in T, SearchTwin(r, q)
      PROVE  SearchTwin(e(r, t \div 2), e(q, t))
  BY <1>1, <1>3 DEF SearchFields, SearchTwin
<1>4. NextEdited(S, id, next, t \div 2) = {e(r, t \div 2) : r \in S} /\ NextEdited(T, id, next, t) = {e(q, t) : q \in T}
  BY DEF NextEdited
<1> HIDE DEF e
<1>5. ImageOf(S, NextEdited(S, id, next, t \div 2), h) /\ ImageOf(T, NextEdited(T, id, next, t), g)
  BY <1>4 DEF ImageOf
<1>6. /\ \A r \in S : SearchFields \subseteq DOMAIN h[r] /\ Own(r, h[r], u)
      /\ \A q \in T : SearchFields \subseteq DOMAIN g[q] /\ Own(q, g[q], u)
      /\ \A r \in S, q \in T : SearchTwin(r, q) => SearchTwin(h[r], g[q])
  BY <1>2, <1>3
<1> HIDE DEF h, g
<1> QED
  BY <1>5, <1>6, SearchesMapped

\* A recheck, in Postgres alone.
LEMMA ResetEditedSteps ==
  ASSUME NEW S, NEW T, NEW n \in Nat, SearchesPair(S, T, n), NEW id, NEW t, NEW u
  PROVE  SearchesStep(S, T, S, ResetEdited(T, id, u, t), n, u)
<1> DEFINE e(q) == IF q.mission = id /\ q.user = u THEN [q EXCEPT !.next = t] ELSE q
           h == [r \in S |-> r]
           g == [q \in T |-> e(q)]
<1>1. \A r \in S \cup T : SearchFields \subseteq DOMAIN r
  BY DEF SearchesPair, SearchesOK
<1>2. ASSUME NEW q \in T
      PROVE  SearchFields \subseteq DOMAIN e(q) /\ Own(q, e(q), u)
  BY <1>1 DEF SearchFields, Own
<1>3. ASSUME NEW r \in S, NEW q \in T, SearchTwin(r, q)
      PROVE  SearchTwin(r, e(q))
  BY <1>1, <1>3 DEF SearchFields, SearchTwin
<1>4. ResetEdited(T, id, u, t) = {e(q) : q \in T}
  BY DEF ResetEdited
<1> HIDE DEF e
<1>5. ImageOf(S, S, h) /\ ImageOf(T, ResetEdited(T, id, u, t), g)
  BY <1>4 DEF ImageOf
<1>6. /\ \A r \in S : SearchFields \subseteq DOMAIN h[r] /\ Own(r, h[r], u)
      /\ \A q \in T : SearchFields \subseteq DOMAIN g[q] /\ Own(q, g[q], u)
      /\ \A r \in S, q \in T : SearchTwin(r, q) => SearchTwin(h[r], g[q])
  BY <1>1, <1>2, <1>3 DEF Own
<1> HIDE DEF h, g
<1> QED
  BY <1>5, <1>6, SearchesMapped

LEMMA NewSearchSteps ==
  ASSUME NEW S, NEW T, NEW n \in Nat, SearchesPair(S, T, n), NEW s, NEW t, NEW r
  PROVE  SearchesStep(S, T, S \cup {NewSearch(n + 1, s, r)}, T \cup {NewSearch(n + 1, s, t)}, n + 1, s.user)
<1> DEFINE row(x) == NewSearch(n + 1, s, x)
<1>1. \A x : row(x).id = n + 1 /\ row(x).user = s.user /\ SearchFields \subseteq DOMAIN row(x)
  BY DEF NewSearch, SearchFields
<1>2. SearchTwin(row(r), row(t))
  BY DEF NewSearch, SearchTwin
<1> HIDE DEF row
<1>3. Keyed(S, n) /\ Keyed(T, n) /\ IsFiniteSet(S) /\ IsFiniteSet(T)
  BY DEF SearchesPair, SearchesOK
<1>4. Keyed(S \cup {row(r)}, n + 1) /\ Apart(S, S \cup {row(r)}, s.user) /\ IsFiniteSet(S \cup {row(r)})
  BY <1>1, <1>3, Inserted
<1>5. Keyed(T \cup {row(t)}, n + 1) /\ Apart(T, T \cup {row(t)}, s.user) /\ IsFiniteSet(T \cup {row(t)})
  BY <1>1, <1>3, Inserted
<1>6. SearchesOK(S \cup {row(r)}, n + 1) /\ SearchesOK(T \cup {row(t)}, n + 1)
  BY <1>1, <1>4, <1>5 DEF SearchesPair, SearchesOK
<1>7. SearchTwins(S \cup {row(r)}, T \cup {row(t)})
  BY <1>2 DEF SearchesPair, SearchTwins
<1> QED
  BY <1>4, <1>5, <1>6, <1>7 DEF SearchesStep, SearchesPair, row

\* Rows of u go.
LEMMA SearchesRemovedSteps ==
  ASSUME NEW S, NEW T, NEW n \in Nat, SearchesPair(S, T, n), NEW u, NEW S2, NEW T2,
         S2 \subseteq S, T2 \subseteq T, \A r \in S : r \in S2 \/ r.user = u, \A r \in T : r \in T2 \/ r.user = u,
         SearchTwins(S2, T2)
  PROVE  SearchesStep(S, T, S2, T2, n, u)
<1>1. (\A r \in S \ S2 : r.user = u) /\ \A r \in T \ T2 : r.user = u
  OBVIOUS
<1>2. (Keyed(S, n) => Keyed(S2, n)) /\ Apart(S, S2, u) /\ (IsFiniteSet(S) => IsFiniteSet(S2))
  BY <1>1, Removed
<1>3. (Keyed(T, n) => Keyed(T2, n)) /\ Apart(T, T2, u) /\ (IsFiniteSet(T) => IsFiniteSet(T2))
  BY <1>1, Removed
<1> QED
  BY <1>2, <1>3 DEF SearchesStep, SearchesPair, SearchesOK

-----------------------------------------------------------------------------
(* Listings in both stores: the same but for the times, SQLite's coarser.   *)

ListingTwin(r, q) ==
  /\ r.item = q.item /\ r.text = q.text /\ r.query = q.query /\ r.mission = q.mission /\ r.price = q.price
  /\ r.market = q.market /\ r.score = q.score /\ r.offer = q.offer /\ r.action = q.action /\ r.source = q.source
  /\ r.offered = q.offered /\ r.feedback = q.feedback /\ r.outreach = q.outreach /\ r.seen = q.seen \div 2
ListingTwins(S, T) == (\A r \in S : \E q \in T : ListingTwin(r, q)) /\ (\A q \in T : \E r \in S : ListingTwin(r, q))
ListingsPair(S, T) == ListingsOK(S) /\ ListingsOK(T) /\ ListingTwins(S, T)

ListingsApart(T, T2, u) == \A v \in Users \ {u} : {l \in T2 : l.item[1] = v} = {l \in T : l.item[1] = v}
\* A new price or score leaves the user's words alone.
KeepsSide(r, s) == <<s.price, s.score>> # <<r.price, r.score>> => UserSide(s) = UserSide(r)
SideKept(T, T2) == \A r \in T : \A s \in T2 : s.item = r.item => KeepsSide(r, s)
ListingsStep(S, T, S2, T2, u) ==
  ListingsPair(S2, T2) /\ ListingsApart(S, S2, u) /\ ListingsApart(T, T2, u) /\ SideKept(S, S2)

OwnListing(r, s, u) == s = r \/ (s.item = r.item /\ r.item[1] = u)

LEMMA ListingsRewritten ==
  ASSUME NEW T, NEW T2, NEW h, ImageOf(T, T2, h), NEW u, ListingsOK(T),
         \A r \in T : ListingRow(h[r]) /\ OwnListing(r, h[r], u)
  PROVE  ListingsOK(T2) /\ ListingsApart(T, T2, u)
<1>1. \A r \in T : h[r].item = r.item /\ h[r] \in T2
  BY DEF ImageOf, OwnListing
<1>2. OnePerKey(T2, LAMBDA r : r.item)
  BY <1>1 DEF OnePerKey, ImageOf, ListingsOK
<1>3. IsFiniteSet(T2)
  <2>1. [r \in T |-> h[r]] \in Surjection(T, T2)
    BY DEF Surjection, ImageOf
  <2> QED
    BY <2>1, FS_Surjection DEF ListingsOK
<1>4. \A r \in T2 : ListingRow(r)
  BY DEF ImageOf
<1>5. ListingsApart(T, T2, u)
  <2> SUFFICES ASSUME NEW v \in Users \ {u} PROVE {l \in T2 : l.item[1] = v} = {l \in T : l.item[1] = v}
    BY DEF ListingsApart
  <2>1. \A r \in T : r.item[1] = v => h[r] = r
    BY DEF OwnListing
  <2>2. \A r \in T : h[r].item[1] = v => h[r] = r
    BY DEF OwnListing
  <2> QED
    BY <2>1, <2>2 DEF ImageOf
<1> QED
  BY <1>2, <1>3, <1>4, <1>5 DEF ListingsOK

LEMMA ListingsMapped ==
  ASSUME NEW S, NEW T, ListingsPair(S, T), NEW u, NEW S2, NEW T2,
         NEW h, NEW g, ImageOf(S, S2, h), ImageOf(T, T2, g),
         \A r \in S : ListingRow(h[r]) /\ OwnListing(r, h[r], u) /\ KeepsSide(r, h[r]),
         \A q \in T : ListingRow(g[q]) /\ OwnListing(q, g[q], u),
         \A r \in S, q \in T : ListingTwin(r, q) => ListingTwin(h[r], g[q])
  PROVE  ListingsStep(S, T, S2, T2, u)
<1>1. ListingsOK(S) /\ ListingsOK(T) /\ ListingTwins(S, T)
  BY DEF ListingsPair
<1>2. ListingsOK(S2) /\ ListingsApart(S, S2, u)
  BY <1>1, ListingsRewritten
<1>3. ListingsOK(T2) /\ ListingsApart(T, T2, u)
  BY <1>1, ListingsRewritten
<1>4. SideKept(S, S2)
  <2> SUFFICES ASSUME NEW r \in S, NEW s \in S2, s.item = r.item PROVE KeepsSide(r, s)
    BY DEF SideKept
  <2>1. PICK q \in S : s = h[q]
    BY DEF ImageOf
  <2>2. q.item = r.item
    BY <2>1 DEF OwnListing
  <2>3. q = r
    BY <1>1, <2>2 DEF ListingsOK, OnePerKey
  <2> QED
    BY <2>1, <2>3
<1>5. ListingTwins(S2, T2)
  <2>1. ASSUME NEW s \in S2 PROVE \E t \in T2 : ListingTwin(s, t)
    <3>1. PICK r \in S : s = h[r]
      BY DEF ImageOf
    <3>2. PICK q \in T : ListingTwin(r, q)
      BY <1>1 DEF ListingTwins
    <3>3. g[q] \in T2 /\ ListingTwin(h[r], g[q])
      BY <3>2 DEF ImageOf
    <3> QED
      BY <3>1, <3>3
  <2>2. ASSUME NEW t \in T2 PROVE \E s \in S2 : ListingTwin(s, t)
    <3>1. PICK q \in T : t = g[q]
      BY DEF ImageOf
    <3>2. PICK r \in S : ListingTwin(r, q)
      BY <1>1 DEF ListingTwins
    <3>3. h[r] \in S2 /\ ListingTwin(h[r], g[q])
      BY <3>2 DEF ImageOf
    <3> QED
      BY <3>1, <3>3
  <2> QED
    BY <2>1, <2>2 DEF ListingTwins
<1> QED
  BY <1>2, <1>3, <1>4, <1>5 DEF ListingsPair, ListingsStep

LEMMA SeenEditedSteps ==
  ASSUME NEW S, NEW T, ListingsPair(S, T), NEW u, NEW i, NEW t \in Nat
  PROVE  ListingsStep(S, T, SeenEdited(S, u, i, t \div 2), SeenEdited(T, u, i, t), u)
<1> DEFINE e(r, x) == IF r.item = <<u, i>> THEN [r EXCEPT !.seen = x] ELSE r
           h == [r \in S |-> e(r, t \div 2)]
           g == [q \in T |-> e(q, t)]
<1>1. \A r \in S \cup T : ListingRow(r)
  BY DEF ListingsPair, ListingsOK
<1>2. t \div 2 \in Nat
  OBVIOUS
<1>3. ASSUME NEW r \in S \cup T, NEW x \in Nat
      PROVE  ListingRow(e(r, x)) /\ OwnListing(r, e(r, x), u) /\ KeepsSide(r, e(r, x))
  <2>1. ListingRow(e(r, x))
    BY <1>1 DEF ListingRow, ListingFields
  <2>2. OwnListing(r, e(r, x), u)
    BY <1>1 DEF ListingRow, ListingFields, OwnListing
  <2>3. KeepsSide(r, e(r, x))
    BY <1>1 DEF ListingRow, ListingFields, KeepsSide, UserSide
  <2> QED
    BY <2>1, <2>2, <2>3
<1>4. ASSUME NEW r \in S, NEW q \in T, ListingTwin(r, q)
      PROVE  ListingTwin(e(r, t \div 2), e(q, t))
  BY <1>1, <1>4 DEF ListingRow, ListingFields, ListingTwin
<1>5. SeenEdited(S, u, i, t \div 2) = {e(r, t \div 2) : r \in S} /\ SeenEdited(T, u, i, t) = {e(q, t) : q \in T}
  BY DEF SeenEdited
<1> HIDE DEF e
<1>6. ImageOf(S, SeenEdited(S, u, i, t \div 2), h) /\ ImageOf(T, SeenEdited(T, u, i, t), g)
  BY <1>5 DEF ImageOf
<1>7. /\ \A r \in S : ListingRow(h[r]) /\ OwnListing(r, h[r], u) /\ KeepsSide(r, h[r])
      /\ \A q \in T : ListingRow(g[q]) /\ OwnListing(q, g[q], u)
      /\ \A r \in S, q \in T : ListingTwin(r, q) => ListingTwin(h[r], g[q])
  BY <1>2, <1>3, <1>4
<1> HIDE DEF h, g
<1> QED
  BY <1>6, <1>7, ListingsMapped

LEMMA OfferedEditedSteps ==
  ASSUME NEW S, NEW T, ListingsPair(S, T), NEW u, NEW i
  PROVE  ListingsStep(S, T, OfferedEdited(S, u, i), OfferedEdited(T, u, i), u)
<1> DEFINE e(r, x) == IF r.item = <<u, i>> THEN [r EXCEPT !.offered = TRUE] ELSE r
           h == [r \in S |-> e(r, 0)]
           g == [q \in T |-> e(q, 0)]
<1>1. \A r \in S \cup T : ListingRow(r)
  BY DEF ListingsPair, ListingsOK
<1>2. 0 \in Nat
  OBVIOUS
<1>3. ASSUME NEW r \in S \cup T, NEW x \in Nat
      PROVE  ListingRow(e(r, x)) /\ OwnListing(r, e(r, x), u) /\ KeepsSide(r, e(r, x))
  <2>1. ListingRow(e(r, x))
    BY <1>1 DEF ListingRow, ListingFields
  <2>2. OwnListing(r, e(r, x), u)
    BY <1>1 DEF ListingRow, ListingFields, OwnListing
  <2>3. KeepsSide(r, e(r, x))
    BY <1>1 DEF ListingRow, ListingFields, KeepsSide, UserSide
  <2> QED
    BY <2>1, <2>2, <2>3
<1>4. ASSUME NEW r \in S, NEW q \in T, ListingTwin(r, q)
      PROVE  ListingTwin(e(r, 0), e(q, 0))
  BY <1>1, <1>4 DEF ListingRow, ListingFields, ListingTwin
<1>5. OfferedEdited(S, u, i) = {e(r, 0) : r \in S} /\ OfferedEdited(T, u, i) = {e(q, 0) : q \in T}
  BY DEF OfferedEdited
<1> HIDE DEF e
<1>6. ImageOf(S, OfferedEdited(S, u, i), h) /\ ImageOf(T, OfferedEdited(T, u, i), g)
  BY <1>5 DEF ImageOf
<1>7. /\ \A r \in S : ListingRow(h[r]) /\ OwnListing(r, h[r], u) /\ KeepsSide(r, h[r])
      /\ \A q \in T : ListingRow(g[q]) /\ OwnListing(q, g[q], u)
      /\ \A r \in S, q \in T : ListingTwin(r, q) => ListingTwin(h[r], g[q])
  BY <1>2, <1>3, <1>4
<1> HIDE DEF h, g
<1> QED
  BY <1>6, <1>7, ListingsMapped

LEMMA FeedbackEditedSteps ==
  ASSUME NEW S, NEW T, ListingsPair(S, T), NEW u, NEW i, NEW t \in Nat, NEW feedback
  PROVE  ListingsStep(S, T, FeedbackEdited(S, u, i, feedback, t \div 2), FeedbackEdited(T, u, i, feedback, t), u)
<1> DEFINE e(r, x) == IF r.item = <<u, i>> THEN [r EXCEPT !.feedback = feedback, !.judged = IF feedback = Blank THEN 0 ELSE x] ELSE r
           h == [r \in S |-> e(r, t \div 2)]
           g == [q \in T |-> e(q, t)]
<1>1. \A r \in S \cup T : ListingRow(r)
  BY DEF ListingsPair, ListingsOK
<1>2. t \div 2 \in Nat
  OBVIOUS
<1>3. ASSUME NEW r \in S \cup T, NEW x \in Nat
      PROVE  ListingRow(e(r, x)) /\ OwnListing(r, e(r, x), u) /\ KeepsSide(r, e(r, x))
  <2>1. ListingRow(e(r, x))
    BY <1>1 DEF ListingRow, ListingFields
  <2>2. OwnListing(r, e(r, x), u)
    BY <1>1 DEF ListingRow, ListingFields, OwnListing
  <2>3. KeepsSide(r, e(r, x))
    BY <1>1 DEF ListingRow, ListingFields, KeepsSide, UserSide
  <2> QED
    BY <2>1, <2>2, <2>3
<1>4. ASSUME NEW r \in S, NEW q \in T, ListingTwin(r, q)
      PROVE  ListingTwin(e(r, t \div 2), e(q, t))
  BY <1>1, <1>4 DEF ListingRow, ListingFields, ListingTwin
<1>5. FeedbackEdited(S, u, i, feedback, t \div 2) = {e(r, t \div 2) : r \in S} /\ FeedbackEdited(T, u, i, feedback, t) = {e(q, t) : q \in T}
  BY DEF FeedbackEdited
<1> HIDE DEF e
<1>6. ImageOf(S, FeedbackEdited(S, u, i, feedback, t \div 2), h) /\ ImageOf(T, FeedbackEdited(T, u, i, feedback, t), g)
  BY <1>5 DEF ImageOf
<1>7. /\ \A r \in S : ListingRow(h[r]) /\ OwnListing(r, h[r], u) /\ KeepsSide(r, h[r])
      /\ \A q \in T : ListingRow(g[q]) /\ OwnListing(q, g[q], u)
      /\ \A r \in S, q \in T : ListingTwin(r, q) => ListingTwin(h[r], g[q])
  BY <1>2, <1>3, <1>4
<1> HIDE DEF h, g
<1> QED
  BY <1>6, <1>7, ListingsMapped

LEMMA OutreachEditedSteps ==
  ASSUME NEW S, NEW T, ListingsPair(S, T), NEW u, NEW i, NEW status
  PROVE  ListingsStep(S, T, OutreachEdited(S, u, i, status), OutreachEdited(T, u, i, status), u)
<1> DEFINE e(r, x) == IF r.item = <<u, i>> THEN [r EXCEPT !.outreach = status] ELSE r
           h == [r \in S |-> e(r, 0)]
           g == [q \in T |-> e(q, 0)]
<1>1. \A r \in S \cup T : ListingRow(r)
  BY DEF ListingsPair, ListingsOK
<1>2. 0 \in Nat
  OBVIOUS
<1>3. ASSUME NEW r \in S \cup T, NEW x \in Nat
      PROVE  ListingRow(e(r, x)) /\ OwnListing(r, e(r, x), u) /\ KeepsSide(r, e(r, x))
  <2>1. ListingRow(e(r, x))
    BY <1>1 DEF ListingRow, ListingFields
  <2>2. OwnListing(r, e(r, x), u)
    BY <1>1 DEF ListingRow, ListingFields, OwnListing
  <2>3. KeepsSide(r, e(r, x))
    BY <1>1 DEF ListingRow, ListingFields, KeepsSide, UserSide
  <2> QED
    BY <2>1, <2>2, <2>3
<1>4. ASSUME NEW r \in S, NEW q \in T, ListingTwin(r, q)
      PROVE  ListingTwin(e(r, 0), e(q, 0))
  BY <1>1, <1>4 DEF ListingRow, ListingFields, ListingTwin
<1>5. OutreachEdited(S, u, i, status) = {e(r, 0) : r \in S} /\ OutreachEdited(T, u, i, status) = {e(q, 0) : q \in T}
  BY DEF OutreachEdited
<1> HIDE DEF e
<1>6. ImageOf(S, OutreachEdited(S, u, i, status), h) /\ ImageOf(T, OutreachEdited(T, u, i, status), g)
  BY <1>5 DEF ImageOf
<1>7. /\ \A r \in S : ListingRow(h[r]) /\ OwnListing(r, h[r], u) /\ KeepsSide(r, h[r])
      /\ \A q \in T : ListingRow(g[q]) /\ OwnListing(q, g[q], u)
      /\ \A r \in S, q \in T : ListingTwin(r, q) => ListingTwin(h[r], g[q])
  BY <1>2, <1>3, <1>4
<1> HIDE DEF h, g
<1> QED
  BY <1>6, <1>7, ListingsMapped

LEMMA ListingSavedSteps ==
  ASSUME NEW S, NEW T, ListingsPair(S, T), NEW u \in Users, NEW f \in Finds, NEW m, NEW t \in Nat
  PROVE  ListingsStep(S, T, ListingSaved(S, u, f, m, t \div 2), ListingSaved(T, u, f, m, t), u)
<1>f. f.item \in Items /\ f.score \in Nat /\ f.offer \in Nat
  BY StoresAssumption
<1>t. t \div 2 \in Nat
  OBVIOUS
<1>p. ListingsOK(S) /\ ListingsOK(T) /\ ListingTwins(S, T)
  BY DEF ListingsPair
<1>k. (\E r \in S : r.item = <<u, f.item>>) <=> (\E q \in T : q.item = <<u, f.item>>)
  BY <1>p DEF ListingTwins, ListingTwin
<1>1. CASE \E r \in S : r.item = <<u, f.item>>
  <2> DEFINE e(r, x) == IF r.item = <<u, f.item>> THEN FoundAgain(r, f, m, x) ELSE r
             h == [r \in S |-> e(r, t \div 2)]
             g == [q \in T |-> e(q, t)]
  <2>1. \A r \in S \cup T : ListingRow(r)
    BY DEF ListingsPair, ListingsOK
  <2>2. ASSUME NEW r \in S \cup T, NEW x \in Nat
        PROVE  ListingRow(e(r, x)) /\ OwnListing(r, e(r, x), u) /\ KeepsSide(r, e(r, x))
    <3>1. ListingRow(e(r, x))
      BY <1>f, <2>1 DEF ListingRow, ListingFields, FoundAgain
    <3>2. OwnListing(r, e(r, x), u)
      BY <2>1 DEF ListingRow, ListingFields, OwnListing, FoundAgain
    <3>3. KeepsSide(r, e(r, x))
      BY <2>1 DEF ListingRow, ListingFields, KeepsSide, UserSide, FoundAgain
    <3> QED
      BY <3>1, <3>2, <3>3
  <2>3. ASSUME NEW r \in S, NEW q \in T, ListingTwin(r, q)
        PROVE  ListingTwin(e(r, t \div 2), e(q, t))
    BY <2>1, <2>3 DEF ListingRow, ListingFields, ListingTwin, FoundAgain
  <2>4. /\ ListingSaved(S, u, f, m, t \div 2) = {e(r, t \div 2) : r \in S}
        /\ ListingSaved(T, u, f, m, t) = {e(q, t) : q \in T}
    BY <1>1, <1>k DEF ListingSaved
  <2> HIDE DEF e
  <2>5. ImageOf(S, ListingSaved(S, u, f, m, t \div 2), h) /\ ImageOf(T, ListingSaved(T, u, f, m, t), g)
    BY <2>4 DEF ImageOf
  <2>6. /\ \A r \in S : ListingRow(h[r]) /\ OwnListing(r, h[r], u) /\ KeepsSide(r, h[r])
        /\ \A q \in T : ListingRow(g[q]) /\ OwnListing(q, g[q], u)
        /\ \A r \in S, q \in T : ListingTwin(r, q) => ListingTwin(h[r], g[q])
    BY <1>t, <2>2, <2>3
  <2> HIDE DEF h, g
  <2> QED
    BY <2>5, <2>6, ListingsMapped
<1>2. CASE ~\E r \in S : r.item = <<u, f.item>>
  <2> DEFINE row(x) == NewRow(u, f, m, x)
  <2>1. ASSUME NEW x \in Nat PROVE ListingRow(row(x)) /\ row(x).item = <<u, f.item>>
    BY <1>f DEF NewRow, ListingRow, ListingFields
  <2>2. ListingTwin(row(t \div 2), row(t))
    BY DEF NewRow, ListingTwin
  <2>3. ListingSaved(S, u, f, m, t \div 2) = S \cup {row(t \div 2)} /\ ListingSaved(T, u, f, m, t) = T \cup {row(t)}
    BY <1>2, <1>k DEF ListingSaved
  <2> HIDE DEF row
  <2>4. ASSUME NEW U, ListingsOK(U), \A r \in U : r.item # <<u, f.item>>, NEW x \in Nat
        PROVE  ListingsOK(U \cup {row(x)}) /\ ListingsApart(U, U \cup {row(x)}, u)
    <3>1. ListingRow(row(x)) /\ row(x).item = <<u, f.item>> /\ row(x).item[1] = u
      BY <2>1
    <3>2. OnePerKey(U \cup {row(x)}, LAMBDA r : r.item)
      BY <2>4, <3>1 DEF ListingsOK, OnePerKey
    <3>3. IsFiniteSet(U \cup {row(x)})
      BY <2>4, FS_AddElement DEF ListingsOK
    <3>4. ListingsApart(U, U \cup {row(x)}, u)
      BY <3>1 DEF ListingsApart
    <3> QED
      BY <2>4, <3>1, <3>2, <3>3, <3>4 DEF ListingsOK
  <2>5. ListingsOK(S \cup {row(t \div 2)}) /\ ListingsApart(S, S \cup {row(t \div 2)}, u)
    BY <1>2, <1>p, <1>t, <2>4
  <2>6. ListingsOK(T \cup {row(t)}) /\ ListingsApart(T, T \cup {row(t)}, u)
    BY <1>2, <1>k, <1>p, <2>4
  <2>7. ListingTwins(S \cup {row(t \div 2)}, T \cup {row(t)})
    BY <1>p, <2>2 DEF ListingTwins
  <2>8. SideKept(S, S \cup {row(t \div 2)})
    <3>1. row(t \div 2).item = <<u, f.item>>
      BY <1>t, <2>1
    <3>2. \A r, s \in S : s.item = r.item => s = r
      BY <1>p DEF ListingsOK, OnePerKey
    <3> QED
      BY <1>2, <3>1, <3>2 DEF SideKept, KeepsSide
  <2> QED
    BY <2>3, <2>5, <2>6, <2>7, <2>8 DEF ListingsPair, ListingsStep
<1> QED
  BY <1>1, <1>2

\* The listings of a deleted mission go.
LEMMA ListingsRemovedSteps ==
  ASSUME NEW S, NEW T, ListingsPair(S, T), NEW u, NEW id, NEW S2, NEW T2,
         \A l : l \in S2 <=> l \in S /\ ~(l.mission = id /\ l.item[1] = u),
         \A l : l \in T2 <=> l \in T /\ ~(l.mission = id /\ l.item[1] = u)
  PROVE  ListingsStep(S, T, S2, T2, u)
<1>1. ASSUME NEW U, ListingsOK(U), NEW V, \A l : l \in V <=> l \in U /\ ~(l.mission = id /\ l.item[1] = u)
      PROVE  ListingsOK(V) /\ ListingsApart(U, V, u) /\ SideKept(U, V)
  <2>0. V \subseteq U
    BY <1>1
  <2>1. IsFiniteSet(V)
    BY <1>1, <2>0, FS_Subset DEF ListingsOK
  <2>2. OnePerKey(V, LAMBDA r : r.item) /\ \A r \in V : ListingRow(r)
    BY <1>1, <2>0 DEF ListingsOK, OnePerKey
  <2>3. ListingsApart(U, V, u)
    BY <1>1 DEF ListingsApart
  <2>4. SideKept(U, V)
    <3>1. \A r, s \in U : s.item = r.item => s = r
      BY <1>1 DEF ListingsOK, OnePerKey
    <3> QED
      BY <2>0, <3>1 DEF SideKept, KeepsSide
  <2> QED
    BY <1>1, <2>1, <2>2, <2>3, <2>4 DEF ListingsOK
<1>2. ListingTwins(S2, T2)
  BY DEF ListingsPair, ListingTwins, ListingTwin
<1> QED
  BY <1>1, <1>2 DEF ListingsPair, ListingsStep

-----------------------------------------------------------------------------
(* The other tables, and the two stores as a pair.                          *)

MissionsPair(S, T, n) == MissionsOK(S, n) /\ MissionsOK(T, n) /\ MissionTwins(S, T)
MissionsStep(S, T, S2, T2, n, u) ==
  MissionsPair(S2, T2, n) /\ Apart(S, S2, u) /\ Apart(T, T2, u) /\ IdsKept(S, S2)

PriceTwin(r, q) ==
  /\ r.id = q.id /\ r.query = q.query /\ r.model = q.model /\ r.market = q.market /\ r.price = q.price
  /\ q.at \in Nat /\ r.at = q.at \div 2
PriceTwins(S, T) == (\A r \in S : \E q \in T : PriceTwin(r, q)) /\ (\A q \in T : \E r \in S : PriceTwin(r, q))
PricesPair(S, T, n) ==
  IsFiniteSet(S) /\ IsFiniteSet(T) /\ Keyed(S, n) /\ Keyed(T, n) /\ PriceTwins(S, T)

\* What one session is in the two stores.
SessionTwin(r, q) ==
  \E u \in Users, question \in Nat, d \in SessionDrafts :
    r = SQLiteSession(u, question, d) /\ q = PostgresSession(u, question, d)
SessionTwins(S, T) == (\A r \in S : \E q \in T : SessionTwin(r, q)) /\ (\A q \in T : \E r \in S : SessionTwin(r, q))
SessionsPair(S, T) ==
  OnePerKey(S, LAMBDA r : r.user) /\ OnePerKey(T, LAMBDA r : r.user) /\ SessionTwins(S, T)

UsersOK(T) ==
  /\ IsFiniteSet(T) /\ OnePerKey(T, LAMBDA r : r.id) /\ OnePerKey(T, LAMBDA r : r.email)
  /\ \A r \in T : {"id", "email"} \subseteq DOMAIN r
SnapshotsOK(T) == IsFiniteSet(T) /\ OnePerKey(T, LAMBDA r : r.sub)
InvoicesOK(T) ==
  IsFiniteSet(T) /\ OnePerKey(T, LAMBDA r : r.invoice) /\ \A r \in T : r.at \in Nat /\ r.amount \in Nat

\* Of the logs: a run that succeeded has no error code.
LogRow(k, r) ==
  /\ k = "runs" => r.at \in Nat /\ (r.status = "success" => r.code = Blank)
  /\ k = "usage" => r.user \in Users \cup {Blank} /\ r.tokens \in Nat /\ r.at \in Nat
  /\ k = "reconciles" => "id" \in DOMAIN r

\* A column alone, or a pair of them, is a key.
Unique(k, T) ==
  /\ k = "shortlist" => OnePerKey(T, LAMBDA r : <<r.user, r.item>>)
  /\ k = "scores" => OnePerKey(T, LAMBDA r : r.key)
  /\ k = "users" => UsersOK(T)
  /\ k = "identities" => OnePerKey(T, LAMBDA r : <<r.provider, r.subject>>) /\ OnePerKey(T, LAMBDA r : <<r.provider, r.user>>)
  /\ k = "webhooks" => OnePerKey(T, LAMBDA r : r.event)
  /\ k = "mutations" => OnePerKey(T, LAMBDA r : r.key)
  /\ k = "snapshots" => SnapshotsOK(T)
  /\ k = "invoices" => InvoicesOK(T)
  /\ k \in {"runs", "usage", "reconciles"} => \A r \in T : LogRow(k, r)

Numbered == {"artifacts", "drafts", "usage", "runs", "history", "reconciles", "audit"}
Twinned == {"missions", "searches", "listings", "prices", "sessions"}

\* Table k of SQLite and of Postgres, when n is the last id.
TablePair(k, S, T, n) ==
  /\ k = "missions" => MissionsPair(S, T, n)
  /\ k = "searches" => SearchesPair(S, T, n)
  /\ k = "listings" => ListingsPair(S, T)
  /\ k = "prices" => PricesPair(S, T, n)
  /\ k = "sessions" => SessionsPair(S, T)
  /\ k \notin Twinned => S = T
  /\ k \in Numbered => Keyed(S, n)
  /\ Unique(k, S)
Paired(s, p) ==
  /\ Schema(s) /\ Schema(p) /\ s.ids = p.ids
  /\ \A k \in Tables : TablePair(k, s[k], p[k], s.ids)

Owned == {"missions", "searches", "shortlist", "sessions", "drafts", "artifacts"}
TableApart(k, T, T2, u) == (k \in Owned => Apart(T, T2, u)) /\ (k = "listings" => ListingsApart(T, T2, u))

\* A step of u from the pair s0, p0 to the pair s, p.
Move(u, s0, p0, s, p) ==
  /\ Paired(s, p)
  /\ \A k \in Tables : TableApart(k, s0[k], s[k], u) /\ TableApart(k, p0[k], p[k], u)
  /\ SideKept(s0.listings, s.listings)
  /\ Emptied(s0, s) /\ Emptied(p0, p)

-----------------------------------------------------------------------------
LEMMA PairGrows ==
  ASSUME NEW k, NEW S, NEW T, NEW n \in Nat, NEW m \in Nat, n <= m, TablePair(k, S, T, n)
  PROVE  TablePair(k, S, T, m)
<1>1. \A U : Keyed(U, n) => Keyed(U, m)
  BY KeyedGrows
<1> HIDE DEF Unique
<1>2. MissionsPair(S, T, n) => MissionsPair(S, T, m)
  BY <1>1 DEF MissionsPair, MissionsOK
<1>3. SearchesPair(S, T, n) => SearchesPair(S, T, m)
  BY <1>1 DEF SearchesPair, SearchesOK
<1>4. PricesPair(S, T, n) => PricesPair(S, T, m)
  BY <1>1 DEF PricesPair
<1> QED
  BY <1>1, <1>2, <1>3, <1>4 DEF TablePair

LEMMA Stays ==
  ASSUME NEW k, NEW T, NEW u
  PROVE  TableApart(k, T, T, u) /\ (ListingsOK(T) => SideKept(T, T)) /\ IdsKept(T, T)
<1>1. ListingsOK(T) => SideKept(T, T)
  BY DEF ListingsOK, OnePerKey, SideKept, KeepsSide
<1> QED
  BY <1>1 DEF TableApart, Apart, ListingsApart, IdsKept

LEMMA KeptEmptied ==
  ASSUME NEW db, NEW d, IdsKept(db.missions, d.missions)
  PROVE  Emptied(db, d)
  BY DEF IdsKept, Emptied

\* What keeps SQLite's missions keeps Postgres'.
LEMMA KeptInBoth ==
  ASSUME NEW S, NEW T, NEW S2, NEW T2, MissionTwins(S, T), MissionTwins(S2, T2), IdsKept(S, S2)
  PROVE  IdsKept(T, T2)
  BY DEF MissionTwins, MissionTwin, IdsKept

\* A step that writes the tables of K.
LEMMA SomeTables ==
  ASSUME NEW s0, NEW p0, Paired(s0, p0), NEW u, NEW K, K \subseteq Tables, NEW s, NEW p,
         DOMAIN s = DOMAIN s0, DOMAIN p = DOMAIN p0,
         \A k \in DOMAIN s0 : k \notin K \cup {"ids"} => s[k] = s0[k],
         \A k \in DOMAIN p0 : k \notin K \cup {"ids"} => p[k] = p0[k],
         s.ids \in Nat, s.ids = p.ids, s0.ids <= s.ids,
         \A k \in K : TablePair(k, s[k], p[k], s.ids) /\ TableApart(k, s0[k], s[k], u) /\ TableApart(k, p0[k], p[k], u),
         "listings" \in K => SideKept(s0["listings"], s["listings"]),
         Emptied(s0, s), Emptied(p0, p)
  PROVE  Move(u, s0, p0, s, p)
<1>1. /\ Schema(s0) /\ Schema(p0) /\ s0.ids = p0.ids /\ s0.ids \in Nat /\ "ids" \notin Tables
      /\ Tables \subseteq DOMAIN s0 /\ Tables \subseteq DOMAIN p0
      /\ \A k \in Tables : TablePair(k, s0[k], p0[k], s0.ids)
  BY DEF Paired, Schema, Tables
<1>2. Schema(s) /\ Schema(p)
  BY <1>1 DEF Schema
<1>3. ASSUME NEW k \in Tables
      PROVE  TablePair(k, s[k], p[k], s.ids) /\ TableApart(k, s0[k], s[k], u) /\ TableApart(k, p0[k], p[k], u)
  <2>1. CASE k \in K
    BY <2>1
  <2>2. CASE k \notin K
    <3>1. k # "ids" /\ s[k] = s0[k] /\ p[k] = p0[k]
      BY <1>1, <2>2
    <3>2. TablePair(k, s0[k], p0[k], s.ids)
      BY <1>1, PairGrows
    <3>3. TableApart(k, s0[k], s0[k], u) /\ TableApart(k, p0[k], p0[k], u)
      BY Stays
    <3> QED
      BY <3>1, <3>2, <3>3
  <2> QED
    BY <2>1, <2>2
<1>4. SideKept(s0["listings"], s["listings"])
  <2>1. CASE "listings" \notin K
    <3>1. "listings" \in Tables
      BY DEF Tables
    <3>2. s["listings"] = s0["listings"]
      BY <1>1, <2>1, <3>1
    <3>3. ListingsOK(s0["listings"])
      BY <1>1, <3>1 DEF TablePair, ListingsPair
    <3> QED
      BY <3>2, <3>3, Stays
  <2> QED
    BY <2>1
<1> QED
  BY <1>2, <1>3, <1>4 DEF Move, Paired

\* A step that writes one table, and perhaps takes an id.
LEMMA OneTable ==
  ASSUME NEW s0, NEW p0, Paired(s0, p0), NEW u, NEW k \in Tables, NEW s, NEW p,
         (Writing1(s0, s, k) /\ Writing1(p0, p, k)) \/ (Adding(s0, s, k) /\ Adding(p0, p, k)),
         TablePair(k, s[k], p[k], s.ids), TableApart(k, s0[k], s[k], u), TableApart(k, p0[k], p[k], u),
         k = "listings" => SideKept(s0["listings"], s["listings"]),
         k = "missions" => IdsKept(s0["missions"], s["missions"])
  PROVE  Move(u, s0, p0, s, p)
<1>1. "ids" \notin Tables /\ "missions" \in Tables
  BY DEF Tables
<1>2. /\ s0.ids \in Nat /\ p0.ids \in Nat /\ s0.ids = p0.ids
      /\ Tables \cup {"ids"} \subseteq DOMAIN s0 /\ Tables \cup {"ids"} \subseteq DOMAIN p0
  BY DEF Paired, Schema
<1>3. /\ DOMAIN s = DOMAIN s0 /\ DOMAIN p = DOMAIN p0
      /\ \A j \in DOMAIN s0 : j \notin {k} \cup {"ids"} => s[j] = s0[j]
      /\ \A j \in DOMAIN p0 : j \notin {k} \cup {"ids"} => p[j] = p0[j]
  BY DEF Writing1, Adding
<1>4. s.ids \in Nat /\ s.ids = p.ids /\ s0.ids <= s.ids
  BY <1>1, <1>2 DEF Writing1, Adding
<1>5. IdsKept(s0.missions, s.missions) /\ IdsKept(p0.missions, p.missions)
  <2>1. CASE k # "missions"
    <3>1. s["missions"] = s0["missions"] /\ p["missions"] = p0["missions"]
      BY <1>1, <1>2, <1>3, <2>1
    <3> QED
      BY <3>1 DEF IdsKept
  <2>2. CASE k = "missions"
    <3>1. MissionTwins(s.missions, p.missions)
      BY <2>2 DEF TablePair, MissionsPair
    <3>2. TablePair("missions", s0["missions"], p0["missions"], s0.ids)
      BY <1>1 DEF Paired
    <3>3. MissionTwins(s0.missions, p0.missions)
      BY <3>2 DEF TablePair, MissionsPair
    <3> QED
      BY <2>2, <3>1, <3>3, KeptInBoth
  <2> QED
    BY <2>1, <2>2
<1>6. Emptied(s0, s) /\ Emptied(p0, p)
  BY <1>5, KeptEmptied
<1> DEFINE K == {k}
<1>7. \A j \in K : TablePair(j, s[j], p[j], s.ids) /\ TableApart(j, s0[j], s[j], u) /\ TableApart(j, p0[j], p[j], u)
  OBVIOUS
<1>8. K \subseteq Tables /\ ("listings" \in K => SideKept(s0["listings"], s["listings"]))
  OBVIOUS
<1>9. /\ \A j \in DOMAIN s0 : j \notin K \cup {"ids"} => s[j] = s0[j]
      /\ \A j \in DOMAIN p0 : j \notin K \cup {"ids"} => p[j] = p0[j]
  BY <1>3
<1> HIDE DEF K
<1> QED
  BY <1>3, <1>4, <1>6, <1>7, <1>8, <1>9, SomeTables

-----------------------------------------------------------------------------
(* A pair of stores taken apart.                                            *)

LEMMA PairOf ==
  ASSUME NEW S, NEW T, NEW n
  PROVE  /\ MissionsPair(S, T, n) <=> TablePair("missions", S, T, n)
         /\ SearchesPair(S, T, n) <=> TablePair("searches", S, T, n)
         /\ ListingsPair(S, T) <=> TablePair("listings", S, T, n)
         /\ PricesPair(S, T, n) <=> TablePair("prices", S, T, n)
         /\ SessionsPair(S, T) <=> TablePair("sessions", S, T, n)
<1>1. /\ Unique("missions", S) /\ Unique("searches", S) /\ Unique("listings", S) /\ Unique("prices", S)
      /\ Unique("sessions", S)
  BY DEF Unique
<1> QED
  BY <1>1 DEF TablePair, Twinned, Numbered

LEMMA SameOf ==
  ASSUME NEW S, NEW T, NEW n
  PROVE  /\ TablePair("shortlist", S, T, n) <=> S = T /\ ShortlistOK(S)
         /\ TablePair("scores", S, T, n) <=> S = T /\ OnePerKey(S, LAMBDA r : r.key)
         /\ TablePair("artifacts", S, T, n) <=> S = T /\ Keyed(S, n)
         /\ TablePair("drafts", S, T, n) <=> S = T /\ Keyed(S, n)
<1> DEFINE Shorts == OnePerKey(S, LAMBDA r : <<r.user, r.item>>)
           Scores == OnePerKey(S, LAMBDA r : r.key)
<1>1. Unique("artifacts", S) /\ Unique("drafts", S)
  BY DEF Unique
<1>2. (Unique("shortlist", S) <=> Shorts) /\ (Unique("scores", S) <=> Scores)
  BY DEF Unique
<1> QED
  BY <1>1, <1>2 DEF TablePair, Twinned, Numbered, ShortlistOK

LEMMA ApartOf ==
  ASSUME NEW T, NEW T2, NEW u
  PROVE  /\ \A k \in Owned : Apart(T, T2, u) => TableApart(k, T, T2, u)
         /\ ListingsApart(T, T2, u) => TableApart("listings", T, T2, u)
         /\ \A k : k \notin Owned \cup {"listings"} => TableApart(k, T, T2, u)
  BY DEF TableApart, Owned

\* What the tables of a pair are.
LEMMA Pairs ==
  ASSUME NEW s, NEW p, Paired(s, p)
  PROVE  /\ Schema(s) /\ Schema(p) /\ s.ids = p.ids /\ s.ids \in Nat
         /\ MissionsPair(s.missions, p.missions, s.ids)
         /\ SearchesPair(s.searches, p.searches, s.ids)
         /\ ListingsPair(s.listings, p.listings)
         /\ PricesPair(s.prices, p.prices, s.ids)
         /\ SessionsPair(s.sessions, p.sessions)
         /\ s.shortlist = p.shortlist /\ ShortlistOK(s.shortlist)
         /\ s.scores = p.scores /\ OnePerKey(s.scores, LAMBDA r : r.key)
         /\ s.artifacts = p.artifacts /\ Keyed(s.artifacts, s.ids)
         /\ s.drafts = p.drafts /\ Keyed(s.drafts, s.ids)
<1>1. Schema(s) /\ Schema(p) /\ s.ids = p.ids /\ s.ids \in Nat
  BY DEF Paired, Schema
<1>2. /\ TablePair("missions", s["missions"], p["missions"], s.ids) /\ TablePair("searches", s["searches"], p["searches"], s.ids)
      /\ TablePair("listings", s["listings"], p["listings"], s.ids) /\ TablePair("prices", s["prices"], p["prices"], s.ids)
      /\ TablePair("sessions", s["sessions"], p["sessions"], s.ids) /\ TablePair("shortlist", s["shortlist"], p["shortlist"], s.ids)
      /\ TablePair("scores", s["scores"], p["scores"], s.ids) /\ TablePair("artifacts", s["artifacts"], p["artifacts"], s.ids)
      /\ TablePair("drafts", s["drafts"], p["drafts"], s.ids)
  BY DEF Paired, Tables
<1>3. /\ MissionsPair(s.missions, p.missions, s.ids)
      /\ SearchesPair(s.searches, p.searches, s.ids)
      /\ ListingsPair(s.listings, p.listings)
      /\ PricesPair(s.prices, p.prices, s.ids)
      /\ SessionsPair(s.sessions, p.sessions)
      /\ s.shortlist = p.shortlist /\ ShortlistOK(s.shortlist)
      /\ s.artifacts = p.artifacts /\ Keyed(s.artifacts, s.ids)
      /\ s.drafts = p.drafts /\ Keyed(s.drafts, s.ids)
  BY <1>2, PairOf, SameOf
<1>4. s.scores = p.scores /\ OnePerKey(s.scores, LAMBDA r : r.key)
  <2>1. "scores" \notin Twinned
    BY DEF Twinned
  <2>2. Unique("scores", s["scores"])
    BY <1>2, Zenon DEF TablePair
  <2>3. OnePerKey(s.scores, LAMBDA r : r.key)
    BY <2>2, Zenon DEF Unique
  <2> QED
    BY <1>2, <2>1, <2>3, Zenon DEF TablePair
<1> QED
  BY <1>1, <1>3, <1>4

\* A mission or a search that SQLite keeps for u is u's in both stores.
LEMMA OwnId ==
  ASSUME NEW s, NEW p, Paired(s, p)
  PROVE  /\ \A m \in s.missions : \A r \in s.missions \cup p.missions : r.id = m.id => r.user = m.user
         /\ \A m \in s.searches : \A r \in s.searches \cup p.searches : r.id = m.id => r.user = m.user
         /\ \A m \in s.missions : m.id > 0
<1>1. MissionsPair(s.missions, p.missions, s.ids) /\ SearchesPair(s.searches, p.searches, s.ids)
  BY Pairs
<1>2. /\ Keyed(s.missions, s.ids) /\ Keyed(p.missions, s.ids) /\ MissionTwins(s.missions, p.missions)
      /\ Keyed(s.searches, s.ids) /\ Keyed(p.searches, s.ids) /\ SearchTwins(s.searches, p.searches) /\ s.ids \in Nat
  BY <1>1, Pairs DEF MissionsPair, MissionsOK, SearchesPair, SearchesOK
<1>3. \A m \in s.missions : \A r \in s.missions \cup p.missions : r.id = m.id => r.user = m.user
  BY <1>2 DEF Keyed, MissionTwins, MissionTwin
<1>4. \A m \in s.searches : \A r \in s.searches \cup p.searches : r.id = m.id => r.user = m.user
  BY <1>2 DEF Keyed, SearchTwins, SearchTwin
<1>5. \A m \in s.missions : m.id > 0
  BY <1>2 DEF Keyed
<1> QED
  BY <1>3, <1>4, <1>5

-----------------------------------------------------------------------------
(* The calls, one by one, as moves of their user.                           *)

LEMMA MissionsMove ==
  ASSUME NEW s0, NEW p0, Paired(s0, p0), NEW u, NEW s, NEW p,
         (Writing1(s0, s, "missions") /\ Writing1(p0, p, "missions")) \/ (Adding(s0, s, "missions") /\ Adding(p0, p, "missions")),
         MissionsStep(s0.missions, p0.missions, s.missions, p.missions, s.ids, u)
  PROVE  Move(u, s0, p0, s, p)
<1>1. "missions" \in Tables /\ "missions" \in Owned
  BY DEF Tables, Owned
<1>2. TablePair("missions", s["missions"], p["missions"], s.ids)
  BY PairOf DEF MissionsStep
<1>3. TableApart("missions", s0["missions"], s["missions"], u) /\ TableApart("missions", p0["missions"], p["missions"], u)
  BY <1>1, ApartOf DEF MissionsStep
<1>4. IdsKept(s0["missions"], s["missions"])
  BY DEF MissionsStep
<1> HIDE DEF Tables, TablePair, TableApart, Move, Paired
<1> QED
  BY <1>1, <1>2, <1>3, <1>4, OneTable

LEMMA SearchesMove ==
  ASSUME NEW s0, NEW p0, Paired(s0, p0), NEW u, NEW s, NEW p,
         (Writing1(s0, s, "searches") /\ Writing1(p0, p, "searches")) \/ (Adding(s0, s, "searches") /\ Adding(p0, p, "searches")),
         SearchesStep(s0.searches, p0.searches, s.searches, p.searches, s.ids, u)
  PROVE  Move(u, s0, p0, s, p)
<1>1. "searches" \in Tables /\ "searches" \in Owned
  BY DEF Tables, Owned
<1>2. TablePair("searches", s["searches"], p["searches"], s.ids)
  BY PairOf DEF SearchesStep
<1>3. TableApart("searches", s0["searches"], s["searches"], u) /\ TableApart("searches", p0["searches"], p["searches"], u)
  BY <1>1, ApartOf DEF SearchesStep
<1> QED
  BY <1>1, <1>2, <1>3, OneTable

LEMMA ListingsMove ==
  ASSUME NEW s0, NEW p0, Paired(s0, p0), NEW u, NEW s, NEW p,
         Writing1(s0, s, "listings"), Writing1(p0, p, "listings"),
         ListingsStep(s0.listings, p0.listings, s.listings, p.listings, u)
  PROVE  Move(u, s0, p0, s, p)
<1>1. "listings" \in Tables
  BY DEF Tables
<1>2. TablePair("listings", s["listings"], p["listings"], s.ids)
  BY PairOf DEF ListingsStep
<1>3. TableApart("listings", s0["listings"], s["listings"], u) /\ TableApart("listings", p0["listings"], p["listings"], u)
  BY ApartOf DEF ListingsStep
<1>4. SideKept(s0["listings"], s["listings"])
  BY DEF ListingsStep
<1> QED
  BY <1>1, <1>2, <1>3, <1>4, OneTable

\* The id is 0 for a new mission.
LEMMA UpsertMissionMoves ==
  ASSUME NEW s, NEW p, Paired(s, p), NEW t \in Nat, NEW u \in Users, NEW m,
         m.user = u, m.status # Blank, m.active = (m.status = "active"),
         m.id = 0 \/ \E r \in s.missions : r.id = m.id /\ r.user = u
  PROVE  Move(u, s, p, SQLite!UpsertMission(s, t, m), Postgres!UpsertMission(p, t, m))
<1> DEFINE s2 == SQLite!UpsertMission(s, t, m)
           p2 == Postgres!UpsertMission(p, t, m)
<1>1. /\ Schema(s) /\ Schema(p) /\ s.ids = p.ids /\ s.ids \in Nat
      /\ MissionsPair(s.missions, p.missions, s.ids)
  BY Pairs
<1>2. MissionsOK(s.missions, s.ids) /\ MissionsOK(p.missions, s.ids) /\ MissionTwins(s.missions, p.missions)
  BY <1>1 DEF MissionsPair
<1>3. t \div 2 \in Nat
  OBVIOUS
<1>4. CASE m.id = 0
  <2>1. ~(m.id > 0)
    BY <1>4
  <2>2. /\ Adding(s, s2, "missions") /\ s2.missions = s.missions \cup {NewMission(s.ids + 1, u, m, t \div 2)}
        /\ Adding(p, p2, "missions") /\ p2.missions = p.missions \cup {NewMission(s.ids + 1, u, m, t)}
    BY <1>1, <2>1, UpsertMissionWrites
  <2>3. s2.ids = s.ids + 1
    BY <2>2 DEF Adding
  <2> DEFINE S2 == s.missions \cup {NewMission(s.ids + 1, u, m, t \div 2)}
             T2 == p.missions \cup {NewMission(s.ids + 1, u, m, t)}
  <2>4. MissionsOK(S2, s.ids + 1) /\ Apart(s.missions, S2, u) /\ IdsKept(s.missions, S2)
    BY <1>1, <1>2, <1>3, NewMissionKeeps
  <2>5. MissionsOK(T2, s.ids + 1) /\ Apart(p.missions, T2, u)
    BY <1>1, <1>2, NewMissionKeeps
  <2>6. MissionTwins(S2, T2)
    BY <1>2, NewMissionTwins
  <2> HIDE DEF s2, p2, S2, T2
  <2>7. MissionsStep(s.missions, p.missions, S2, T2, s2.ids, u)
    BY <2>3, <2>4, <2>5, <2>6 DEF MissionsStep, MissionsPair
  <2>8. s2.missions = S2 /\ p2.missions = T2
    BY <2>2 DEF S2, T2
  <2>9. Move(u, s, p, s2, p2)
    BY <2>2, <2>7, <2>8, MissionsMove
  <2> QED
    BY <2>9 DEF s2, p2
<1>5. CASE \E r \in s.missions : r.id = m.id /\ r.user = u
  <2>1. m.id > 0 /\ \A r \in s.missions \cup p.missions : r.id = m.id => r.user = u
    BY <1>5, OwnId
  <2>2. /\ Writing1(s, s2, "missions") /\ s2.missions = MissionsEdited(s.missions, m.id, m, t \div 2)
        /\ Writing1(p, p2, "missions") /\ p2.missions = MissionsEdited(p.missions, m.id, m, t)
    BY <1>1, <2>1, UpsertMissionWrites
  <2>3. s2.ids = s.ids
    BY <1>1, <2>2 DEF Writing1, Schema
  <2> DEFINE S2 == MissionsEdited(s.missions, m.id, m, t \div 2)
             T2 == MissionsEdited(p.missions, m.id, m, t)
  <2>4. MissionsOK(S2, s.ids) /\ Apart(s.missions, S2, u) /\ IdsKept(s.missions, S2)
    BY <1>1, <1>2, <1>3, <2>1, MissionsEditedKeep
  <2>5. MissionsOK(T2, s.ids) /\ Apart(p.missions, T2, u)
    BY <1>1, <1>2, <2>1, MissionsEditedKeep
  <2>6. MissionTwins(S2, T2)
    BY <1>1, <1>2, MissionsEditedTwins
  <2> HIDE DEF s2, p2, S2, T2
  <2>7. MissionsStep(s.missions, p.missions, S2, T2, s2.ids, u)
    BY <2>3, <2>4, <2>5, <2>6 DEF MissionsStep, MissionsPair
  <2>8. s2.missions = S2 /\ p2.missions = T2
    BY <2>2 DEF S2, T2
  <2>9. Move(u, s, p, s2, p2)
    BY <2>2, <2>7, <2>8, MissionsMove
  <2> QED
    BY <2>9 DEF s2, p2
<1> QED
  BY <1>4, <1>5

LEMMA UpdateMissionStatusMoves ==
  ASSUME NEW s, NEW p, Paired(s, p), NEW t \in Nat, NEW u \in Users, NEW id, NEW status \in {"active", "paused", "completed"},
         \E r \in s.missions : r.id = id /\ r.user = u
  PROVE  Move(u, s, p, SQLite!UpdateMissionStatus(s, t, id, status), Postgres!UpdateMissionStatus(p, t, id, status))
<1> DEFINE s2 == SQLite!UpdateMissionStatus(s, t, id, status)
           p2 == Postgres!UpdateMissionStatus(p, t, id, status)
           S2 == StatusEdited(s.missions, id, status, t \div 2)
           T2 == StatusEdited(p.missions, id, status, t)
<1>1. /\ Schema(s) /\ Schema(p) /\ s.ids = p.ids /\ s.ids \in Nat
      /\ MissionsPair(s.missions, p.missions, s.ids)
  BY Pairs
<1>2. MissionsOK(s.missions, s.ids) /\ MissionsOK(p.missions, s.ids) /\ MissionTwins(s.missions, p.missions)
  BY <1>1 DEF MissionsPair
<1>3. t \div 2 \in Nat
  OBVIOUS
<1>4. \A r \in s.missions \cup p.missions : r.id = id => r.user = u
  BY OwnId
<1>5. /\ Writing1(s, s2, "missions") /\ s2.missions = S2
      /\ Writing1(p, p2, "missions") /\ p2.missions = T2
  BY <1>1, UpdateMissionStatusWrites
<1>6. s2.ids = s.ids
  BY <1>1, <1>5 DEF Writing1, Schema
<1>7. MissionsOK(S2, s.ids) /\ Apart(s.missions, S2, u) /\ IdsKept(s.missions, S2)
  BY <1>1, <1>2, <1>3, <1>4, StatusEditedKeep
<1>8. MissionsOK(T2, s.ids) /\ Apart(p.missions, T2, u)
  BY <1>1, <1>2, <1>4, StatusEditedKeep
<1>9. MissionTwins(S2, T2)
  BY <1>1, <1>2, StatusEditedTwins
<1> HIDE DEF s2, p2, S2, T2
<1>10. MissionsStep(s.missions, p.missions, S2, T2, s2.ids, u)
  BY <1>6, <1>7, <1>8, <1>9 DEF MissionsStep, MissionsPair
<1>11. Move(u, s, p, s2, p2)
  BY <1>5, <1>10, MissionsMove
<1> QED
  BY <1>11 DEF s2, p2

-----------------------------------------------------------------------------
(* A call that has no row of the user to write does nothing.                *)

\* A step that writes nothing is a move.
LEMMA NothingMoves ==
  ASSUME NEW s, NEW p, Paired(s, p), NEW u
  PROVE  Move(u, s, p, s, p)
<1>0. s.ids \in Nat /\ s.ids = p.ids
  BY Pairs
<1>1. /\ s.ids \in Nat /\ s.ids = p.ids /\ s.ids <= s.ids
  BY <1>0
<1>2. Emptied(s, s) /\ Emptied(p, p)
  BY KeptEmptied DEF IdsKept
<1> DEFINE K == {}
<1>3. /\ K \subseteq Tables /\ ("listings" \in K => SideKept(s["listings"], s["listings"]))
      /\ \A k \in K : TablePair(k, s[k], p[k], s.ids) /\ TableApart(k, s[k], s[k], u) /\ TableApart(k, p[k], p[k], u)
  OBVIOUS
<1> HIDE DEF K
<1> QED
  BY <1>1, <1>2, <1>3, SomeTables

LEMMA MissionsRemoved ==
  ASSUME NEW T, NEW n \in Nat, MissionsOK(T, n), NEW u, NEW id, \A r \in T : r.id = id => r.user = u,
         NEW T2, \A r : r \in T2 <=> r \in T /\ r.id # id
  PROVE  MissionsOK(T2, n) /\ Apart(T, T2, u)
<1>1. T2 \subseteq T /\ \A r \in T \ T2 : r.user = u
  OBVIOUS
<1>2. (Keyed(T, n) => Keyed(T2, n)) /\ Apart(T, T2, u) /\ (IsFiniteSet(T) => IsFiniteSet(T2))
  BY <1>1, Removed
<1> QED
  BY <1>1, <1>2 DEF MissionsOK

\* Of any mission: where it is not the user's, nothing happens in either store.
LEMMA DeleteMissionMoves ==
  ASSUME NEW s, NEW p, Paired(s, p), NEW u \in Users, NEW id
  PROVE  Move(u, s, p, SQLite!DeleteMission(s, id, u), Postgres!DeleteMission(p, id, u))
<1> DEFINE s2 == SQLite!DeleteMission(s, id, u)
           p2 == Postgres!DeleteMission(p, id, u)
           Theirs == \E m \in s.missions : m.id = id /\ m.user = u
<1>1. /\ Schema(s) /\ Schema(p) /\ s.ids = p.ids /\ s.ids \in Nat
      /\ MissionsPair(s.missions, p.missions, s.ids) /\ SearchesPair(s.searches, p.searches, s.ids)
      /\ ListingsPair(s.listings, p.listings) /\ s.shortlist = p.shortlist /\ ShortlistOK(s.shortlist)
  BY Pairs
<1>2. MissionTwins(s.missions, p.missions)
  BY <1>1 DEF MissionsPair
<1>3. Theirs <=> \E m \in p.missions : m.id = id /\ m.user = u
  BY <1>2 DEF MissionTwins, MissionTwin
<1>4. CASE ~Theirs
  <2>1. s2 = s /\ p2 = p
    BY <1>1, <1>3, <1>4, DeleteMissionWrites
  <2> HIDE DEF s2, p2
  <2>2. Move(u, s, p, s2, p2)
    BY <2>1, NothingMoves
  <2> QED
    BY <2>2 DEF s2, p2
<1>5. CASE Theirs
  <2> DEFINE K == {"missions", "searches", "listings", "shortlist"}
  <2>1. /\ DOMAIN s2 = DOMAIN s /\ \A k \in DOMAIN s : k \notin K => s2[k] = s[k]
        /\ s2.missions = {m \in s.missions : m.id # id}
        /\ s2.searches = {r \in s.searches : ~(r.mission = id /\ r.user = u)}
        /\ s2.listings = {l \in s.listings : ~(l.mission = id /\ l.item[1] = u)}
        /\ s2.shortlist = {e \in s.shortlist : ~(e.mission = id /\ e.user = u)}
    BY <1>1, <1>5, DeleteMissionWrites
  <2>2. /\ DOMAIN p2 = DOMAIN p /\ \A k \in DOMAIN p : k \notin K => p2[k] = p[k]
        /\ p2.missions = {m \in p.missions : m.id # id}
        /\ p2.searches = {r \in p.searches : ~(r.mission = id /\ r.user = u)}
        /\ p2.listings = {l \in p.listings : ~(l.mission = id /\ l.item[1] = u)}
        /\ p2.shortlist = {e \in p.shortlist : ~(e.mission = id /\ e.user = u)}
    BY <1>1, <1>3, <1>5, DeleteMissionWrites
  <2> HIDE DEF s2, p2
  <2>3. \A r \in s.missions \cup p.missions : r.id = id => r.user = u
    BY <1>5, OwnId
  <2>4. s2.ids \in Nat /\ s2.ids = p2.ids /\ s2.ids = s.ids
    BY <1>1, <2>1, <2>2 DEF Schema
  <2>5. MissionsPair(s2.missions, p2.missions, s2.ids) /\ Apart(s.missions, s2.missions, u) /\ Apart(p.missions, p2.missions, u)
    <3>1. /\ \A r : r \in s2.missions <=> r \in s.missions /\ r.id # id
          /\ \A r : r \in p2.missions <=> r \in p.missions /\ r.id # id
      BY <2>1, <2>2
    <3>2. MissionsOK(s.missions, s.ids) /\ MissionsOK(p.missions, s.ids)
      BY <1>1 DEF MissionsPair
    <3>3. MissionsOK(s2.missions, s.ids) /\ Apart(s.missions, s2.missions, u)
      BY <1>1, <2>3, <3>1, <3>2, MissionsRemoved
    <3>4. MissionsOK(p2.missions, s.ids) /\ Apart(p.missions, p2.missions, u)
      BY <1>1, <2>3, <3>1, <3>2, MissionsRemoved
    <3>5. MissionTwins(s2.missions, p2.missions)
      BY <1>2, <3>1 DEF MissionTwins, MissionTwin
    <3> QED
      BY <2>4, <3>3, <3>4, <3>5 DEF MissionsPair
  <2>6. SearchesStep(s.searches, p.searches, s2.searches, p2.searches, s2.ids, u)
    <3>1. /\ \A r : r \in s2.searches <=> r \in s.searches /\ ~(r.mission = id /\ r.user = u)
          /\ \A r : r \in p2.searches <=> r \in p.searches /\ ~(r.mission = id /\ r.user = u)
      BY <2>1, <2>2
    <3>2. SearchTwins(s2.searches, p2.searches)
      BY <1>1, <3>1 DEF SearchesPair, SearchTwins, SearchTwin
    <3>3. /\ s2.searches \subseteq s.searches /\ \A r \in s.searches : r \in s2.searches \/ r.user = u
          /\ p2.searches \subseteq p.searches /\ \A r \in p.searches : r \in p2.searches \/ r.user = u
      BY <3>1
    <3>4. SearchesStep(s.searches, p.searches, s2.searches, p2.searches, s.ids, u)
      BY <1>1, <3>2, <3>3, SearchesRemovedSteps
    <3> QED
      BY <2>4, <3>4
  <2>7. ListingsStep(s.listings, p.listings, s2.listings, p2.listings, u)
    <3>1. /\ \A l : l \in s2.listings <=> l \in s.listings /\ ~(l.mission = id /\ l.item[1] = u)
          /\ \A l : l \in p2.listings <=> l \in p.listings /\ ~(l.mission = id /\ l.item[1] = u)
      BY <2>1, <2>2
    <3>2. ListingsPair(s.listings, p.listings)
      BY <1>1
    <3> QED
      BY ONLY <3>1, <3>2, ListingsRemovedSteps, Zenon
  <2>8. s2.shortlist = p2.shortlist /\ ShortlistOK(s2.shortlist) /\ Apart(s.shortlist, s2.shortlist, u) /\ Apart(p.shortlist, p2.shortlist, u)
    BY <1>1, <2>1, <2>2 DEF ShortlistOK, OnePerKey, Apart
  <2>9. Emptied(s, s2)
    <3> SUFFICES ASSUME NEW m \in s.missions, \A r \in s2.missions : r.id # m.id
                 PROVE  /\ \A r \in s2.searches : ~(r.mission = m.id /\ r.user = m.user)
                        /\ \A l \in s2.listings : ~(l.mission = m.id /\ OfUser(l, m.user))
                        /\ \A e \in s2.shortlist : ~(e.mission = m.id /\ e.user = m.user)
                        /\ \A table \in {"searches", "listings", "shortlist"} : \A r \in s[table] : r.mission # m.id => r \in s2[table]
      BY DEF Emptied
    <3>1. m.id = id /\ m.user = u
      BY <2>1, <2>3
    <3>2. \A l : OfUser(l, u) <=> l.item[1] = u
      BY OwnedBy
    <3> QED
      BY <2>1, <3>1, <3>2
  <2>9a. Emptied(p, p2)
    <3> SUFFICES ASSUME NEW m \in p.missions, \A r \in p2.missions : r.id # m.id
                 PROVE  /\ \A r \in p2.searches : ~(r.mission = m.id /\ r.user = m.user)
                        /\ \A l \in p2.listings : ~(l.mission = m.id /\ OfUser(l, m.user))
                        /\ \A e \in p2.shortlist : ~(e.mission = m.id /\ e.user = m.user)
                        /\ \A table \in {"searches", "listings", "shortlist"} : \A r \in p[table] : r.mission # m.id => r \in p2[table]
      BY DEF Emptied
    <3>1. m.id = id /\ m.user = u
      BY <2>2, <2>3
    <3>2. \A l : OfUser(l, u) <=> l.item[1] = u
      BY OwnedBy
    <3> QED
      BY <2>2, <3>1, <3>2
  <2>10. ASSUME NEW k \in K
         PROVE  TablePair(k, s2[k], p2[k], s2.ids) /\ TableApart(k, s[k], s2[k], u) /\ TableApart(k, p[k], p2[k], u)
    <3>1. CASE k = "missions"
      BY <2>5, <3>1, PairOf, ApartOf DEF Owned
    <3>2. CASE k = "searches"
      BY <2>6, <3>2, PairOf, ApartOf DEF Owned, SearchesStep
    <3>3. CASE k = "listings"
      BY <2>7, <3>3, PairOf, ApartOf DEF ListingsStep
    <3>4. CASE k = "shortlist"
      BY <2>8, <3>4, SameOf, ApartOf DEF Owned
    <3> QED
      BY <3>1, <3>2, <3>3, <3>4
  <2>11. SideKept(s["listings"], s2["listings"])
    BY <2>7 DEF ListingsStep
  <2>12. K \subseteq Tables
    BY DEF Tables
  <2>13. /\ \A k \in DOMAIN s : k \notin K \cup {"ids"} => s2[k] = s[k]
         /\ \A k \in DOMAIN p : k \notin K \cup {"ids"} => p2[k] = p[k]
    BY <2>1, <2>2
  <2>14. s.ids <= s2.ids /\ DOMAIN s2 = DOMAIN s /\ DOMAIN p2 = DOMAIN p
    BY <1>1, <2>1, <2>2, <2>4
  <2> HIDE DEF K
  <2>15. Move(u, s, p, s2, p2)
    BY <2>4, <2>9, <2>9a, <2>10, <2>11, <2>12, <2>13, <2>14, SomeTables
  <2> QED
    BY <2>15 DEF s2, p2
<1> QED
  BY <1>4, <1>5

LEMMA RecheckMoves ==
  ASSUME NEW s, NEW p, Paired(s, p), NEW t \in Nat, NEW u \in Users, NEW id
  PROVE  Move(u, s, p, SQLite!ResetMissionSearchSpecsNextRun(SQLite!SetMissionRecheck(s, t, id, u), t, id, u),
              Postgres!ResetMissionSearchSpecsNextRun(Postgres!SetMissionRecheck(p, t, id, u), t, id, u))
<1> DEFINE s2 == SQLite!ResetMissionSearchSpecsNextRun(SQLite!SetMissionRecheck(s, t, id, u), t, id, u)
           p2 == Postgres!ResetMissionSearchSpecsNextRun(Postgres!SetMissionRecheck(p, t, id, u), t, id, u)
           K == {"missions", "searches"}
<1>1. /\ Schema(s) /\ Schema(p) /\ s.ids = p.ids /\ s.ids \in Nat
      /\ MissionsPair(s.missions, p.missions, s.ids) /\ SearchesPair(s.searches, p.searches, s.ids)
  BY Pairs
<1>2. s2 = s
  BY <1>1, RecheckWrites
<1>3. /\ DOMAIN p2 = DOMAIN p /\ \A k \in DOMAIN p : k \notin K => p2[k] = p[k]
      /\ p2.missions = RecheckEdited(p.missions, id, u, t)
      /\ p2.searches = ResetEdited(p.searches, id, u, t)
  BY <1>1, RecheckWrites DEF RecheckEdited, ResetEdited
<1> HIDE DEF s2, p2
<1>4. p2.ids = p.ids
  BY <1>1, <1>3 DEF Schema
<1>5. MissionsPair(s.missions, p2.missions, s.ids) /\ Apart(p.missions, p2.missions, u)
  <2>1. MissionsOK(s.missions, s.ids) /\ MissionsOK(p.missions, s.ids) /\ MissionTwins(s.missions, p.missions)
    BY <1>1 DEF MissionsPair
  <2>2. MissionsOK(p2.missions, s.ids) /\ Apart(p.missions, p2.missions, u)
    BY <1>1, <1>3, <2>1, RecheckEditedKeep
  <2>3. MissionTwins(s.missions, p2.missions)
    BY <1>1, <1>3, <2>1, RecheckEditedTwins
  <2> QED
    BY <2>1, <2>2, <2>3 DEF MissionsPair
<1>6. SearchesStep(s.searches, p.searches, s.searches, p2.searches, s.ids, u)
  BY <1>1, <1>3, ResetEditedSteps
<1>7. ASSUME NEW k \in K
      PROVE  TablePair(k, s[k], p2[k], s.ids) /\ TableApart(k, s[k], s[k], u) /\ TableApart(k, p[k], p2[k], u)
  <2>1. CASE k = "missions"
    BY <1>5, <2>1, PairOf, ApartOf, Stays DEF Owned
  <2>2. CASE k = "searches"
    BY <1>6, <2>2, PairOf, ApartOf, Stays DEF Owned, SearchesStep
  <2> QED
    BY <2>1, <2>2
<1>8. K \subseteq Tables /\ "listings" \notin K
  BY DEF Tables
<1>9. Emptied(s, s) /\ Emptied(p, p2)
  <2>1. IdsKept(p.missions, p2.missions)
    BY <1>1, <1>3, RecheckEditedKeep DEF MissionsPair
  <2> QED
    BY <2>1, KeptEmptied DEF IdsKept
<1>10. /\ \A k \in DOMAIN p : k \notin K \cup {"ids"} => p2[k] = p[k]
       /\ s.ids <= s.ids
  BY <1>1, <1>3
<1> HIDE DEF K
<1>11. Move(u, s, p, s, p2)
  BY <1>1, <1>3, <1>4, <1>7, <1>8, <1>9, <1>10, SomeTables
<1> QED
  BY <1>2, <1>11 DEF s2, p2

-----------------------------------------------------------------------------
LEMMA CreateSearchConfigMoves ==
  ASSUME NEW s, NEW p, Paired(s, p), NEW t, NEW r, r.user \in Users
  PROVE  Move(r.user, s, p, SQLite!CreateSearchConfig(s, t, r), Postgres!CreateSearchConfig(p, t, r))
<1> DEFINE s2 == SQLite!CreateSearchConfig(s, t, r)
           p2 == Postgres!CreateSearchConfig(p, t, r)
<1>1. /\ Schema(s) /\ Schema(p) /\ s.ids = p.ids /\ s.ids \in Nat /\ SearchesPair(s.searches, p.searches, s.ids)
  BY Pairs
<1>2. /\ Adding(s, s2, "searches") /\ s2.searches = s.searches \cup {NewSearch(s.ids + 1, r, t \div 2)}
      /\ Adding(p, p2, "searches") /\ p2.searches = p.searches \cup {NewSearch(s.ids + 1, r, t)}
  BY <1>1, CreateSearchConfigWrites
<1> HIDE DEF s2, p2
<1>3. s2.ids = s.ids + 1
  BY <1>2 DEF Adding
<1>4. SearchesStep(s.searches, p.searches, s2.searches, p2.searches, s2.ids, r.user)
  <2> DEFINE S2 == s.searches \cup {NewSearch(s.ids + 1, r, t \div 2)}
             T2 == p.searches \cup {NewSearch(s.ids + 1, r, t)}
  <2>1. SearchesStep(s.searches, p.searches, S2, T2, s.ids + 1, r.user)
    BY <1>1, NewSearchSteps
  <2>2. s2.searches = S2 /\ p2.searches = T2
    BY <1>1, <1>2
  <2> HIDE DEF S2, T2
  <2> QED
    BY <1>3, <2>1, <2>2
<1>5. Move(r.user, s, p, s2, p2)
  BY <1>2, <1>4, SearchesMove
<1> QED
  BY <1>5 DEF s2, p2

LEMMA UpdateSearchConfigMoves ==
  ASSUME NEW s, NEW p, Paired(s, p), NEW t, NEW r
  PROVE  Move(r.user, s, p, SQLite!UpdateSearchConfig(s, t, r), Postgres!UpdateSearchConfig(p, t, r))
<1> DEFINE s2 == SQLite!UpdateSearchConfig(s, t, r)
           p2 == Postgres!UpdateSearchConfig(p, t, r)
<1>1. /\ Schema(s) /\ Schema(p) /\ s.ids = p.ids /\ s.ids \in Nat /\ SearchesPair(s.searches, p.searches, s.ids)
  BY Pairs
<1>2. /\ Writing1(s, s2, "searches") /\ s2.searches = SearchEdited(s.searches, r, t \div 2)
      /\ Writing1(p, p2, "searches") /\ p2.searches = SearchEdited(p.searches, r, t)
  BY <1>1, UpdateSearchConfigWrites
<1> HIDE DEF s2, p2
<1>3. s2.ids = s.ids
  BY <1>1, <1>2 DEF Writing1, Schema
<1>4. SearchesStep(s.searches, p.searches, s2.searches, p2.searches, s2.ids, r.user)
  BY <1>1, <1>2, <1>3, SearchEditedSteps
<1>5. Move(r.user, s, p, s2, p2)
  BY <1>2, <1>4, SearchesMove
<1> QED
  BY <1>5 DEF s2, p2

LEMMA SearchByIdMoves ==
  ASSUME NEW s, NEW p, Paired(s, p), NEW t, NEW u, NEW r, \E q \in s.searches : q.id = r.id /\ q.user = u, NEW value
  PROVE  /\ Move(u, s, p, SQLite!UpdateSearchRuntime(s, t, r), Postgres!UpdateSearchRuntime(p, t, r))
         /\ Move(u, s, p, SQLite!SetSearchEnabled(s, t, r.id, value), Postgres!SetSearchEnabled(p, t, r.id, value))
         /\ Move(u, s, p, SQLite!SetSearchNextRunAt(s, t, r.id, value), Postgres!SetSearchNextRunAt(p, t, r.id, value))
<1>1. /\ Schema(s) /\ Schema(p) /\ s.ids = p.ids /\ s.ids \in Nat /\ SearchesPair(s.searches, p.searches, s.ids)
  BY Pairs
<1>2. \A q \in s.searches \cup p.searches : q.id = r.id => q.user = u
  BY OwnId
<1>3. ASSUME NEW s2, NEW p2, Writing1(s, s2, "searches"), Writing1(p, p2, "searches"),
             SearchesStep(s.searches, p.searches, s2.searches, p2.searches, s.ids, u)
      PROVE  Move(u, s, p, s2, p2)
  <2>1. s2.ids = s.ids
    BY <1>1, <1>3 DEF Writing1, Schema
  <2> QED
    BY <1>3, <2>1, SearchesMove
<1>4. Move(u, s, p, SQLite!UpdateSearchRuntime(s, t, r), Postgres!UpdateSearchRuntime(p, t, r))
  <2> DEFINE s2 == SQLite!UpdateSearchRuntime(s, t, r)
             p2 == Postgres!UpdateSearchRuntime(p, t, r)
  <2>1. /\ Writing1(s, s2, "searches") /\ s2.searches = RuntimeEdited(s.searches, r, t \div 2)
        /\ Writing1(p, p2, "searches") /\ p2.searches = RuntimeEdited(p.searches, r, t)
    BY <1>1, SearchByIdWrites
  <2> HIDE DEF s2, p2
  <2>2. SearchesStep(s.searches, p.searches, s2.searches, p2.searches, s.ids, u)
    BY <1>1, <1>2, <2>1, RuntimeEditedSteps
  <2>3. Move(u, s, p, s2, p2)
    BY <1>3, <2>1, <2>2
  <2> QED
    BY <2>3 DEF s2, p2
<1>5. Move(u, s, p, SQLite!SetSearchEnabled(s, t, r.id, value), Postgres!SetSearchEnabled(p, t, r.id, value))
  <2> DEFINE s2 == SQLite!SetSearchEnabled(s, t, r.id, value)
             p2 == Postgres!SetSearchEnabled(p, t, r.id, value)
  <2>1. /\ Writing1(s, s2, "searches") /\ s2.searches = EnabledEdited(s.searches, r.id, value, t \div 2)
        /\ Writing1(p, p2, "searches") /\ p2.searches = EnabledEdited(p.searches, r.id, value, t)
    BY <1>1, SearchByIdWrites
  <2> HIDE DEF s2, p2
  <2>2. SearchesStep(s.searches, p.searches, s2.searches, p2.searches, s.ids, u)
    BY <1>1, <1>2, <2>1, EnabledEditedSteps
  <2>3. Move(u, s, p, s2, p2)
    BY <1>3, <2>1, <2>2
  <2> QED
    BY <2>3 DEF s2, p2
<1>6. Move(u, s, p, SQLite!SetSearchNextRunAt(s, t, r.id, value), Postgres!SetSearchNextRunAt(p, t, r.id, value))
  <2> DEFINE s2 == SQLite!SetSearchNextRunAt(s, t, r.id, value)
             p2 == Postgres!SetSearchNextRunAt(p, t, r.id, value)
  <2>1. /\ Writing1(s, s2, "searches") /\ s2.searches = NextEdited(s.searches, r.id, value, t \div 2)
        /\ Writing1(p, p2, "searches") /\ p2.searches = NextEdited(p.searches, r.id, value, t)
    BY <1>1, SearchByIdWrites
  <2> HIDE DEF s2, p2
  <2>2. SearchesStep(s.searches, p.searches, s2.searches, p2.searches, s.ids, u)
    BY <1>1, <1>2, <2>1, NextEditedSteps
  <2>3. Move(u, s, p, s2, p2)
    BY <1>3, <2>1, <2>2
  <2> QED
    BY <2>3 DEF s2, p2
<1> QED
  BY <1>4, <1>5, <1>6

-----------------------------------------------------------------------------
(* Searches that go, and what becomes of listings.                          *)

LEMMA DeleteSearchConfigMoves ==
  ASSUME NEW s, NEW p, Paired(s, p), NEW u, NEW id
  PROVE  Move(u, s, p, SQLite!DeleteSearchConfig(s, id, u), Postgres!DeleteSearchConfig(p, id, u))
<1> DEFINE s2 == SQLite!DeleteSearchConfig(s, id, u)
           p2 == Postgres!DeleteSearchConfig(p, id, u)
<1>1. /\ Schema(s) /\ Schema(p) /\ s.ids = p.ids /\ s.ids \in Nat /\ SearchesPair(s.searches, p.searches, s.ids)
  BY Pairs
<1>2. /\ Writing1(s, s2, "searches") /\ s2.searches = {r \in s.searches : ~(r.id = id /\ r.user = u)}
      /\ Writing1(p, p2, "searches") /\ p2.searches = {r \in p.searches : ~(r.id = id /\ r.user = u)}
  BY <1>1, DeleteSearchConfigWrites
<1> HIDE DEF s2, p2
<1>3. s2.ids = s.ids
  BY <1>1, <1>2 DEF Writing1, Schema
<1>4. /\ \A r : r \in s2.searches <=> r \in s.searches /\ ~(r.id = id /\ r.user = u)
      /\ \A r : r \in p2.searches <=> r \in p.searches /\ ~(r.id = id /\ r.user = u)
  BY <1>2
<1>5. SearchesStep(s.searches, p.searches, s2.searches, p2.searches, s.ids, u)
  <2>1. SearchTwins(s2.searches, p2.searches)
    BY <1>1, <1>4 DEF SearchesPair, SearchTwins, SearchTwin
  <2>2. /\ s2.searches \subseteq s.searches /\ \A r \in s.searches : r \in s2.searches \/ r.user = u
        /\ p2.searches \subseteq p.searches /\ \A r \in p.searches : r \in p2.searches \/ r.user = u
    BY <1>4
  <2> QED
    BY <1>1, <2>1, <2>2, SearchesRemovedSteps
<1>6. Move(u, s, p, s2, p2)
  BY <1>2, <1>3, <1>5, SearchesMove
<1> QED
  BY <1>6 DEF s2, p2

LEMMA SaveListingMoves ==
  ASSUME NEW s, NEW p, Paired(s, p), NEW t \in Nat, NEW u \in Users, NEW f \in Finds, NEW m
  PROVE  LET l == [item |-> f.item, text |-> f.text, price |-> f.price, market |-> f.market, mission |-> m]
         IN Move(u, s, p, SQLite!SaveListing(s, t, u, l, f.text, f), Postgres!SaveListing(p, t, u, l, f.text, f))
<1> DEFINE l == [item |-> f.item, text |-> f.text, price |-> f.price, market |-> f.market, mission |-> m]
           s2 == SQLite!SaveListing(s, t, u, l, f.text, f)
           p2 == Postgres!SaveListing(p, t, u, l, f.text, f)
<1>1. Schema(s) /\ Schema(p) /\ ListingsPair(s.listings, p.listings)
  BY Pairs
<1>2. /\ Writing1(s, s2, "listings") /\ s2.listings = ListingSaved(s.listings, u, f, m, t \div 2)
      /\ Writing1(p, p2, "listings") /\ p2.listings = ListingSaved(p.listings, u, f, m, t)
  <2>1. Writing1(s, s2, "listings") /\ s2.listings = ListingSaved(s.listings, u, f, m, t \div 2)
    BY <1>1, SaveListingWrites, ZenonT(60)
  <2>2. Writing1(p, p2, "listings") /\ p2.listings = ListingSaved(p.listings, u, f, m, t)
    BY <1>1, SaveListingWrites, ZenonT(60)
  <2> QED
    BY <2>1, <2>2
<1> HIDE DEF s2, p2
<1>3. ListingsStep(s.listings, p.listings, s2.listings, p2.listings, u)
  BY <1>1, <1>2, ListingSavedSteps
<1>4. Move(u, s, p, s2, p2)
  BY <1>2, <1>3, ListingsMove
<1> QED
  BY <1>4 DEF s2, p2

LEMMA TouchedMoves ==
  ASSUME NEW s, NEW p, Paired(s, p), NEW t \in Nat, NEW u \in Users, NEW i, NEW status
  PROVE  /\ Move(u, s, p, SQLite!TouchListing(s, t, u, i), Postgres!TouchListing(p, t, u, i))
         /\ Move(u, s, p, SQLite!MarkOffered(s, u, i), Postgres!MarkOffered(p, u, i))
         /\ Move(u, s, p, SQLite!UpdateOutreachStatus(s, u, i, status), Postgres!UpdateOutreachStatus(p, u, i, status))
<1>1. Schema(s) /\ Schema(p) /\ ListingsPair(s.listings, p.listings)
  BY Pairs
<1>2. Move(u, s, p, SQLite!TouchListing(s, t, u, i), Postgres!TouchListing(p, t, u, i))
  <2> DEFINE s2 == SQLite!TouchListing(s, t, u, i)
             p2 == Postgres!TouchListing(p, t, u, i)
  <2>1. /\ Writing1(s, s2, "listings") /\ s2.listings = SeenEdited(s.listings, u, i, t \div 2)
        /\ Writing1(p, p2, "listings") /\ p2.listings = SeenEdited(p.listings, u, i, t)
    <3>1. Writing1(s, s2, "listings") /\ s2.listings = SeenEdited(s.listings, u, i, t \div 2)
      BY <1>1, TouchListingWrites
    <3>2. Writing1(p, p2, "listings") /\ p2.listings = SeenEdited(p.listings, u, i, t)
      BY <1>1, TouchListingWrites
    <3> QED
      BY <3>1, <3>2
  <2> HIDE DEF s2, p2
  <2>2. ListingsStep(s.listings, p.listings, s2.listings, p2.listings, u)
    BY <1>1, <2>1, SeenEditedSteps
  <2>3. Move(u, s, p, s2, p2)
    BY <2>1, <2>2, ListingsMove
  <2> QED
    BY <2>3 DEF s2, p2
<1>3. Move(u, s, p, SQLite!MarkOffered(s, u, i), Postgres!MarkOffered(p, u, i))
  <2> DEFINE s2 == SQLite!MarkOffered(s, u, i)
             p2 == Postgres!MarkOffered(p, u, i)
  <2>1. /\ Writing1(s, s2, "listings") /\ s2.listings = OfferedEdited(s.listings, u, i)
        /\ Writing1(p, p2, "listings") /\ p2.listings = OfferedEdited(p.listings, u, i)
    <3>1. Writing1(s, s2, "listings") /\ s2.listings = OfferedEdited(s.listings, u, i)
      BY <1>1, MarkOfferedWrites
    <3>2. Writing1(p, p2, "listings") /\ p2.listings = OfferedEdited(p.listings, u, i)
      BY <1>1, MarkOfferedWrites
    <3> QED
      BY <3>1, <3>2
  <2> HIDE DEF s2, p2
  <2>2. ListingsStep(s.listings, p.listings, s2.listings, p2.listings, u)
    BY <1>1, <2>1, OfferedEditedSteps
  <2>3. Move(u, s, p, s2, p2)
    BY <2>1, <2>2, ListingsMove
  <2> QED
    BY <2>3 DEF s2, p2
<1>4. Move(u, s, p, SQLite!UpdateOutreachStatus(s, u, i, status), Postgres!UpdateOutreachStatus(p, u, i, status))
  <2> DEFINE s2 == SQLite!UpdateOutreachStatus(s, u, i, status)
             p2 == Postgres!UpdateOutreachStatus(p, u, i, status)
  <2>1. /\ Writing1(s, s2, "listings") /\ s2.listings = OutreachEdited(s.listings, u, i, status)
        /\ Writing1(p, p2, "listings") /\ p2.listings = OutreachEdited(p.listings, u, i, status)
    <3>1. Writing1(s, s2, "listings") /\ s2.listings = OutreachEdited(s.listings, u, i, status)
      BY <1>1, UpdateOutreachStatusWrites
    <3>2. Writing1(p, p2, "listings") /\ p2.listings = OutreachEdited(p.listings, u, i, status)
      BY <1>1, UpdateOutreachStatusWrites
    <3> QED
      BY <3>1, <3>2
  <2> HIDE DEF s2, p2
  <2>2. ListingsStep(s.listings, p.listings, s2.listings, p2.listings, u)
    BY <1>1, <2>1, OutreachEditedSteps
  <2>3. Move(u, s, p, s2, p2)
    BY <2>1, <2>2, ListingsMove
  <2> QED
    BY <2>3 DEF s2, p2
<1> QED
  BY <1>2, <1>3, <1>4

LEMMA SetListingFeedbackMoves ==
  ASSUME NEW s, NEW p, Paired(s, p), NEW t \in Nat, NEW u \in Users, NEW i, NEW feedback \in Feedbacks
  PROVE  Move(u, s, p, SQLite!SetListingFeedback(s, t, u, i, feedback), Postgres!SetListingFeedback(p, t, u, i, feedback))
<1>0. Schema(s) /\ Schema(p) /\ ListingsPair(s.listings, p.listings) /\ u \in Users /\ feedback \in Feedbacks
  BY Pairs
<1> DEFINE s2 == SQLite!SetListingFeedback(s, t, u, i, feedback)
           p2 == Postgres!SetListingFeedback(p, t, u, i, feedback)
<1>1. /\ Writing1(s, s2, "listings") /\ s2.listings = FeedbackEdited(s.listings, u, i, feedback, t \div 2)
      /\ Writing1(p, p2, "listings") /\ p2.listings = FeedbackEdited(p.listings, u, i, feedback, t)
  <2>1. SQLite!scopedItemID(u, i) = <<u, i>> /\ Postgres!scopedItemID(u, i) = <<u, i>>
    BY Scoped
  <2>2. s2 = [s EXCEPT !.listings = FeedbackEdited(s.listings, u, i, feedback, t \div 2)]
    BY <2>1, Blanks DEF Feedbacks, FeedbackEdited, SQLite!SetListingFeedback, SQLite!Touched, SQLite!Changed, SQLite!Stamp
  <2>3. p2 = [p EXCEPT !.listings = FeedbackEdited(p.listings, u, i, feedback, t)]
    BY <2>1, Blanks DEF Feedbacks, FeedbackEdited, Postgres!SetListingFeedback, Postgres!Touched, Postgres!Changed, Postgres!Stamp
  <2> HIDE DEF s2, p2
  <2>4. Writing1(s, s2, "listings") /\ s2.listings = FeedbackEdited(s.listings, u, i, feedback, t \div 2)
    BY ONLY <1>0, <2>2, ListingsWritten
  <2>5. Writing1(p, p2, "listings") /\ p2.listings = FeedbackEdited(p.listings, u, i, feedback, t)
    BY ONLY <1>0, <2>3, ListingsWritten
  <2> QED
    BY <2>4, <2>5
<1> HIDE DEF s2, p2
<1>2. ListingsStep(s.listings, p.listings, s2.listings, p2.listings, u)
  BY <1>0, <1>1, FeedbackEditedSteps
<1>3. Move(u, s, p, s2, p2)
  BY <1>1, <1>2, ListingsMove
<1> QED
  BY <1>3 DEF s2, p2

-----------------------------------------------------------------------------
LEMMA SaveShortlistEntryMoves ==
  ASSUME NEW s, NEW p, Paired(s, p), NEW e
  PROVE  Move(e.user, s, p, SQLite!SaveShortlistEntry(s, e), Postgres!SaveShortlistEntry(p, e))
<1> DEFINE s2 == SQLite!SaveShortlistEntry(s, e)
           p2 == Postgres!SaveShortlistEntry(p, e)
           E(T) == (T \ {r \in T : r.user = e.user /\ r.item = e.item}) \cup {e}
           E2 == E(s.shortlist)
<1>1. Schema(s) /\ Schema(p) /\ s.shortlist = p.shortlist /\ ShortlistOK(s.shortlist)
  BY Pairs
<1>2. /\ Writing1(s, s2, "shortlist") /\ s2.shortlist = E2
      /\ Writing1(p, p2, "shortlist") /\ p2.shortlist = E2
  <2>1. Writing1(s, s2, "shortlist") /\ s2.shortlist = E(s.shortlist)
    BY <1>1, SaveShortlistEntryWrites
  <2>2. Writing1(p, p2, "shortlist") /\ p2.shortlist = E(p.shortlist)
    BY <1>1, SaveShortlistEntryWrites
  <2> HIDE DEF E, s2, p2
  <2> QED
    BY <1>1, <2>1, <2>2
<1>3. ShortlistOK(E2) /\ Apart(s.shortlist, E2, e.user)
  BY <1>1 DEF ShortlistOK, OnePerKey, Apart
<1> HIDE DEF s2, p2, E2
<1>4. "shortlist" \in Tables /\ "shortlist" \in Owned
  BY DEF Tables, Owned
<1>5. TablePair("shortlist", s2["shortlist"], p2["shortlist"], s2.ids)
  BY <1>2, <1>3, SameOf
<1>6. TableApart("shortlist", s["shortlist"], s2["shortlist"], e.user) /\ TableApart("shortlist", p["shortlist"], p2["shortlist"], e.user)
  BY <1>1, <1>2, <1>3, <1>4, ApartOf
<1>7. Move(e.user, s, p, s2, p2)
  BY <1>2, <1>4, <1>5, <1>6, OneTable
<1> QED
  BY <1>7 DEF s2, p2

LEMMA RecordPriceMoves ==
  ASSUME NEW s, NEW p, Paired(s, p), NEW t \in Nat, NEW u, NEW query, NEW model, NEW market, NEW price
  PROVE  Move(u, s, p, SQLite!RecordPrice(s, t, query, model, market, price), Postgres!RecordPrice(p, t, query, model, market, price))
<1> DEFINE s2 == SQLite!RecordPrice(s, t, query, model, market, price)
           p2 == Postgres!RecordPrice(p, t, query, model, market, price)
           row(n) == [id |-> s.ids + 1, query |-> query, model |-> model, market |-> market, price |-> price, at |-> n]
<1>1. Schema(s) /\ Schema(p) /\ s.ids = p.ids /\ s.ids \in Nat /\ PricesPair(s.prices, p.prices, s.ids)
  BY Pairs
<1>2. /\ Adding(s, s2, "prices") /\ s2.prices = s.prices \cup {row(t \div 2)}
      /\ Adding(p, p2, "prices") /\ p2.prices = p.prices \cup {row(t)}
  <2>1. Adding(s, s2, "prices") /\ s2.prices = s.prices \cup {row(t \div 2)}
    BY <1>1, RecordPriceWrites
  <2>2. Adding(p, p2, "prices") /\ p2.prices = p.prices \cup {row(t)}
    BY <1>1, RecordPriceWrites
  <2> QED
    BY <2>1, <2>2
<1>3. PriceTwin(row(t \div 2), row(t)) /\ row(t \div 2).id = s.ids + 1 /\ row(t).id = s.ids + 1
  BY DEF PriceTwin
<1> HIDE DEF s2, p2, row
<1>4. s2.ids = s.ids + 1
  BY <1>2 DEF Adding
<1>5. PricesPair(s2.prices, p2.prices, s.ids + 1)
  <2>1. Keyed(s.prices, s.ids) /\ Keyed(p.prices, s.ids) /\ IsFiniteSet(s.prices) /\ IsFiniteSet(p.prices)
    BY <1>1 DEF PricesPair
  <2>2. Keyed(s2.prices, s.ids + 1) /\ Keyed(p2.prices, s.ids + 1)
    BY <1>1, <1>2, <1>3, <2>1 DEF Keyed
  <2>3. IsFiniteSet(s2.prices) /\ IsFiniteSet(p2.prices)
    BY SMTT(60), <1>2, <2>1, FS_AddElement
  <2>4. PriceTwins(s2.prices, p2.prices)
    BY <1>1, <1>2, <1>3 DEF PricesPair, PriceTwins
  <2> QED
    BY <2>2, <2>3, <2>4 DEF PricesPair
<1>6. "prices" \in Tables /\ "prices" \notin Owned \cup {"listings"}
  BY DEF Tables, Owned
<1>7. TablePair("prices", s2["prices"], p2["prices"], s2.ids)
  <2>1. TablePair("prices", s2["prices"], p2["prices"], s.ids + 1)
    BY <1>5, PairOf
  <2> QED
    BY <1>4, <2>1
<1>8. TableApart("prices", s["prices"], s2["prices"], u) /\ TableApart("prices", p["prices"], p2["prices"], u)
  BY <1>6, ApartOf
<1>9. Move(u, s, p, s2, p2)
  BY <1>2, <1>6, <1>7, <1>8, OneTable
<1> QED
  BY <1>9 DEF s2, p2

LEMMA SetAIScoreCacheMoves ==
  ASSUME NEW s, NEW p, Paired(s, p), NEW u, NEW key, NEW score, NEW version
  PROVE  Move(u, s, p, SQLite!SetAIScoreCache(s, key, score, version), Postgres!SetAIScoreCache(p, key, score, version))
<1> DEFINE s2 == SQLite!SetAIScoreCache(s, key, score, version)
           p2 == Postgres!SetAIScoreCache(p, key, score, version)
           row == [key |-> key, score |-> score, version |-> SQLite!Version(version)]
           E2 == (s.scores \ {r \in s.scores : r.key = key}) \cup {row}
<1>1. Schema(s) /\ Schema(p) /\ s.scores = p.scores
  BY Pairs
<1>2. OnePerKey(s.scores, LAMBDA r : r.key)
  BY Pairs
<1>3. CASE key = Blank
  <2>1. s2 = s /\ p2 = p
    BY <1>1, <1>3, SetAIScoreCacheWrites
  <2> HIDE DEF s2, p2
  <2>2. Move(u, s, p, s2, p2)
    BY <2>1, NothingMoves
  <2> QED
    BY <2>2 DEF s2, p2
<1>4. CASE key # Blank
  <2>1. /\ Writing1(s, s2, "scores") /\ s2.scores = E2
        /\ Writing1(p, p2, "scores") /\ p2.scores = E2
    BY <1>1, <1>4, SetAIScoreCacheWrites
  <2>2. row.key = key
    OBVIOUS
  <2> HIDE DEF s2, p2, row
  <2>3. OnePerKey(E2, LAMBDA r : r.key)
    BY <1>2, <2>2 DEF OnePerKey
  <2> HIDE DEF E2
  <2>4. "scores" \in Tables /\ "scores" \notin Owned \cup {"listings"}
    BY DEF Tables, Owned
  <2>5. TablePair("scores", s2["scores"], p2["scores"], s2.ids)
    BY <2>1, <2>3, SameOf
  <2>6. TableApart("scores", s["scores"], s2["scores"], u) /\ TableApart("scores", p["scores"], p2["scores"], u)
    BY <2>4, ApartOf
  <2>7. Move(u, s, p, s2, p2)
    BY <2>1, <2>4, <2>5, <2>6, OneTable
  <2> QED
    BY <2>7 DEF s2, p2
<1> QED
  BY <1>3, <1>4

LEMMA SessionFields ==
  ASSUME NEW u, NEW question, NEW d
  PROVE  SQLiteSession(u, question, d).user = u /\ PostgresSession(u, question, d).user = u
  BY DEF SQLiteSession, PostgresSession

LEMMA SaveAssistantSessionMoves ==
  ASSUME NEW s, NEW p, Paired(s, p), NEW u \in Users, NEW question \in Nat, NEW d \in SessionDrafts
  PROVE  Move(u, s, p, SQLite!SaveAssistantSession(s, u, question, d), Postgres!SaveAssistantSession(p, u, question, d))
<1> DEFINE s2 == SQLite!SaveAssistantSession(s, u, question, d)
           p2 == Postgres!SaveAssistantSession(p, u, question, d)
           a == SQLiteSession(u, question, d)
           b == PostgresSession(u, question, d)
<1>1. Schema(s) /\ Schema(p) /\ SessionsPair(s.sessions, p.sessions)
  BY Pairs
<1>2. /\ Writing1(s, s2, "sessions") /\ s2.sessions = (s.sessions \ {r \in s.sessions : r.user = u}) \cup {a}
      /\ Writing1(p, p2, "sessions") /\ p2.sessions = (p.sessions \ {r \in p.sessions : r.user = u}) \cup {b}
  <2>1. Writing1(s, s2, "sessions") /\ s2.sessions = (s.sessions \ {r \in s.sessions : r.user = u}) \cup {a}
    BY <1>1, SessionWrites
  <2>2. Writing1(p, p2, "sessions") /\ p2.sessions = (p.sessions \ {r \in p.sessions : r.user = u}) \cup {b}
    BY <1>1, SessionWrites
  <2> QED
    BY <2>1, <2>2
<1>3. SessionTwin(a, b) /\ a.user = u /\ b.user = u
  BY SessionFields DEF SessionTwin
<1>4. \A r, q : SessionTwin(r, q) => r.user = q.user
  BY SessionFields DEF SessionTwin
<1> HIDE DEF s2, p2, a, b
<1>5. SessionsPair(s2.sessions, p2.sessions)
  <2>1. OnePerKey(s2.sessions, LAMBDA r : r.user) /\ OnePerKey(p2.sessions, LAMBDA r : r.user)
    BY <1>1, <1>2, <1>3 DEF SessionsPair, OnePerKey
  <2>2. SessionTwins(s2.sessions, p2.sessions)
    BY <1>1, <1>2, <1>3, <1>4 DEF SessionsPair, SessionTwins
  <2> QED
    BY <2>1, <2>2 DEF SessionsPair
<1>6. Apart(s.sessions, s2.sessions, u) /\ Apart(p.sessions, p2.sessions, u)
  BY <1>2, <1>3 DEF Apart
<1>7. "sessions" \in Tables /\ "sessions" \in Owned
  BY DEF Tables, Owned
<1>8. TablePair("sessions", s2["sessions"], p2["sessions"], s2.ids)
  BY <1>5, PairOf
<1>9. TableApart("sessions", s["sessions"], s2["sessions"], u) /\ TableApart("sessions", p["sessions"], p2["sessions"], u)
  BY <1>6, <1>7, ApartOf
<1>10. Move(u, s, p, s2, p2)
  BY <1>2, <1>7, <1>8, <1>9, OneTable
<1> QED
  BY <1>10 DEF s2, p2

LEMMA ClearAssistantSessionMoves ==
  ASSUME NEW s, NEW p, Paired(s, p), NEW u
  PROVE  Move(u, s, p, SQLite!ClearAssistantSession(s, u), Postgres!ClearAssistantSession(p, u))
<1> DEFINE s2 == SQLite!ClearAssistantSession(s, u)
           p2 == Postgres!ClearAssistantSession(p, u)
<1>1. Schema(s) /\ Schema(p) /\ SessionsPair(s.sessions, p.sessions)
  BY Pairs
<1>2. /\ Writing1(s, s2, "sessions") /\ s2.sessions = {r \in s.sessions : r.user # u}
      /\ Writing1(p, p2, "sessions") /\ p2.sessions = {r \in p.sessions : r.user # u}
  <2>1. Writing1(s, s2, "sessions") /\ s2.sessions = {r \in s.sessions : r.user # u}
    BY <1>1, SessionWrites
  <2>2. Writing1(p, p2, "sessions") /\ p2.sessions = {r \in p.sessions : r.user # u}
    BY <1>1, SessionWrites
  <2> QED
    BY <2>1, <2>2
<1>4. \A r, q : SessionTwin(r, q) => r.user = q.user
  BY SessionFields DEF SessionTwin
<1> HIDE DEF s2, p2
<1>5. SessionsPair(s2.sessions, p2.sessions)
  <2>1. OnePerKey(s2.sessions, LAMBDA r : r.user) /\ OnePerKey(p2.sessions, LAMBDA r : r.user)
    BY <1>1, <1>2 DEF SessionsPair, OnePerKey
  <2>2. SessionTwins(s2.sessions, p2.sessions)
    BY <1>1, <1>2, <1>4 DEF SessionsPair, SessionTwins
  <2> QED
    BY <2>1, <2>2 DEF SessionsPair
<1>6. Apart(s.sessions, s2.sessions, u) /\ Apart(p.sessions, p2.sessions, u)
  BY <1>2 DEF Apart
<1>7. "sessions" \in Tables /\ "sessions" \in Owned
  BY DEF Tables, Owned
<1>8. TablePair("sessions", s2["sessions"], p2["sessions"], s2.ids)
  BY <1>5, PairOf
<1>9. TableApart("sessions", s["sessions"], s2["sessions"], u) /\ TableApart("sessions", p["sessions"], p2["sessions"], u)
  BY <1>6, <1>7, ApartOf
<1>10. Move(u, s, p, s2, p2)
  BY <1>2, <1>7, <1>8, <1>9, OneTable
<1> QED
  BY <1>10 DEF s2, p2

\* A row of u with the next id, the same in both.
LEMMA NumberedMoves ==
  ASSUME NEW s, NEW p, Paired(s, p), NEW u, NEW k \in {"artifacts", "drafts"}, NEW row, row.id = s.ids + 1, row.user = u,
         NEW s2, NEW p2, Adding(s, s2, k), Adding(p, p2, k), s2[k] = s[k] \cup {row}, p2[k] = p[k] \cup {row}
  PROVE  Move(u, s, p, s2, p2)
<1>1. s[k] = p[k] /\ Keyed(s[k], s.ids) /\ s.ids \in Nat
  <2>1. CASE k = "artifacts"
    BY <2>1, Pairs
  <2>2. CASE k = "drafts"
    BY <2>2, Pairs
  <2> QED
    BY <2>1, <2>2
<1>2. s2.ids = s.ids + 1
  BY DEF Adding
<1>3. Keyed(s2[k], s.ids + 1) /\ Apart(s[k], s2[k], u)
  BY <1>1 DEF Keyed, Apart
<1>4. k \in Tables /\ k \in Owned
  BY DEF Tables, Owned
<1>5. TablePair(k, s2[k], p2[k], s2.ids)
  <2>1. s2[k] = p2[k] /\ Keyed(s2[k], s2.ids)
    BY <1>1, <1>2, <1>3
  <2>2. CASE k = "artifacts"
    BY <2>1, <2>2, SameOf
  <2>3. CASE k = "drafts"
    BY <2>1, <2>3, SameOf
  <2> QED
    BY <2>2, <2>3
<1>6. TableApart(k, s[k], s2[k], u) /\ TableApart(k, p[k], p2[k], u)
  BY <1>1, <1>3, <1>4, ApartOf
<1> QED
  BY <1>4, <1>5, <1>6, OneTable

LEMMA AssistantMoves ==
  ASSUME NEW s, NEW p, Paired(s, p), NEW u, NEW x
  PROVE  /\ Move(u, s, p, SQLite!SaveConversationArtifact(s, u, x), Postgres!SaveConversationArtifact(p, u, x))
         /\ Move(u, s, p, SQLite!SaveActionDraft(s, u, x), Postgres!SaveActionDraft(p, u, x))
<1>1. Schema(s) /\ Schema(p) /\ s.ids = p.ids
  BY Pairs
<1>2. Move(u, s, p, SQLite!SaveConversationArtifact(s, u, x), Postgres!SaveConversationArtifact(p, u, x))
  <2> DEFINE s2 == SQLite!SaveConversationArtifact(s, u, x)
             p2 == Postgres!SaveConversationArtifact(p, u, x)
             row == [id |-> s.ids + 1, user |-> u, text |-> x]
  <2>1. /\ Adding(s, s2, "artifacts") /\ s2["artifacts"] = s["artifacts"] \cup {row}
        /\ Adding(p, p2, "artifacts") /\ p2["artifacts"] = p["artifacts"] \cup {row}
    <3>1. Adding(s, s2, "artifacts") /\ s2["artifacts"] = s["artifacts"] \cup {row}
      BY <1>1, AssistantWrites
    <3>2. Adding(p, p2, "artifacts") /\ p2["artifacts"] = p["artifacts"] \cup {row}
      BY <1>1, AssistantWrites
    <3> QED
      BY <3>1, <3>2
  <2>2. row.id = s.ids + 1 /\ row.user = u
    OBVIOUS
  <2> HIDE DEF s2, p2, row
  <2>3. Move(u, s, p, s2, p2)
    BY <2>1, <2>2, NumberedMoves
  <2> QED
    BY <2>3 DEF s2, p2
<1>3. Move(u, s, p, SQLite!SaveActionDraft(s, u, x), Postgres!SaveActionDraft(p, u, x))
  <2> DEFINE s2 == SQLite!SaveActionDraft(s, u, x)
             p2 == Postgres!SaveActionDraft(p, u, x)
             row == [id |-> s.ids + 1, user |-> u, item |-> x]
  <2>1. /\ Adding(s, s2, "drafts") /\ s2["drafts"] = s["drafts"] \cup {row}
        /\ Adding(p, p2, "drafts") /\ p2["drafts"] = p["drafts"] \cup {row}
    <3>1. Adding(s, s2, "drafts") /\ s2["drafts"] = s["drafts"] \cup {row}
      BY <1>1, AssistantWrites
    <3>2. Adding(p, p2, "drafts") /\ p2["drafts"] = p["drafts"] \cup {row}
      BY <1>1, AssistantWrites
    <3> QED
      BY <3>1, <3>2
  <2>2. row.id = s.ids + 1 /\ row.user = u
    OBVIOUS
  <2> HIDE DEF s2, p2, row
  <2>3. Move(u, s, p, s2, p2)
    BY <2>1, <2>2, NumberedMoves
  <2> QED
    BY <2>3 DEF s2, p2
<1> QED
  BY <1>2, <1>3

-----------------------------------------------------------------------------
(* The inductive invariant: the two stores are a pair.  Every step takes    *)
(* the pair to a pair.                                                      *)

StoresInv == Paired(sqlite, postgres) /\ now \in Nat /\ newcomers \subseteq Users
\* What every step is: a move of the user it is of.
Took(u) == Move(u, sqlite, postgres, sqlite', postgres') /\ by' = u /\ now' \in Nat /\ newcomers' \subseteq Users

LEMMA WriteTakes ==
  ASSUME StoresInv, NEW u, NEW where, NEW bound, NEW times, times \subseteq Nat, NEW s, NEW p,
         Writes(where, bound, times, u, s, p), Move(u, sqlite, postgres, s, p)
  PROVE  Took(u)
  BY DEF StoresInv, Took, Writes

LEMMA WroteTakes ==
  ASSUME StoresInv, NEW u, NEW where, NEW s, NEW p, Wrote(where, u, s, p), Move(u, sqlite, postgres, s, p)
  PROVE  Took(u)
<1>1. Writes(where, MaxWrites, {1}, u, s, p) /\ {1} \subseteq Nat
  BY DEF Wrote
<1> QED
  BY <1>1, WriteTakes

LEMMA UpsertMissionTakes ==
  ASSUME StoresInv, NEW u \in Users, UpsertMission(u)
  PROVE  Took(u)
<1>1. PICK id \in {0} \cup {m.id : m \in MissionsOf(u)}, status \in {"active", "paused"} :
        LET m == [id |-> id, user |-> u, text |-> "new", status |-> status, active |-> (status = "active")]
        IN Wrote("hunting", u, SQLite!UpsertMission(sqlite, now, m), Postgres!UpsertMission(postgres, now, m))
  BY DEF UpsertMission
<1> DEFINE m == [id |-> id, user |-> u, text |-> "new", status |-> status, active |-> (status = "active")]
<1>2. m.id = id /\ m.user = u /\ m.status = status /\ m.active = (m.status = "active") /\ m.status # Blank
  BY Texts
<1>3. Wrote("hunting", u, SQLite!UpsertMission(sqlite, now, m), Postgres!UpsertMission(postgres, now, m))
  BY <1>1
<1> HIDE DEF m
<1>4. m.id = 0 \/ \E r \in sqlite.missions : r.id = m.id /\ r.user = u
  BY <1>2 DEF MissionsOf
<1>5. Move(u, sqlite, postgres, SQLite!UpsertMission(sqlite, now, m), Postgres!UpsertMission(postgres, now, m))
  BY <1>2, <1>4, UpsertMissionMoves DEF StoresInv
<1> QED
  BY <1>3, <1>5, WroteTakes

LEMMA UpdateMissionStatusTakes ==
  ASSUME StoresInv, NEW u \in Users, UpdateMissionStatus(u)
  PROVE  Took(u)
<1>1. PICK m \in MissionsOf(u), status \in {"active", "completed"} :
        Wrote("hunting", u, SQLite!UpdateMissionStatus(sqlite, now, m.id, status),
              Postgres!UpdateMissionStatus(postgres, now, m.id, status))
  BY DEF UpdateMissionStatus
<1>2. \E r \in sqlite.missions : r.id = m.id /\ r.user = u
  BY DEF MissionsOf
<1>3. status \in {"active", "paused", "completed"}
  OBVIOUS
<1>4. Move(u, sqlite, postgres, SQLite!UpdateMissionStatus(sqlite, now, m.id, status),
           Postgres!UpdateMissionStatus(postgres, now, m.id, status))
  BY <1>2, <1>3, UpdateMissionStatusMoves DEF StoresInv
<1> QED
  BY <1>1, <1>4, WroteTakes

LEMMA DeleteMissionTakes ==
  ASSUME StoresInv, NEW u \in Users, DeleteMission(u)
  PROVE  Took(u)
<1>1. PICK m \in sqlite.missions :
        Wrote("hunting", u, SQLite!DeleteMission(sqlite, m.id, u), Postgres!DeleteMission(postgres, m.id, u))
  BY DEF DeleteMission
<1>2. Move(u, sqlite, postgres, SQLite!DeleteMission(sqlite, m.id, u), Postgres!DeleteMission(postgres, m.id, u))
  BY DeleteMissionMoves DEF StoresInv
<1> QED
  BY <1>1, <1>2, WroteTakes

LEMMA RecheckMissionTakes ==
  ASSUME StoresInv, NEW u \in Users, RecheckMission(u)
  PROVE  Took(u)
<1>1. PICK m \in sqlite.missions :
        Wrote("hunting", u,
          SQLite!ResetMissionSearchSpecsNextRun(SQLite!SetMissionRecheck(sqlite, now, m.id, u), now, m.id, u),
          Postgres!ResetMissionSearchSpecsNextRun(Postgres!SetMissionRecheck(postgres, now, m.id, u), now, m.id, u))
  BY DEF RecheckMission
<1>2. Move(u, sqlite, postgres,
        SQLite!ResetMissionSearchSpecsNextRun(SQLite!SetMissionRecheck(sqlite, now, m.id, u), now, m.id, u),
        Postgres!ResetMissionSearchSpecsNextRun(Postgres!SetMissionRecheck(postgres, now, m.id, u), now, m.id, u))
  BY RecheckMoves DEF StoresInv
<1> QED
  BY <1>1, <1>2, WroteTakes

LEMMA CreateSearchConfigTakes ==
  ASSUME StoresInv, NEW u \in Users, CreateSearchConfig(u)
  PROVE  Took(u)
<1>1. PICK m \in {r.id : r \in MissionsOf(u)} :
        LET s == [user |-> u, mission |-> m, market |-> "marktplaats", enabled |-> TRUE, next |-> 0, text |-> "new"]
        IN Wrote("hunting", u, SQLite!CreateSearchConfig(sqlite, now, s), Postgres!CreateSearchConfig(postgres, now, s))
  BY DEF CreateSearchConfig
<1> DEFINE s == [user |-> u, mission |-> m, market |-> "marktplaats", enabled |-> TRUE, next |-> 0, text |-> "new"]
<1>2. s.user = u
  OBVIOUS
<1>3. Wrote("hunting", u, SQLite!CreateSearchConfig(sqlite, now, s), Postgres!CreateSearchConfig(postgres, now, s))
  BY <1>1
<1> HIDE DEF s
<1>4. Move(u, sqlite, postgres, SQLite!CreateSearchConfig(sqlite, now, s), Postgres!CreateSearchConfig(postgres, now, s))
  BY <1>2, CreateSearchConfigMoves DEF StoresInv
<1> QED
  BY <1>3, <1>4, WroteTakes

\* What an edit leaves alone.
LEMMA EditedKeeps ==
  ASSUME NEW s, SearchFields \subseteq DOMAIN s, NEW e
  PROVE  /\ e \in Edited(s) => e.id = s.id
         /\ \A u : e \in Edited([s EXCEPT !.user = u]) => e.user = u
  BY DEF Edited, SearchFields

LEMMA SearchRows ==
  ASSUME StoresInv
  PROVE  \A s \in sqlite.searches : SearchFields \subseteq DOMAIN s
  BY Pairs DEF StoresInv, SearchesPair, SearchesOK

LEMMA UpdateSearchConfigTakes ==
  ASSUME StoresInv, NEW u \in Users, UpdateSearchConfig(u)
  PROVE  Took(u)
<1>1. PICK s \in sqlite.searches : \E e \in Edited([s EXCEPT !.user = u]) :
        Wrote("hunting", u, SQLite!UpdateSearchConfig(sqlite, now, e), Postgres!UpdateSearchConfig(postgres, now, e))
  BY DEF UpdateSearchConfig
<1>2. PICK e \in Edited([s EXCEPT !.user = u]) :
        Wrote("hunting", u, SQLite!UpdateSearchConfig(sqlite, now, e), Postgres!UpdateSearchConfig(postgres, now, e))
  BY <1>1
<1>3. e.user = u
  BY <1>2, SearchRows, EditedKeeps
<1>4. Move(e.user, sqlite, postgres, SQLite!UpdateSearchConfig(sqlite, now, e), Postgres!UpdateSearchConfig(postgres, now, e))
  BY UpdateSearchConfigMoves DEF StoresInv
<1> QED
  BY <1>2, <1>3, <1>4, WroteTakes

LEMMA DeleteSearchConfigTakes ==
  ASSUME StoresInv, NEW u \in Users, DeleteSearchConfig(u)
  PROVE  Took(u)
<1>1. PICK s \in sqlite.searches :
        Wrote("hunting", u, SQLite!DeleteSearchConfig(sqlite, s.id, u), Postgres!DeleteSearchConfig(postgres, s.id, u))
  BY DEF DeleteSearchConfig
<1>2. Move(u, sqlite, postgres, SQLite!DeleteSearchConfig(sqlite, s.id, u), Postgres!DeleteSearchConfig(postgres, s.id, u))
  BY DeleteSearchConfigMoves DEF StoresInv
<1> QED
  BY <1>1, <1>2, WroteTakes

LEMMA UpdateSearchRuntimeTakes ==
  ASSUME StoresInv, NEW u \in Users, UpdateSearchRuntime(u)
  PROVE  Took(u)
<1>1. PICK s \in SearchesOf(u) : \E e \in Edited(s) :
        Wrote("hunting", u, SQLite!UpdateSearchRuntime(sqlite, now, e), Postgres!UpdateSearchRuntime(postgres, now, e))
  BY DEF UpdateSearchRuntime
<1>2. PICK e \in Edited(s) :
        Wrote("hunting", u, SQLite!UpdateSearchRuntime(sqlite, now, e), Postgres!UpdateSearchRuntime(postgres, now, e))
  BY <1>1
<1>3. s \in sqlite.searches /\ s.user = u
  BY DEF SearchesOf
<1>4. e.id = s.id
  BY <1>2, <1>3, SearchRows, EditedKeeps
<1>5. \E q \in sqlite.searches : q.id = e.id /\ q.user = u
  BY <1>3, <1>4
<1>6. Move(u, sqlite, postgres, SQLite!UpdateSearchRuntime(sqlite, now, e), Postgres!UpdateSearchRuntime(postgres, now, e))
  BY <1>5, SearchByIdMoves DEF StoresInv
<1> QED
  BY <1>2, <1>6, WroteTakes

LEMMA SetSearchTakes ==
  ASSUME StoresInv, NEW u \in Users, SetSearch(u)
  PROVE  Took(u)
<1>1. PICK s \in SearchesOf(u) :
        \/ Wrote("hunting", u, SQLite!SetSearchEnabled(sqlite, now, s.id, ~s.enabled),
                 Postgres!SetSearchEnabled(postgres, now, s.id, ~s.enabled))
        \/ Wrote("hunting", u, SQLite!SetSearchNextRunAt(sqlite, now, s.id, now + 1),
                 Postgres!SetSearchNextRunAt(postgres, now, s.id, now + 1))
  BY DEF SetSearch
<1>2. \E q \in sqlite.searches : q.id = s.id /\ q.user = u
  BY DEF SearchesOf
<1>3. Move(u, sqlite, postgres, SQLite!SetSearchEnabled(sqlite, now, s.id, ~s.enabled),
           Postgres!SetSearchEnabled(postgres, now, s.id, ~s.enabled))
  BY <1>2, SearchByIdMoves DEF StoresInv
<1>4. Move(u, sqlite, postgres, SQLite!SetSearchNextRunAt(sqlite, now, s.id, now + 1),
           Postgres!SetSearchNextRunAt(postgres, now, s.id, now + 1))
  BY <1>2, SearchByIdMoves DEF StoresInv
<1> QED
  BY <1>1, <1>3, <1>4, WroteTakes

LEMMA SaveListingTakes ==
  ASSUME StoresInv, NEW u \in Users, SaveListing(u)
  PROVE  Took(u)
<1>1. PICK f \in Finds, m \in {0} \cup {r.id : r \in MissionsOf(u)} :
        LET l == [item |-> f.item, text |-> f.text, price |-> f.price, market |-> f.market, mission |-> m]
        IN Wrote("hunting", u, SQLite!SaveListing(sqlite, now, u, l, f.text, f), Postgres!SaveListing(postgres, now, u, l, f.text, f))
  BY DEF SaveListing
<1> DEFINE l == [item |-> f.item, text |-> f.text, price |-> f.price, market |-> f.market, mission |-> m]
<1>2. Move(u, sqlite, postgres, SQLite!SaveListing(sqlite, now, u, l, f.text, f), Postgres!SaveListing(postgres, now, u, l, f.text, f))
  BY SaveListingMoves DEF StoresInv
<1>3. Wrote("hunting", u, SQLite!SaveListing(sqlite, now, u, l, f.text, f), Postgres!SaveListing(postgres, now, u, l, f.text, f))
  BY <1>1
<1> HIDE DEF l
<1> QED
  BY <1>2, <1>3, WroteTakes

LEMMA TouchListingTakes ==
  ASSUME StoresInv, NEW u \in Users, TouchListing(u)
  PROVE  Took(u)
<1>1. PICK i \in Items :
        Wrote("hunting", u, SQLite!TouchListing(sqlite, now, u, i), Postgres!TouchListing(postgres, now, u, i))
  BY DEF TouchListing
<1>2. Move(u, sqlite, postgres, SQLite!TouchListing(sqlite, now, u, i), Postgres!TouchListing(postgres, now, u, i))
  BY TouchedMoves DEF StoresInv
<1> QED
  BY <1>1, <1>2, WroteTakes

LEMMA MarkOfferedTakes ==
  ASSUME StoresInv, NEW u \in Users, MarkOffered(u)
  PROVE  Took(u)
<1>1. PICK i \in Items : Wrote("hunting", u, SQLite!MarkOffered(sqlite, u, i), Postgres!MarkOffered(postgres, u, i))
  BY DEF MarkOffered
<1>2. Move(u, sqlite, postgres, SQLite!MarkOffered(sqlite, u, i), Postgres!MarkOffered(postgres, u, i))
  BY TouchedMoves DEF StoresInv
<1> QED
  BY <1>1, <1>2, WroteTakes

LEMMA SetListingFeedbackTakes ==
  ASSUME StoresInv, NEW u \in Users, SetListingFeedback(u)
  PROVE  Took(u)
<1>1. PICK i \in Items, feedback \in Feedbacks :
        Wrote("hunting", u, SQLite!SetListingFeedback(sqlite, now, u, i, feedback),
              Postgres!SetListingFeedback(postgres, now, u, i, feedback))
  BY DEF SetListingFeedback, Feedbacks
<1>2. Move(u, sqlite, postgres, SQLite!SetListingFeedback(sqlite, now, u, i, feedback),
           Postgres!SetListingFeedback(postgres, now, u, i, feedback))
  BY SetListingFeedbackMoves DEF StoresInv
<1> QED
  BY <1>1, <1>2, WroteTakes

LEMMA UpdateOutreachStatusTakes ==
  ASSUME StoresInv, NEW u \in Users, UpdateOutreachStatus(u)
  PROVE  Took(u)
<1>1. PICK i \in Items :
        Wrote("hunting", u, SQLite!UpdateOutreachStatus(sqlite, u, i, "won"), Postgres!UpdateOutreachStatus(postgres, u, i, "won"))
  BY DEF UpdateOutreachStatus
<1>2. Move(u, sqlite, postgres, SQLite!UpdateOutreachStatus(sqlite, u, i, "won"), Postgres!UpdateOutreachStatus(postgres, u, i, "won"))
  BY TouchedMoves DEF StoresInv
<1> QED
  BY <1>1, <1>2, WroteTakes

LEMMA SaveShortlistEntryTakes ==
  ASSUME StoresInv, NEW u \in Users, SaveShortlistEntry(u)
  PROVE  Took(u)
<1>1. PICK i \in Items, m \in {r.id : r \in MissionsOf(u)}, status \in {"watching", "removed"} :
        LET e == [user |-> u, item |-> i, mission |-> m, status |-> status]
        IN Wrote("hunting", u, SQLite!SaveShortlistEntry(sqlite, e), Postgres!SaveShortlistEntry(postgres, e))
  BY DEF SaveShortlistEntry
<1> DEFINE e == [user |-> u, item |-> i, mission |-> m, status |-> status]
<1>2. e.user = u
  OBVIOUS
<1>3. Wrote("hunting", u, SQLite!SaveShortlistEntry(sqlite, e), Postgres!SaveShortlistEntry(postgres, e))
  BY <1>1
<1> HIDE DEF e
<1>4. Move(u, sqlite, postgres, SQLite!SaveShortlistEntry(sqlite, e), Postgres!SaveShortlistEntry(postgres, e))
  BY <1>2, SaveShortlistEntryMoves DEF StoresInv
<1> QED
  BY <1>3, <1>4, WroteTakes

LEMMA RecordPriceTakes ==
  ASSUME StoresInv, NEW u \in Users, RecordPrice(u)
  PROVE  Took(u)
<1>1. PICK p \in Samples : Wrote("shared", u, SQLite!RecordPrice(sqlite, now, p[1], p[2], p[3], p[4]),
                           Postgres!RecordPrice(postgres, now, p[1], p[2], p[3], p[4]))
  BY DEF RecordPrice
<1>2. Move(u, sqlite, postgres, SQLite!RecordPrice(sqlite, now, p[1], p[2], p[3], p[4]),
           Postgres!RecordPrice(postgres, now, p[1], p[2], p[3], p[4]))
  BY RecordPriceMoves DEF StoresInv
<1> QED
  BY <1>1, <1>2, WroteTakes

LEMMA SetAIScoreCacheTakes ==
  ASSUME StoresInv, NEW u \in Users, SetAIScoreCache(u)
  PROVE  Took(u)
<1>1. PICK key \in {Blank, "k"}, version \in {0, 1, 2} :
        Wrote("shared", u, SQLite!SetAIScoreCache(sqlite, key, now, version), Postgres!SetAIScoreCache(postgres, key, now, version))
  BY DEF SetAIScoreCache
<1>2. Move(u, sqlite, postgres, SQLite!SetAIScoreCache(sqlite, key, now, version), Postgres!SetAIScoreCache(postgres, key, now, version))
  BY SetAIScoreCacheMoves DEF StoresInv
<1> QED
  BY <1>1, <1>2, WroteTakes

LEMMA ConverseTakes ==
  ASSUME StoresInv, NEW u \in Users, Converse(u) \/ SaveActionDraft(u)
  PROVE  Took(u)
<1>1. CASE \E d \in SessionDrafts : Wrote("shared", u, SQLite!SaveAssistantSession(sqlite, u, now, d),
                                        Postgres!SaveAssistantSession(postgres, u, now, d))
  <2>1. PICK d \in SessionDrafts : Wrote("shared", u, SQLite!SaveAssistantSession(sqlite, u, now, d),
                                        Postgres!SaveAssistantSession(postgres, u, now, d))
    BY <1>1
  <2>2. Move(u, sqlite, postgres, SQLite!SaveAssistantSession(sqlite, u, now, d), Postgres!SaveAssistantSession(postgres, u, now, d))
    BY SaveAssistantSessionMoves DEF StoresInv
  <2> QED
    BY <2>1, <2>2, WroteTakes
<1>2. CASE Wrote("shared", u, SQLite!ClearAssistantSession(sqlite, u), Postgres!ClearAssistantSession(postgres, u))
  <2>1. Move(u, sqlite, postgres, SQLite!ClearAssistantSession(sqlite, u), Postgres!ClearAssistantSession(postgres, u))
    BY ClearAssistantSessionMoves DEF StoresInv
  <2> QED
    BY <1>2, <2>1, WroteTakes
<1>3. CASE Wrote("shared", u, SQLite!SaveConversationArtifact(sqlite, u, now), Postgres!SaveConversationArtifact(postgres, u, now))
  <2>1. Move(u, sqlite, postgres, SQLite!SaveConversationArtifact(sqlite, u, now), Postgres!SaveConversationArtifact(postgres, u, now))
    BY AssistantMoves DEF StoresInv
  <2> QED
    BY <1>3, <2>1, WroteTakes
<1>4. CASE SaveActionDraft(u)
  <2>1. PICK i \in Items : Wrote("shared", u, SQLite!SaveActionDraft(sqlite, u, i), Postgres!SaveActionDraft(postgres, u, i))
    BY <1>4 DEF SaveActionDraft
  <2>2. Move(u, sqlite, postgres, SQLite!SaveActionDraft(sqlite, u, i), Postgres!SaveActionDraft(postgres, u, i))
    BY AssistantMoves DEF StoresInv
  <2> QED
    BY <2>1, <2>2, WroteTakes
<1> QED
  BY <1>1, <1>2, <1>3, <1>4 DEF Converse

-----------------------------------------------------------------------------
\* Two moves of one user are one, if the second leaves missions and listings alone.
LEMMA MovesCompose ==
  ASSUME NEW u, NEW s0, NEW p0, NEW s1, NEW p1, NEW s2, NEW p2, Paired(s0, p0),
         Move(u, s0, p0, s1, p1), Move(u, s1, p1, s2, p2),
         s2.listings = s1.listings, IdsKept(s0.missions, s2.missions)
  PROVE  Move(u, s0, p0, s2, p2)
<1>1. \A S, T, R : Apart(S, T, u) /\ Apart(T, R, u) => Apart(S, R, u)
  BY DEF Apart
<1>2. \A S, T, R : ListingsApart(S, T, u) /\ ListingsApart(T, R, u) => ListingsApart(S, R, u)
  BY DEF ListingsApart
<1>3. \A k, S, T, R : TableApart(k, S, T, u) /\ TableApart(k, T, R, u) => TableApart(k, S, R, u)
  BY <1>1, <1>2 DEF TableApart
<1>4. Emptied(s0, s2) /\ Emptied(p0, p2)
  <2>1. Paired(s2, p2)
    BY DEF Move
  <2>2. MissionTwins(s0.missions, p0.missions) /\ MissionTwins(s2.missions, p2.missions)
    BY <2>1, Pairs DEF MissionsPair
  <2>3. IdsKept(p0.missions, p2.missions)
    BY <2>2, KeptInBoth
  <2> QED
    BY <2>3, KeptEmptied
<1> QED
  BY <1>3, <1>4 DEF Move

LEMMA SetUpTakes ==
  ASSUME StoresInv, NEW u \in newcomers, SetUp(u)
  PROVE  Took(u)
<1> DEFINE m == [id |-> 0, user |-> u, text |-> "old", status |-> "active", active |-> TRUE]
           r == [user |-> u, mission |-> sqlite.ids + 1, market |-> "vinted", enabled |-> TRUE, next |-> 0, text |-> "old"]
           s1 == SQLite!UpsertMission(sqlite, 0, m)
           p1 == Postgres!UpsertMission(postgres, 0, m)
           s2 == SQLite!CreateSearchConfig(s1, 0, r)
           p2 == Postgres!CreateSearchConfig(p1, 0, r)
<1>1. u \in Users /\ Paired(sqlite, postgres) /\ 0 \in Nat
  BY DEF StoresInv
<1>2. sqlite' = s2 /\ postgres' = p2 /\ newcomers' = newcomers \ {u} /\ by' = u /\ now' = now
  BY DEF SetUp
<1>3. m.id = 0 /\ m.user = u /\ m.status # Blank /\ m.active = (m.status = "active") /\ r.user = u
  BY Texts
<1> HIDE DEF m, r
<1>4. Move(u, sqlite, postgres, s1, p1)
  BY <1>1, <1>3, UpsertMissionMoves
<1>5. Adding(sqlite, s1, "missions") /\ s1.missions = sqlite.missions \cup {NewMission(sqlite.ids + 1, u, m, 0 \div 2)}
  <2>1. Schema(sqlite)
    BY <1>1, Pairs
  <2>2. ~(m.id > 0)
    BY <1>3
  <2> QED
    BY <1>3, <2>1, <2>2, UpsertMissionWrites
<1> HIDE DEF s1, p1
<1>6. Paired(s1, p1)
  BY <1>4 DEF Move
<1>7. Move(u, s1, p1, s2, p2)
  BY <1>1, <1>3, <1>6, CreateSearchConfigMoves
<1>8. s2.missions = s1.missions /\ s2.listings = s1.listings
  <2>1. Schema(s1)
    BY <1>6, Pairs
  <2>2. Adding(s1, s2, "searches")
    BY <2>1, CreateSearchConfigWrites
  <2> QED
    BY <2>1, <2>2 DEF Schema, Tables, Adding
<1> HIDE DEF s2, p2
<1>9. IdsKept(sqlite.missions, s2.missions)
  BY <1>5, <1>8 DEF IdsKept
<1>10. Move(u, sqlite, postgres, s2, p2)
  BY <1>1, <1>4, <1>7, <1>8, <1>9, MovesCompose
<1> QED
  BY <1>2, <1>10 DEF StoresInv, Took

\* Every step of the hunting and shared tables.
LEMMA StoresNextTakes ==
  ASSUME StoresInv, StoresNext
  PROVE  \E u \in Users : Took(u)
<1>1. CASE \E u \in newcomers : SetUp(u)
  BY <1>1, SetUpTakes DEF StoresInv
<1>2. ASSUME NEW u \in Users,
             \/ UpsertMission(u) \/ UpdateMissionStatus(u) \/ DeleteMission(u) \/ RecheckMission(u)
             \/ CreateSearchConfig(u) \/ UpdateSearchConfig(u) \/ DeleteSearchConfig(u) \/ UpdateSearchRuntime(u) \/ SetSearch(u)
             \/ SaveListing(u) \/ TouchListing(u) \/ MarkOffered(u) \/ SetListingFeedback(u) \/ UpdateOutreachStatus(u)
             \/ SaveShortlistEntry(u)
             \/ RecordPrice(u) \/ SetAIScoreCache(u) \/ Converse(u) \/ SaveActionDraft(u)
      PROVE  Took(u)
  BY <1>2, UpsertMissionTakes, UpdateMissionStatusTakes, DeleteMissionTakes, RecheckMissionTakes, CreateSearchConfigTakes,
     UpdateSearchConfigTakes, DeleteSearchConfigTakes, UpdateSearchRuntimeTakes, SetSearchTakes, SaveListingTakes,
     TouchListingTakes, MarkOfferedTakes, SetListingFeedbackTakes, UpdateOutreachStatusTakes, SaveShortlistEntryTakes,
     RecordPriceTakes, SetAIScoreCacheTakes, ConverseTakes
<1> QED
  BY <1>1, <1>2 DEF StoresNext

-----------------------------------------------------------------------------
(* The books: both stores make the same of them.                            *)

\* Tables that are the same in both stores and are no user's own.
Ledgers == {"users", "events", "processed", "identities", "runs", "audit", "webhooks", "snapshots", "history", "invoices",
            "mutations", "reconciles", "usage"}

LEMMA BookBlanks == SQLiteB!Blank = Blank /\ PostgresB!Blank = Blank
  BY Zenon DEF SQLiteB!Blank, PostgresB!Blank, Blank

LEMMA LedgerTables ==
  ASSUME NEW k \in Ledgers
  PROVE  k \in Tables /\ k \notin Owned \cup {"listings"} /\ k \notin Twinned /\ k # "ids" /\ k # "missions"
  BY DEF Ledgers, Tables, Owned, Twinned

LEMMA LedgersSame ==
  ASSUME NEW s, NEW p, Paired(s, p), NEW k \in Ledgers
  PROVE  /\ Schema(s) /\ Schema(p) /\ s.ids = p.ids /\ s.ids \in Nat
         /\ p[k] = s[k] /\ Unique(k, s[k]) /\ (k \in Numbered => Keyed(s[k], s.ids))
<1>1. k \in Tables /\ k \notin Twinned
  BY LedgerTables
<1>2. TablePair(k, s[k], p[k], s.ids)
  BY <1>1 DEF Paired
<1>3. p[k] = s[k] /\ Unique(k, s[k]) /\ (k \in Numbered => Keyed(s[k], s.ids))
  BY <1>1, <1>2, Zenon DEF TablePair
<1> QED
  BY <1>3, Pairs

\* A ledger rewritten alike in both stores.
LEMMA LedgerMoves ==
  ASSUME NEW s, NEW p, Paired(s, p), NEW u, NEW k \in Ledgers, NEW T, Unique(k, T), k \in Numbered => Keyed(T, s.ids)
  PROVE  Move(u, s, p, [s EXCEPT ![k] = T], [p EXCEPT ![k] = T])
<1> DEFINE s2 == [s EXCEPT ![k] = T]
           p2 == [p EXCEPT ![k] = T]
<1>1. k \in Tables /\ k \notin Owned \cup {"listings"} /\ k \notin Twinned /\ k # "ids" /\ k # "missions"
  BY LedgerTables
<1>2. Schema(s) /\ Schema(p)
  BY Pairs
<1>3. Writing1(s, s2, k) /\ s2[k] = T
  BY <1>1, <1>2, Writes1
<1>4. Writing1(p, p2, k) /\ p2[k] = T
  BY <1>1, <1>2, Writes1
<1> HIDE DEF s2, p2
<1>5. s2.ids = s.ids
  BY <1>1, <1>2, <1>3 DEF Writing1, Schema
<1>6. TablePair(k, T, T, s.ids)
  <2>1. k \in Numbered => Keyed(T, s.ids)
    OBVIOUS
  <2>2. k # "missions" /\ k # "searches" /\ k # "listings" /\ k # "prices" /\ k # "sessions"
    BY <1>1 DEF Twinned
  <2> QED
    BY <2>1, <2>2, Zenon DEF TablePair
<1>7. TableApart(k, s[k], s2[k], u) /\ TableApart(k, p[k], p2[k], u)
  BY <1>1, ApartOf
<1>8. Move(u, s, p, s2, p2)
  BY <1>1, <1>3, <1>4, <1>5, <1>6, <1>7, OneTable
<1> QED
  BY <1>8 DEF s2, p2

\* A row with the next id, appended alike to both.
LEMMA LedgerAppends ==
  ASSUME NEW s, NEW p, Paired(s, p), NEW u, NEW k \in Ledgers, k \in Numbered, NEW row, "id" \in DOMAIN row,
         LogRow(k, [row EXCEPT !.id = s.ids + 1])
  PROVE  Move(u, s, p, SQLiteB!Appended(s, k, row), PostgresB!Appended(p, k, row))
<1> DEFINE s2 == SQLiteB!Appended(s, k, row)
           p2 == PostgresB!Appended(p, k, row)
           new == [row EXCEPT !.id = s.ids + 1]
           T == s[k] \cup {new}
<1>1. k \in Tables /\ k \notin Owned \cup {"listings"} /\ k \notin Twinned /\ k # "ids" /\ k # "missions"
  BY LedgerTables
<1>2. /\ Schema(s) /\ Schema(p) /\ s.ids = p.ids /\ s.ids \in Nat
      /\ p[k] = s[k] /\ Unique(k, s[k]) /\ Keyed(s[k], s.ids)
  BY LedgersSame
<1>3. Adding(s, s2, k) /\ s2[k] = T
  BY <1>1, <1>2 DEF Schema, Adding, SQLiteB!Appended
<1>4. Adding(p, p2, k) /\ p2[k] = T
  BY <1>1, <1>2 DEF Schema, Adding, PostgresB!Appended
<1>5. new.id = s.ids + 1 /\ LogRow(k, new)
  OBVIOUS
<1> HIDE DEF s2, p2, new
<1>6. s2.ids = s.ids + 1
  BY <1>3 DEF Adding
<1>7. Keyed(T, s.ids + 1)
  BY <1>2, <1>5 DEF Keyed
<1>8. Unique(k, T)
  <2>1. k \notin {"shortlist", "scores", "users", "identities", "webhooks", "mutations", "snapshots", "invoices"}
    BY DEF Numbered
  <2>2. k \in {"runs", "usage", "reconciles"} => \A r \in T : LogRow(k, r)
    <3>1. k \in {"runs", "usage", "reconciles"} => \A r \in s[k] : LogRow(k, r)
      BY <1>2, Zenon DEF Unique
    <3> HIDE DEF LogRow
    <3> QED
      BY <1>5, <3>1
  <2> HIDE DEF LogRow
  <2> QED
    BY <2>1, <2>2 DEF Unique
<1> HIDE DEF T
<1>9. TablePair(k, T, T, s.ids + 1)
  <2>2. k # "missions" /\ k # "searches" /\ k # "listings" /\ k # "prices" /\ k # "sessions"
    BY <1>1 DEF Twinned
  <2> QED
    BY <1>7, <1>8, <2>2, Zenon DEF TablePair
<1>10. TableApart(k, s[k], s2[k], u) /\ TableApart(k, p[k], p2[k], u)
  BY <1>1, ApartOf
<1>11. TablePair(k, s2[k], p2[k], s2.ids)
  BY <1>3, <1>4, <1>6, <1>9
<1>12. Move(u, s, p, s2, p2)
  BY <1>1, <1>3, <1>4, <1>10, <1>11, OneTable
<1> QED
  BY <1>12 DEF s2, p2

-----------------------------------------------------------------------------
(* Accounts.                                                                *)

LEMMA UsersOf ==
  ASSUME NEW s, NEW p, Paired(s, p)
  PROVE  Schema(s) /\ Schema(p) /\ p.users = s.users /\ UsersOK(s.users)
<1>1. "users" \in Ledgers
  BY DEF Ledgers
<1>2. p["users"] = s["users"] /\ Unique("users", s["users"])
  BY <1>1, LedgersSame
<1> QED
  BY <1>2, Pairs, Zenon DEF Unique

LEMMA UsersMove ==
  ASSUME NEW s, NEW p, Paired(s, p), NEW u, NEW T, UsersOK(T)
  PROVE  Move(u, s, p, [s EXCEPT !.users = T], [p EXCEPT !.users = T])
<1>1. "users" \in Ledgers /\ "users" \notin Numbered
  BY DEF Ledgers, Numbered
<1>2. Unique("users", T)
  <2>1. /\ "users" # "shortlist" /\ "users" # "scores" /\ "users" # "identities" /\ "users" # "webhooks"
        /\ "users" # "mutations" /\ "users" # "snapshots" /\ "users" # "invoices"
        /\ "users" \notin {"runs", "usage", "reconciles"}
    OBVIOUS
  <2> QED
    BY <2>1, Zenon DEF Unique
<1>3. Move(u, s, p, [s EXCEPT !["users"] = T], [p EXCEPT !["users"] = T])
  BY <1>1, <1>2, LedgerMoves
<1> QED
  BY <1>3

\* No more rows than there were.
LEMMA ImageFinite ==
  ASSUME NEW T, IsFiniteSet(T), NEW T2, NEW h, ImageOf(T, T2, h)
  PROVE  IsFiniteSet(T2)
<1>1. [r \in T |-> h[r]] \in Surjection(T, T2)
  BY DEF Surjection, ImageOf
<1> QED
  BY <1>1, FS_Surjection

\* An edit that leaves ids and emails alone.
LEMMA UsersEdited ==
  ASSUME NEW T, UsersOK(T), NEW T2, NEW h, ImageOf(T, T2, h),
         \A r \in T : h[r].id = r.id /\ h[r].email = r.email /\ DOMAIN h[r] = DOMAIN r
  PROVE  UsersOK(T2)
<1>1. OnePerKey(T2, LAMBDA r : r.id)
  BY DEF UsersOK, OnePerKey, ImageOf
<1>2. OnePerKey(T2, LAMBDA r : r.email)
  BY DEF UsersOK, OnePerKey, ImageOf
<1>3. \A r \in T2 : {"id", "email"} \subseteq DOMAIN r
  BY DEF UsersOK, ImageOf
<1>4. IsFiniteSet(T2)
  BY ImageFinite DEF UsersOK
<1> QED
  BY <1>1, <1>2, <1>3, <1>4 DEF UsersOK

LEMMA UpdateUserProfileMoves ==
  ASSUME NEW s, NEW p, Paired(s, p), NEW u, NEW key, NEW x
  PROVE  Move(u, s, p, SQLiteB!UpdateUserProfile(s, key, x), PostgresB!UpdateUserProfile(p, key, x))
<1> DEFINE T2 == {IF r.id = key THEN [r EXCEPT !.text = x] ELSE r : r \in s.users}
           h == [r \in s.users |-> IF r.id = key THEN [r EXCEPT !.text = x] ELSE r]
<1>1. p.users = s.users /\ UsersOK(s.users)
  BY UsersOf
<1>2. ImageOf(s.users, T2, h)
  BY DEF ImageOf
<1>3. \A r \in s.users : h[r].id = r.id /\ h[r].email = r.email /\ DOMAIN h[r] = DOMAIN r
  BY <1>1 DEF UsersOK
<1>4. SQLiteB!UpdateUserProfile(s, key, x) = [s EXCEPT !.users = T2]
  BY DEF SQLiteB!UpdateUserProfile, SQLiteB!WithUsers, SQLiteB!Changed
<1>5. PostgresB!UpdateUserProfile(p, key, x) = [p EXCEPT !.users = T2]
  BY <1>1 DEF PostgresB!UpdateUserProfile, PostgresB!WithUsers, PostgresB!Changed
<1> HIDE DEF T2, h
<1>6. UsersOK(T2)
  BY <1>1, <1>2, <1>3, UsersEdited
<1>7. Move(u, s, p, [s EXCEPT !.users = T2], [p EXCEPT !.users = T2])
  BY <1>6, UsersMove
<1> QED
  BY <1>4, <1>5, <1>7

LEMMA UpdateUserTierMoves ==
  ASSUME NEW s, NEW p, Paired(s, p), NEW u, NEW key, NEW x
  PROVE  Move(u, s, p, SQLiteB!UpdateUserTier(s, key, x), PostgresB!UpdateUserTier(p, key, x))
<1> DEFINE T2 == {IF r.id = key THEN [r EXCEPT !.tier = x] ELSE r : r \in s.users}
           h == [r \in s.users |-> IF r.id = key THEN [r EXCEPT !.tier = x] ELSE r]
<1>1. p.users = s.users /\ UsersOK(s.users)
  BY UsersOf
<1>2. ImageOf(s.users, T2, h)
  BY DEF ImageOf
<1>3. \A r \in s.users : h[r].id = r.id /\ h[r].email = r.email /\ DOMAIN h[r] = DOMAIN r
  BY <1>1 DEF UsersOK
<1>4. SQLiteB!UpdateUserTier(s, key, x) = [s EXCEPT !.users = T2]
  BY DEF SQLiteB!UpdateUserTier, SQLiteB!WithUsers, SQLiteB!Changed
<1>5. PostgresB!UpdateUserTier(p, key, x) = [p EXCEPT !.users = T2]
  BY <1>1 DEF PostgresB!UpdateUserTier, PostgresB!WithUsers, PostgresB!Changed
<1> HIDE DEF T2, h
<1>6. UsersOK(T2)
  BY <1>1, <1>2, <1>3, UsersEdited
<1>7. Move(u, s, p, [s EXCEPT !.users = T2], [p EXCEPT !.users = T2])
  BY <1>6, UsersMove
<1> QED
  BY <1>4, <1>5, <1>7

LEMMA UpdateUserRoleMoves ==
  ASSUME NEW s, NEW p, Paired(s, p), NEW u, NEW key, NEW x
  PROVE  Move(u, s, p, SQLiteB!UpdateUserRole(s, key, x), PostgresB!UpdateUserRole(p, key, x))
<1> DEFINE T2 == {IF r.id = key THEN [r EXCEPT !.role = x] ELSE r : r \in s.users}
           h == [r \in s.users |-> IF r.id = key THEN [r EXCEPT !.role = x] ELSE r]
<1>1. p.users = s.users /\ UsersOK(s.users)
  BY UsersOf
<1>2. ImageOf(s.users, T2, h)
  BY DEF ImageOf
<1>3. \A r \in s.users : h[r].id = r.id /\ h[r].email = r.email /\ DOMAIN h[r] = DOMAIN r
  BY <1>1 DEF UsersOK
<1>4. SQLiteB!UpdateUserRole(s, key, x) = [s EXCEPT !.users = T2]
  BY DEF SQLiteB!UpdateUserRole, SQLiteB!WithUsers, SQLiteB!Changed
<1>5. PostgresB!UpdateUserRole(p, key, x) = [p EXCEPT !.users = T2]
  BY <1>1 DEF PostgresB!UpdateUserRole, PostgresB!WithUsers, PostgresB!Changed
<1> HIDE DEF T2, h
<1>6. UsersOK(T2)
  BY <1>1, <1>2, <1>3, UsersEdited
<1>7. Move(u, s, p, [s EXCEPT !.users = T2], [p EXCEPT !.users = T2])
  BY <1>6, UsersMove
<1> QED
  BY <1>4, <1>5, <1>7

LEMMA SetUserAdminMoves ==
  ASSUME NEW s, NEW p, Paired(s, p), NEW u, NEW key, NEW x
  PROVE  Move(u, s, p, SQLiteB!SetUserAdmin(s, key, x), PostgresB!SetUserAdmin(p, key, x))
<1> DEFINE T2 == {IF r.id = key THEN [r EXCEPT !.admin = x] ELSE r : r \in s.users}
           h == [r \in s.users |-> IF r.id = key THEN [r EXCEPT !.admin = x] ELSE r]
<1>1. p.users = s.users /\ UsersOK(s.users)
  BY UsersOf
<1>2. ImageOf(s.users, T2, h)
  BY DEF ImageOf
<1>3. \A r \in s.users : h[r].id = r.id /\ h[r].email = r.email /\ DOMAIN h[r] = DOMAIN r
  BY <1>1 DEF UsersOK
<1>4. SQLiteB!SetUserAdmin(s, key, x) = [s EXCEPT !.users = T2]
  BY DEF SQLiteB!SetUserAdmin, SQLiteB!WithUsers, SQLiteB!Changed
<1>5. PostgresB!SetUserAdmin(p, key, x) = [p EXCEPT !.users = T2]
  BY <1>1 DEF PostgresB!SetUserAdmin, PostgresB!WithUsers, PostgresB!Changed
<1> HIDE DEF T2, h
<1>6. UsersOK(T2)
  BY <1>1, <1>2, <1>3, UsersEdited
<1>7. Move(u, s, p, [s EXCEPT !.users = T2], [p EXCEPT !.users = T2])
  BY <1>6, UsersMove
<1> QED
  BY <1>4, <1>5, <1>7

LEMMA UpdateStripeCustomerMoves ==
  ASSUME NEW s, NEW p, Paired(s, p), NEW u, NEW key, NEW x
  PROVE  Move(u, s, p, SQLiteB!UpdateStripeCustomer(s, key, x), PostgresB!UpdateStripeCustomer(p, key, x))
<1> DEFINE T2 == {IF r.id = key THEN [r EXCEPT !.customer = x] ELSE r : r \in s.users}
           h == [r \in s.users |-> IF r.id = key THEN [r EXCEPT !.customer = x] ELSE r]
<1>1. p.users = s.users /\ UsersOK(s.users)
  BY UsersOf
<1>2. ImageOf(s.users, T2, h)
  BY DEF ImageOf
<1>3. \A r \in s.users : h[r].id = r.id /\ h[r].email = r.email /\ DOMAIN h[r] = DOMAIN r
  BY <1>1 DEF UsersOK
<1>4. SQLiteB!UpdateStripeCustomer(s, key, x) = [s EXCEPT !.users = T2]
  BY DEF SQLiteB!UpdateStripeCustomer, SQLiteB!WithUsers, SQLiteB!Changed
<1>5. PostgresB!UpdateStripeCustomer(p, key, x) = [p EXCEPT !.users = T2]
  BY <1>1 DEF PostgresB!UpdateStripeCustomer, PostgresB!WithUsers, PostgresB!Changed
<1> HIDE DEF T2, h
<1>6. UsersOK(T2)
  BY <1>1, <1>2, <1>3, UsersEdited
<1>7. Move(u, s, p, [s EXCEPT !.users = T2], [p EXCEPT !.users = T2])
  BY <1>6, UsersMove
<1> QED
  BY <1>4, <1>5, <1>7

LEMMA UpdateUserTierByStripeCustomerMoves ==
  ASSUME NEW s, NEW p, Paired(s, p), NEW u, NEW key, NEW x
  PROVE  Move(u, s, p, SQLiteB!UpdateUserTierByStripeCustomer(s, key, x), PostgresB!UpdateUserTierByStripeCustomer(p, key, x))
<1> DEFINE T2 == {IF r.customer = key THEN [r EXCEPT !.tier = x] ELSE r : r \in s.users}
           h == [r \in s.users |-> IF r.customer = key THEN [r EXCEPT !.tier = x] ELSE r]
<1>1. p.users = s.users /\ UsersOK(s.users)
  BY UsersOf
<1>2. ImageOf(s.users, T2, h)
  BY DEF ImageOf
<1>3. \A r \in s.users : h[r].id = r.id /\ h[r].email = r.email /\ DOMAIN h[r] = DOMAIN r
  BY <1>1 DEF UsersOK
<1>4. SQLiteB!UpdateUserTierByStripeCustomer(s, key, x) = [s EXCEPT !.users = T2]
  BY DEF SQLiteB!UpdateUserTierByStripeCustomer, SQLiteB!WithUsers, SQLiteB!Changed
<1>5. PostgresB!UpdateUserTierByStripeCustomer(p, key, x) = [p EXCEPT !.users = T2]
  BY <1>1 DEF PostgresB!UpdateUserTierByStripeCustomer, PostgresB!WithUsers, PostgresB!Changed
<1> HIDE DEF T2, h
<1>6. UsersOK(T2)
  BY <1>1, <1>2, <1>3, UsersEdited
<1>7. Move(u, s, p, [s EXCEPT !.users = T2], [p EXCEPT !.users = T2])
  BY <1>6, UsersMove
<1> QED
  BY <1>4, <1>5, <1>7

\* With an id that is new; nothing happens when the email is not.
LEMMA CreateUserMoves ==
  ASSUME NEW s, NEW p, Paired(s, p), NEW t, NEW u, ~\E r \in s.users : r.id = u, NEW email, NEW hash
  PROVE  Move(u, s, p, SQLiteB!CreateUser(s, t, u, email, hash), PostgresB!CreateUser(p, t, u, email, hash))
<1> DEFINE row == [id |-> u, email |-> email[1], hash |-> hash, text |-> Blank, tier |-> "free",
                   role |-> Blank, admin |-> FALSE, customer |-> Blank, at |-> t]
           T2 == s.users \cup {row}
<1>1. p.users = s.users /\ UsersOK(s.users)
  BY UsersOf
<1>2. row.id = u /\ row.email = email[1] /\ {"id", "email"} \subseteq DOMAIN row
  OBVIOUS
<1>3. CASE \E r \in s.users : r.email = email[1]
  <2>1. SQLiteB!CreateUser(s, t, u, email, hash) = s /\ PostgresB!CreateUser(p, t, u, email, hash) = p
    BY <1>1, <1>3, Zenon DEF SQLiteB!CreateUser, PostgresB!CreateUser, SQLiteB!Lowered, PostgresB!Lowered
  <2> QED
    BY <2>1, NothingMoves
<1>4. CASE ~\E r \in s.users : r.email = email[1]
  <2>1. SQLiteB!CreateUser(s, t, u, email, hash) = [s EXCEPT !.users = T2]
    BY <1>4, BookBlanks DEF SQLiteB!CreateUser, SQLiteB!Lowered
  <2>2. PostgresB!CreateUser(p, t, u, email, hash) = [p EXCEPT !.users = T2]
    BY <1>1, <1>4, BookBlanks DEF PostgresB!CreateUser, PostgresB!Lowered
  <2> HIDE DEF row
  <2>3. OnePerKey(T2, LAMBDA r : r.id)
    BY <1>1, <1>2 DEF UsersOK, OnePerKey
  <2>4. OnePerKey(T2, LAMBDA r : r.email)
    BY <1>1, <1>2, <1>4 DEF UsersOK, OnePerKey
  <2>5. \A r \in T2 : {"id", "email"} \subseteq DOMAIN r
    BY <1>1, <1>2 DEF UsersOK
  <2>8. IsFiniteSet(T2)
    BY <1>1, FS_AddElement DEF UsersOK
  <2> HIDE DEF T2
  <2>6. UsersOK(T2)
    BY <2>3, <2>4, <2>5, <2>8, Zenon DEF UsersOK
  <2>7. Move(u, s, p, [s EXCEPT !.users = T2], [p EXCEPT !.users = T2])
    BY <2>6, UsersMove
  <2> QED
    BY <2>1, <2>2, <2>7
<1> QED
  BY <1>3, <1>4

IdentitiesOK(T) ==
  OnePerKey(T, LAMBDA r : <<r.provider, r.subject>>) /\ OnePerKey(T, LAMBDA r : <<r.provider, r.user>>)

LEMMA UpsertUserAuthIdentityMoves ==
  ASSUME NEW s, NEW p, Paired(s, p), NEW u, NEW provider, NEW subject
  PROVE  Move(u, s, p, SQLiteB!UpsertUserAuthIdentity(s, u, provider, subject),
                       PostgresB!UpsertUserAuthIdentity(p, u, provider, subject))
<1> DEFINE row == [user |-> u, provider |-> provider, subject |-> subject]
           Same(i) == i.provider = provider /\ i.subject = subject
           T2 == (s.identities \ {i \in s.identities : Same(i)}) \cup {row}
           Other == \E i \in s.identities : i.user = u /\ i.provider = provider /\ i.subject # subject
<1>1. "identities" \in Ledgers /\ "identities" \notin Numbered
  BY DEF Ledgers, Numbered
<1>2. p["identities"] = s["identities"] /\ Unique("identities", s["identities"])
  BY <1>1, LedgersSame
<1>3. IdentitiesOK(s.identities)
  BY <1>2, Zenon DEF Unique, IdentitiesOK
<1>4. row.user = u /\ row.provider = provider /\ row.subject = subject
  OBVIOUS
<1>5. CASE Other
  <2>1. SQLiteB!UpsertUserAuthIdentity(s, u, provider, subject) = s /\ PostgresB!UpsertUserAuthIdentity(p, u, provider, subject) = p
    BY <1>2, <1>5, Zenon DEF SQLiteB!UpsertUserAuthIdentity, PostgresB!UpsertUserAuthIdentity
  <2> QED
    BY <2>1, NothingMoves
<1>6. CASE ~Other
  <2> HIDE DEF row
  <2>1. SQLiteB!UpsertUserAuthIdentity(s, u, provider, subject) = [s EXCEPT !.identities = T2]
    BY <1>6 DEF SQLiteB!UpsertUserAuthIdentity, SQLiteB!Upserted, SQLiteB!Changed, row
  <2>2. PostgresB!UpsertUserAuthIdentity(p, u, provider, subject) = [p EXCEPT !.identities = T2]
    BY <1>2, <1>6 DEF PostgresB!UpsertUserAuthIdentity, PostgresB!Upserted, PostgresB!Changed, row
  <2>3. OnePerKey(T2, LAMBDA r : <<r.provider, r.subject>>)
    BY <1>3, <1>4 DEF IdentitiesOK, OnePerKey
  <2>4. OnePerKey(T2, LAMBDA r : <<r.provider, r.user>>)
    BY <1>3, <1>4, <1>6 DEF IdentitiesOK, OnePerKey
  <2> HIDE DEF T2
  <2>5. /\ "identities" # "shortlist" /\ "identities" # "scores" /\ "identities" # "users" /\ "identities" # "webhooks"
        /\ "identities" # "mutations" /\ "identities" # "snapshots" /\ "identities" # "invoices"
        /\ "identities" \notin {"runs", "usage", "reconciles"}
    OBVIOUS
  <2>6. Unique("identities", T2)
    BY <2>3, <2>4, <2>5, Zenon DEF Unique
  <2>7. Move(u, s, p, [s EXCEPT !["identities"] = T2], [p EXCEPT !["identities"] = T2])
    BY <1>1, <2>6, LedgerMoves
  <2> QED
    BY <2>1, <2>2, <2>7
<1> QED
  BY <1>5, <1>6

-----------------------------------------------------------------------------
(* Logs.                                                                    *)

LEMMA RecordAIUsageMoves ==
  ASSUME NEW s, NEW p, Paired(s, p), NEW u, NEW t \in Nat, NEW id \in Users \cup {Blank}, NEW tokens \in Nat, NEW ok
  PROVE  Move(u, s, p, SQLiteB!RecordAIUsage(s, t, id, tokens, ok), PostgresB!RecordAIUsage(p, t, id, tokens, ok))
<1> DEFINE row == [id |-> 0, user |-> id, tokens |-> tokens, success |-> ok, at |-> t]
<1>1. "usage" \in Ledgers /\ "usage" \in Numbered /\ "id" \in DOMAIN row
  BY DEF Ledgers, Numbered
<1>3. LogRow("usage", [row EXCEPT !.id = s.ids + 1])
  BY DEF LogRow
<1>2. /\ SQLiteB!RecordAIUsage(s, t, id, tokens, ok) = SQLiteB!Appended(s, "usage", row)
      /\ PostgresB!RecordAIUsage(p, t, id, tokens, ok) = PostgresB!Appended(p, "usage", row)
  BY DEF SQLiteB!RecordAIUsage, PostgresB!RecordAIUsage
<1> HIDE DEF row
<1> QED
  BY <1>1, <1>2, <1>3, LedgerAppends

LEMMA RecordSearchRunMoves ==
  ASSUME NEW s, NEW p, Paired(s, p), NEW u, NEW t \in Nat, NEW run, run.status = "success" => run.code = Blank
  PROVE  Move(u, s, p, SQLiteB!RecordSearchRun(s, t, run), PostgresB!RecordSearchRun(p, t, run))
<1> DEFINE row == [id |-> 0, user |-> run.user, status |-> run.status, code |-> run.code, country |-> run.country, at |-> t]
<1>1. "runs" \in Ledgers /\ "runs" \in Numbered /\ "id" \in DOMAIN row
  BY DEF Ledgers, Numbered
<1>3. LogRow("runs", [row EXCEPT !.id = s.ids + 1])
  BY DEF LogRow
<1>2. /\ SQLiteB!RecordSearchRun(s, t, run) = SQLiteB!Appended(s, "runs", row)
      /\ PostgresB!RecordSearchRun(p, t, run) = PostgresB!Appended(p, "runs", row)
  BY DEF SQLiteB!RecordSearchRun, PostgresB!RecordSearchRun
<1> HIDE DEF row
<1> QED
  BY <1>1, <1>2, <1>3, LedgerAppends

LEMMA RecordAdminAuditLogMoves ==
  ASSUME NEW s, NEW p, Paired(s, p), NEW u, NEW t, NEW actor, NEW action
  PROVE  Move(u, s, p, SQLiteB!RecordAdminAuditLog(s, t, actor, action), PostgresB!RecordAdminAuditLog(p, t, actor, action))
<1> DEFINE row == [id |-> 0, actor |-> actor, action |-> action, at |-> t]
<1>1. "audit" \in Ledgers /\ "audit" \in Numbered /\ "id" \in DOMAIN row
  BY DEF Ledgers, Numbered
<1>3. LogRow("audit", [row EXCEPT !.id = s.ids + 1])
  BY DEF LogRow
<1>2. /\ SQLiteB!RecordAdminAuditLog(s, t, actor, action) = SQLiteB!Appended(s, "audit", row)
      /\ PostgresB!RecordAdminAuditLog(p, t, actor, action) = PostgresB!Appended(p, "audit", row)
  BY DEF SQLiteB!RecordAdminAuditLog, PostgresB!RecordAdminAuditLog
<1> HIDE DEF row
<1> QED
  BY <1>1, <1>2, <1>3, LedgerAppends

LEMMA AppendStripeSubscriptionHistoryMoves ==
  ASSUME NEW s, NEW p, Paired(s, p), NEW u, NEW t, NEW sub, NEW type, NEW status
  PROVE  Move(u, s, p, SQLiteB!AppendStripeSubscriptionHistory(s, t, sub, type, status), PostgresB!AppendStripeSubscriptionHistory(p, t, sub, type, status))
<1> DEFINE row == [id |-> 0, sub |-> sub, type |-> type, status |-> status, at |-> t]
<1>1. "history" \in Ledgers /\ "history" \in Numbered /\ "id" \in DOMAIN row
  BY DEF Ledgers, Numbered
<1>3. LogRow("history", [row EXCEPT !.id = s.ids + 1])
  BY DEF LogRow
<1>2. /\ SQLiteB!AppendStripeSubscriptionHistory(s, t, sub, type, status) = SQLiteB!Appended(s, "history", row)
      /\ PostgresB!AppendStripeSubscriptionHistory(p, t, sub, type, status) = PostgresB!Appended(p, "history", row)
  BY DEF SQLiteB!AppendStripeSubscriptionHistory, PostgresB!AppendStripeSubscriptionHistory
<1> HIDE DEF row
<1> QED
  BY <1>1, <1>2, <1>3, LedgerAppends

LEMMA StartBillingReconcileRunMoves ==
  ASSUME NEW s, NEW p, Paired(s, p), NEW u, NEW t, NEW x
  PROVE  Move(u, s, p, SQLiteB!StartBillingReconcileRun(s, t, x), PostgresB!StartBillingReconcileRun(p, t, x))
<1> DEFINE row == [id |-> 0, by |-> x, status |-> "running", at |-> t, done |-> 0]
<1>1. "reconciles" \in Ledgers /\ "reconciles" \in Numbered /\ "id" \in DOMAIN row
  BY DEF Ledgers, Numbered
<1>3. LogRow("reconciles", [row EXCEPT !.id = s.ids + 1])
  BY DEF LogRow
<1>2. /\ SQLiteB!StartBillingReconcileRun(s, t, x) = SQLiteB!Appended(s, "reconciles", row)
      /\ PostgresB!StartBillingReconcileRun(p, t, x) = PostgresB!Appended(p, "reconciles", row)
  BY DEF SQLiteB!StartBillingReconcileRun, PostgresB!StartBillingReconcileRun
<1> HIDE DEF row
<1> QED
  BY <1>1, <1>2, <1>3, LedgerAppends

LEMMA FinishBillingReconcileRunMoves ==
  ASSUME NEW s, NEW p, Paired(s, p), NEW u, NEW t, NEW id, NEW status
  PROVE  Move(u, s, p, SQLiteB!FinishBillingReconcileRun(s, t, id, status), PostgresB!FinishBillingReconcileRun(p, t, id, status))
<1> DEFINE T2 == {IF r.id = id THEN [r EXCEPT !.status = status, !.done = t] ELSE r : r \in s.reconciles}
<1>1. "reconciles" \in Ledgers /\ "reconciles" \in Numbered
  BY DEF Ledgers, Numbered
<1>2. p["reconciles"] = s["reconciles"] /\ Unique("reconciles", s["reconciles"]) /\ Keyed(s["reconciles"], s.ids)
  BY <1>1, LedgersSame
<1>3. \A r \in s.reconciles : "id" \in DOMAIN r
  <2>1. "reconciles" \in {"runs", "usage", "reconciles"}
    OBVIOUS
  <2>2. \A r \in s.reconciles : LogRow("reconciles", r)
    BY <1>2, <2>1, Zenon DEF Unique
  <2> QED
    BY <2>2 DEF LogRow
<1>4. SQLiteB!FinishBillingReconcileRun(s, t, id, status) = [s EXCEPT !.reconciles = T2]
  BY DEF SQLiteB!FinishBillingReconcileRun, SQLiteB!Changed
<1>5. PostgresB!FinishBillingReconcileRun(p, t, id, status) = [p EXCEPT !.reconciles = T2]
  BY <1>2 DEF PostgresB!FinishBillingReconcileRun, PostgresB!Changed
<1>6. Keyed(T2, s.ids)
  <2> DEFINE h(r) == IF r.id = id THEN [r EXCEPT !.status = status, !.done = t] ELSE r
  <2>1. \A r \in s.reconciles : h(r).id = r.id
    BY <1>3
  <2>2. T2 = {h(r) : r \in s.reconciles}
    OBVIOUS
  <2> HIDE DEF h, T2
  <2> QED
    BY <1>2, <2>1, <2>2 DEF Keyed
<1>7. \A r \in T2 : LogRow("reconciles", r)
  BY <1>3 DEF LogRow
<1> HIDE DEF T2, LogRow
<1>8. /\ "reconciles" # "shortlist" /\ "reconciles" # "scores" /\ "reconciles" # "users" /\ "reconciles" # "webhooks"
      /\ "reconciles" # "mutations" /\ "reconciles" # "snapshots" /\ "reconciles" # "invoices" /\ "reconciles" # "identities"
  OBVIOUS
<1>9. Unique("reconciles", T2)
  BY <1>7, <1>8, Zenon DEF Unique
<1>10. Move(u, s, p, [s EXCEPT !["reconciles"] = T2], [p EXCEPT !["reconciles"] = T2])
  BY <1>1, <1>6, <1>9, LedgerMoves
<1> QED
  BY <1>4, <1>5, <1>10

-----------------------------------------------------------------------------
(* What is kept of Stripe.                                                  *)

LEMMA UpsertStripeSubscriptionSnapshotMoves ==
  ASSUME NEW s, NEW p, Paired(s, p), NEW u, NEW t, NEW x
  PROVE  Move(u, s, p, SQLiteB!UpsertStripeSubscriptionSnapshot(s, t, x), PostgresB!UpsertStripeSubscriptionSnapshot(p, t, x))
<1> DEFINE row == [sub |-> x.sub, customer |-> x.customer, user |-> x.user, status |-> x.status, yearly |-> x.yearly,
                   amount |-> x.amount, currency |-> x.currency, invoice |-> x.invoice, at |-> t]
           with(r) == row
           T2 == IF \E r \in s.snapshots : r.sub = x.sub THEN {IF r.sub = x.sub THEN with(r) ELSE r : r \in s.snapshots}
                 ELSE s.snapshots \cup {row}
<1>1. "snapshots" \in Ledgers /\ "snapshots" \notin Numbered
  BY DEF Ledgers, Numbered
<1>2. p["snapshots"] = s["snapshots"] /\ Unique("snapshots", s["snapshots"])
  BY <1>1, LedgersSame
<1>11. SnapshotsOK(s.snapshots)
  BY <1>2, Zenon DEF Unique
<1>3. OnePerKey(s.snapshots, LAMBDA r : r.sub)
  BY <1>11, Zenon DEF SnapshotsOK
<1>4. row.sub = x.sub /\ \A r : with(r).sub = x.sub
  OBVIOUS
<1>5. SQLiteB!UpsertStripeSubscriptionSnapshot(s, t, x) = [s EXCEPT !.snapshots = T2]
  BY DEF SQLiteB!UpsertStripeSubscriptionSnapshot, SQLiteB!Upserted, SQLiteB!Changed
<1>6. PostgresB!UpsertStripeSubscriptionSnapshot(p, t, x) = [p EXCEPT !.snapshots = T2]
  BY <1>2 DEF PostgresB!UpsertStripeSubscriptionSnapshot, PostgresB!Upserted, PostgresB!Changed
<1> HIDE DEF row, with
<1>7. OnePerKey(T2, LAMBDA r : r.sub)
  BY <1>3, <1>4 DEF OnePerKey
<1>12. IsFiniteSet(T2)
  <2>1. IsFiniteSet(s.snapshots)
    BY <1>11 DEF SnapshotsOK
  <2>2. CASE \E r \in s.snapshots : r.sub = x.sub
    <3> DEFINE h == [r \in s.snapshots |-> IF r.sub = x.sub THEN with(r) ELSE r]
    <3>1. ImageOf(s.snapshots, T2, h)
      BY <2>2 DEF ImageOf
    <3> HIDE DEF h, T2
    <3> QED
      BY <2>1, <3>1, ImageFinite
  <2>3. CASE ~\E r \in s.snapshots : r.sub = x.sub
    BY <2>1, <2>3, FS_AddElement
  <2> QED
    BY <2>2, <2>3
<1> HIDE DEF T2
<1>8. /\ "snapshots" # "shortlist" /\ "snapshots" # "scores" /\ "snapshots" # "users" /\ "snapshots" # "identities"
      /\ "snapshots" # "webhooks" /\ "snapshots" # "mutations" /\ "snapshots" # "invoices" /\ "snapshots" \notin {"runs", "usage", "reconciles"}
  OBVIOUS
<1>9. Unique("snapshots", T2)
  BY <1>7, <1>12, <1>8, Zenon DEF Unique, SnapshotsOK
<1>10. Move(u, s, p, [s EXCEPT !["snapshots"] = T2], [p EXCEPT !["snapshots"] = T2])
  BY <1>1, <1>9, LedgerMoves
<1> QED
  BY <1>5, <1>6, <1>10

LEMMA UpsertStripeInvoiceSummaryMoves ==
  ASSUME NEW s, NEW p, Paired(s, p), NEW u, NEW t \in Nat, NEW x, x.amount \in Nat
  PROVE  Move(u, s, p, SQLiteB!UpsertStripeInvoiceSummary(s, t, x), PostgresB!UpsertStripeInvoiceSummary(p, t, x))
<1> DEFINE row == [invoice |-> x.invoice, user |-> x.user, paid |-> x.paid, amount |-> x.amount, remaining |-> x.remaining,
                   currency |-> x.currency, at |-> t]
           with(r) == [row EXCEPT !.at = r.at]
           T2 == IF \E r \in s.invoices : r.invoice = x.invoice THEN {IF r.invoice = x.invoice THEN with(r) ELSE r : r \in s.invoices}
                 ELSE s.invoices \cup {row}
<1>1. "invoices" \in Ledgers /\ "invoices" \notin Numbered
  BY DEF Ledgers, Numbered
<1>2. p["invoices"] = s["invoices"] /\ Unique("invoices", s["invoices"])
  BY <1>1, LedgersSame
<1>11. InvoicesOK(s.invoices)
  BY <1>2, Zenon DEF Unique
<1>3. OnePerKey(s.invoices, LAMBDA r : r.invoice)
  BY <1>11, Zenon DEF InvoicesOK
<1>4. row.invoice = x.invoice /\ \A r : with(r).invoice = x.invoice
  OBVIOUS
<1>14. row.at \in Nat /\ row.amount \in Nat /\ \A r : with(r).at = r.at /\ with(r).amount = row.amount
  OBVIOUS
<1>5. SQLiteB!UpsertStripeInvoiceSummary(s, t, x) = [s EXCEPT !.invoices = T2]
  BY DEF SQLiteB!UpsertStripeInvoiceSummary, SQLiteB!Upserted, SQLiteB!Changed
<1>6. PostgresB!UpsertStripeInvoiceSummary(p, t, x) = [p EXCEPT !.invoices = T2]
  BY <1>2 DEF PostgresB!UpsertStripeInvoiceSummary, PostgresB!Upserted, PostgresB!Changed
<1> HIDE DEF row, with
<1>7. OnePerKey(T2, LAMBDA r : r.invoice)
  BY <1>3, <1>4 DEF OnePerKey
<1>12. IsFiniteSet(T2)
  <2>1. IsFiniteSet(s.invoices)
    BY <1>11 DEF InvoicesOK
  <2>2. CASE \E r \in s.invoices : r.invoice = x.invoice
    <3> DEFINE h == [r \in s.invoices |-> IF r.invoice = x.invoice THEN with(r) ELSE r]
    <3>1. ImageOf(s.invoices, T2, h)
      BY <2>2 DEF ImageOf
    <3> HIDE DEF h, T2
    <3> QED
      BY <2>1, <3>1, ImageFinite
  <2>3. CASE ~\E r \in s.invoices : r.invoice = x.invoice
    BY <2>1, <2>3, FS_AddElement
  <2> QED
    BY <2>2, <2>3
<1>13. (\A r \in T2 : r.at \in Nat /\ r.amount \in Nat)
  BY <1>11, <1>14 DEF InvoicesOK
<1> HIDE DEF T2
<1>8. /\ "invoices" # "shortlist" /\ "invoices" # "scores" /\ "invoices" # "users" /\ "invoices" # "identities"
      /\ "invoices" # "webhooks" /\ "invoices" # "mutations" /\ "invoices" # "snapshots" /\ "invoices" \notin {"runs", "usage", "reconciles"}
  OBVIOUS
<1>9. Unique("invoices", T2)
  BY <1>7, <1>12, <1>13, <1>8, Zenon DEF Unique, InvoicesOK
<1>10. Move(u, s, p, [s EXCEPT !["invoices"] = T2], [p EXCEPT !["invoices"] = T2])
  BY <1>1, <1>9, LedgerMoves
<1> QED
  BY <1>5, <1>6, <1>10

LEMMA RecordStripeMutationMoves ==
  ASSUME NEW s, NEW p, Paired(s, p), NEW u, NEW x, NEW actor, NEW status
  PROVE  Move(u, s, p, SQLiteB!RecordStripeMutation(s, x, actor, status), PostgresB!RecordStripeMutation(p, x, actor, status))
<1> DEFINE row == [key |-> x, actor |-> actor, status |-> status]
           with(r) == row
           T2 == IF \E r \in s.mutations : r.key = x THEN {IF r.key = x THEN with(r) ELSE r : r \in s.mutations}
                 ELSE s.mutations \cup {row}
<1>1. "mutations" \in Ledgers /\ "mutations" \notin Numbered
  BY DEF Ledgers, Numbered
<1>2. p["mutations"] = s["mutations"] /\ Unique("mutations", s["mutations"])
  BY <1>1, LedgersSame
<1>3. OnePerKey(s.mutations, LAMBDA r : r.key)
  BY <1>2, Zenon DEF Unique
<1>4. row.key = x /\ \A r : with(r).key = x
  OBVIOUS
<1>5. SQLiteB!RecordStripeMutation(s, x, actor, status) = [s EXCEPT !.mutations = T2]
  BY DEF SQLiteB!RecordStripeMutation, SQLiteB!Upserted, SQLiteB!Changed
<1>6. PostgresB!RecordStripeMutation(p, x, actor, status) = [p EXCEPT !.mutations = T2]
  BY <1>2 DEF PostgresB!RecordStripeMutation, PostgresB!Upserted, PostgresB!Changed
<1> HIDE DEF row, with
<1>7. OnePerKey(T2, LAMBDA r : r.key)
  BY <1>3, <1>4 DEF OnePerKey
<1> HIDE DEF T2
<1>8. /\ "mutations" # "shortlist" /\ "mutations" # "scores" /\ "mutations" # "users" /\ "mutations" # "identities"
      /\ "mutations" # "webhooks" /\ "mutations" # "snapshots" /\ "mutations" # "invoices" /\ "mutations" \notin {"runs", "usage", "reconciles"}
  OBVIOUS
<1>9. Unique("mutations", T2)
  BY <1>7, <1>8, Zenon DEF Unique
<1>10. Move(u, s, p, [s EXCEPT !["mutations"] = T2], [p EXCEPT !["mutations"] = T2])
  BY <1>1, <1>9, LedgerMoves
<1> QED
  BY <1>5, <1>6, <1>10

LEMMA UpsertStripeWebhookEventMoves ==
  ASSUME NEW s, NEW p, Paired(s, p), NEW u, NEW t, NEW x
  PROVE  Move(u, s, p, SQLiteB!UpsertStripeWebhookEvent(s, t, x), PostgresB!UpsertStripeWebhookEvent(p, t, x))
<1> DEFINE attempts == IF x.attempts = 0 THEN 1 ELSE x.attempts
           row == [event |-> x.event, status |-> x.status, attempts |-> attempts, at |-> t]
           with(r) == [row EXCEPT !.attempts = IF attempts > r.attempts THEN attempts ELSE r.attempts]
           T2 == IF \E r \in s.webhooks : r.event = x.event THEN {IF r.event = x.event THEN with(r) ELSE r : r \in s.webhooks}
                 ELSE s.webhooks \cup {row}
<1>1. "webhooks" \in Ledgers /\ "webhooks" \notin Numbered
  BY DEF Ledgers, Numbered
<1>2. p["webhooks"] = s["webhooks"] /\ Unique("webhooks", s["webhooks"])
  BY <1>1, LedgersSame
<1>3. OnePerKey(s.webhooks, LAMBDA r : r.event)
  BY <1>2, Zenon DEF Unique
<1>4. row.event = x.event /\ \A r : with(r).event = x.event
  OBVIOUS
<1>5. SQLiteB!UpsertStripeWebhookEvent(s, t, x) = [s EXCEPT !.webhooks = T2]
  BY DEF SQLiteB!UpsertStripeWebhookEvent, SQLiteB!Upserted, SQLiteB!Changed
<1>6. PostgresB!UpsertStripeWebhookEvent(p, t, x) = [p EXCEPT !.webhooks = T2]
  BY <1>2 DEF PostgresB!UpsertStripeWebhookEvent, PostgresB!Upserted, PostgresB!Changed
<1> HIDE DEF row, with
<1>7. OnePerKey(T2, LAMBDA r : r.event)
  BY <1>3, <1>4 DEF OnePerKey
<1> HIDE DEF T2
<1>8. /\ "webhooks" # "shortlist" /\ "webhooks" # "scores" /\ "webhooks" # "users" /\ "webhooks" # "identities"
      /\ "webhooks" # "mutations" /\ "webhooks" # "snapshots" /\ "webhooks" # "invoices" /\ "webhooks" \notin {"runs", "usage", "reconciles"}
  OBVIOUS
<1>9. Unique("webhooks", T2)
  BY <1>7, <1>8, Zenon DEF Unique
<1>10. Move(u, s, p, [s EXCEPT !["webhooks"] = T2], [p EXCEPT !["webhooks"] = T2])
  BY <1>1, <1>9, LedgerMoves
<1> QED
  BY <1>5, <1>6, <1>10

LEMMA EventsMove ==
  ASSUME NEW s, NEW p, Paired(s, p), NEW u, NEW event
  PROVE  /\ Move(u, s, p, SQLiteB!RecordStripeEvent(s, event), PostgresB!RecordStripeEvent(p, event))
         /\ Move(u, s, p, SQLiteB!RecordStripeProcessedEvent(s, event), PostgresB!RecordStripeProcessedEvent(p, event))
<1>1. /\ "events" \in Ledgers /\ "processed" \in Ledgers /\ "events" \notin Numbered /\ "processed" \notin Numbered
  BY DEF Ledgers, Numbered
<1>2. p["events"] = s["events"] /\ p["processed"] = s["processed"]
  BY <1>1, LedgersSame
<1>3. \A T : Unique("events", T) /\ Unique("processed", T)
  BY DEF Unique
<1> DEFINE once(T) == SQLiteB!InsertedOnce(T, event, LAMBDA e : e = event)
<1>4. \A T : PostgresB!InsertedOnce(T, event, LAMBDA e : e = event) = once(T)
  BY DEF SQLiteB!InsertedOnce, SQLiteB!Upserted, SQLiteB!Changed, PostgresB!InsertedOnce, PostgresB!Upserted, PostgresB!Changed
<1>5. /\ SQLiteB!RecordStripeEvent(s, event) = [s EXCEPT !["events"] = once(s["events"])]
      /\ PostgresB!RecordStripeEvent(p, event) = [p EXCEPT !["events"] = once(s["events"])]
  BY <1>2, <1>4 DEF SQLiteB!RecordStripeEvent, PostgresB!RecordStripeEvent
<1>6. event = Blank => SQLiteB!RecordStripeProcessedEvent(s, event) = s /\ PostgresB!RecordStripeProcessedEvent(p, event) = p
  BY BookBlanks DEF SQLiteB!RecordStripeProcessedEvent, PostgresB!RecordStripeProcessedEvent
<1>7. event # Blank =>
        /\ SQLiteB!RecordStripeProcessedEvent(s, event) = [s EXCEPT !["processed"] = once(s["processed"])]
        /\ PostgresB!RecordStripeProcessedEvent(p, event) = [p EXCEPT !["processed"] = once(s["processed"])]
  BY <1>2, <1>4, BookBlanks DEF SQLiteB!RecordStripeProcessedEvent, PostgresB!RecordStripeProcessedEvent
<1> HIDE DEF once
<1>8. Move(u, s, p, SQLiteB!RecordStripeEvent(s, event), PostgresB!RecordStripeEvent(p, event))
  <2>1. Move(u, s, p, [s EXCEPT !["events"] = once(s["events"])], [p EXCEPT !["events"] = once(s["events"])])
    BY <1>1, <1>3, LedgerMoves
  <2> QED
    BY <1>5, <2>1
<1>9. Move(u, s, p, SQLiteB!RecordStripeProcessedEvent(s, event), PostgresB!RecordStripeProcessedEvent(p, event))
  BY <1>1, <1>3, <1>6, <1>7, LedgerMoves, NothingMoves
<1> QED
  BY <1>8, <1>9

-----------------------------------------------------------------------------
(* The actions of the books.                                                *)

LEMMA EnteredTakes ==
  ASSUME StoresInv, NEW u, NEW s, NEW p, Entered(u, s, p) \/ Writing(u, s, p), Move(u, sqlite, postgres, s, p)
  PROVE  Took(u)
<1>1. Writes("books", MaxEntries, {3, 8}, u, s, p) /\ {3, 8} \subseteq Nat
  BY DEF Entered, Writing
<1> QED
  BY <1>1, WriteTakes

LEMMA CreateUserTakes ==
  ASSUME StoresInv, NEW u \in Users, CreateUser(u)
  PROVE  Took(u)
<1>1. PICK email \in Emails, hash \in {"$2", "google"} :
        Writing(u, SQLiteB!CreateUser(sqlite, now, u, email, hash), PostgresB!CreateUser(postgres, now, u, email, hash))
  BY DEF CreateUser
<1>2. ~\E r \in sqlite.users : r.id = u
  BY DEF CreateUser, Known, SQLiteB!GetUserByID
<1>3. Move(u, sqlite, postgres, SQLiteB!CreateUser(sqlite, now, u, email, hash), PostgresB!CreateUser(postgres, now, u, email, hash))
  BY <1>2, CreateUserMoves DEF StoresInv
<1> QED
  BY <1>1, <1>3, EnteredTakes

LEMMA StartMissionTakes ==
  ASSUME StoresInv, NEW u \in Users, StartMission(u)
  PROVE  Took(u)
<1> DEFINE m == [id |-> 0, user |-> u, text |-> "new", status |-> "active", active |-> TRUE]
<1>1. Entered(u, SQLite!UpsertMission(sqlite, now, m), Postgres!UpsertMission(postgres, now, m))
  BY DEF StartMission
<1>2. m.id = 0 /\ m.user = u /\ m.status # Blank /\ m.active = (m.status = "active")
  BY Texts
<1> HIDE DEF m
<1>3. Move(u, sqlite, postgres, SQLite!UpsertMission(sqlite, now, m), Postgres!UpsertMission(postgres, now, m))
  BY <1>2, UpsertMissionMoves DEF StoresInv
<1> QED
  BY <1>1, <1>3, EnteredTakes

LEMMA LinkIdentityTakes ==
  ASSUME StoresInv, NEW u \in Users, LinkIdentity(u)
  PROVE  Took(u)
<1>1. CASE \E subject \in {"s", "t"} :
         Entered(u, SQLiteB!UpsertUserAuthIdentity(sqlite, u, "google", subject), PostgresB!UpsertUserAuthIdentity(postgres, u, "google", subject))
  <2>1. PICK subject \in {"s", "t"} :
         Entered(u, SQLiteB!UpsertUserAuthIdentity(sqlite, u, "google", subject), PostgresB!UpsertUserAuthIdentity(postgres, u, "google", subject))
    BY <1>1
  <2>2. Entered(u, SQLiteB!UpsertUserAuthIdentity(sqlite, u, "google", subject), PostgresB!UpsertUserAuthIdentity(postgres, u, "google", subject))
    BY <2>1
  <2>3. Move(u, sqlite, postgres, SQLiteB!UpsertUserAuthIdentity(sqlite, u, "google", subject), PostgresB!UpsertUserAuthIdentity(postgres, u, "google", subject))
    BY UpsertUserAuthIdentityMoves DEF StoresInv
  <2> QED
    BY <2>2, <2>3, EnteredTakes
<1> QED
  BY <1>1 DEF LinkIdentity

LEMMA UpdateUserTakes ==
  ASSUME StoresInv, NEW u \in Users, UpdateUser(u)
  PROVE  Took(u)
<1>1. CASE Entered(u, SQLiteB!UpdateUserProfile(sqlite, u, "new"), PostgresB!UpdateUserProfile(postgres, u, "new"))
  <2>1. Move(u, sqlite, postgres, SQLiteB!UpdateUserProfile(sqlite, u, "new"), PostgresB!UpdateUserProfile(postgres, u, "new"))
    BY UpdateUserProfileMoves DEF StoresInv
  <2> QED
    BY <1>1, <2>1, EnteredTakes
<1>2. CASE Entered(u, SQLiteB!UpdateUserTier(sqlite, u, "pro"), PostgresB!UpdateUserTier(postgres, u, "pro"))
  <2>1. Move(u, sqlite, postgres, SQLiteB!UpdateUserTier(sqlite, u, "pro"), PostgresB!UpdateUserTier(postgres, u, "pro"))
    BY UpdateUserTierMoves DEF StoresInv
  <2> QED
    BY <1>2, <2>1, EnteredTakes
<1>3. CASE Entered(u, SQLiteB!UpdateUserRole(sqlite, u, "operator"), PostgresB!UpdateUserRole(postgres, u, "operator"))
  <2>1. Move(u, sqlite, postgres, SQLiteB!UpdateUserRole(sqlite, u, "operator"), PostgresB!UpdateUserRole(postgres, u, "operator"))
    BY UpdateUserRoleMoves DEF StoresInv
  <2> QED
    BY <1>3, <2>1, EnteredTakes
<1>4. CASE Entered(u, SQLiteB!SetUserAdmin(sqlite, u, TRUE), PostgresB!SetUserAdmin(postgres, u, TRUE))
  <2>1. Move(u, sqlite, postgres, SQLiteB!SetUserAdmin(sqlite, u, TRUE), PostgresB!SetUserAdmin(postgres, u, TRUE))
    BY SetUserAdminMoves DEF StoresInv
  <2> QED
    BY <1>4, <2>1, EnteredTakes
<1>5. CASE Entered(u, SQLiteB!UpdateStripeCustomer(sqlite, u, "cus"), PostgresB!UpdateStripeCustomer(postgres, u, "cus"))
  <2>1. Move(u, sqlite, postgres, SQLiteB!UpdateStripeCustomer(sqlite, u, "cus"), PostgresB!UpdateStripeCustomer(postgres, u, "cus"))
    BY UpdateStripeCustomerMoves DEF StoresInv
  <2> QED
    BY <1>5, <2>1, EnteredTakes
<1>6. CASE Entered(u, SQLiteB!UpdateUserTierByStripeCustomer(sqlite, "cus", "power"), PostgresB!UpdateUserTierByStripeCustomer(postgres, "cus", "power"))
  <2>1. Move(u, sqlite, postgres, SQLiteB!UpdateUserTierByStripeCustomer(sqlite, "cus", "power"), PostgresB!UpdateUserTierByStripeCustomer(postgres, "cus", "power"))
    BY UpdateUserTierByStripeCustomerMoves DEF StoresInv
  <2> QED
    BY <1>6, <2>1, EnteredTakes
<1> QED
  BY <1>1, <1>2, <1>3, <1>4, <1>5, <1>6 DEF UpdateUser

LEMMA RecordAIUsageTakes ==
  ASSUME StoresInv, NEW u \in Users, RecordAIUsage(u)
  PROVE  Took(u)
<1>1. PICK ok \in BOOLEAN, who \in {u, Blank} :
         \/ Entered(u, SQLiteB!RecordAIUsage(sqlite, now, who, 3, ok), PostgresB!RecordAIUsage(postgres, now, who, 3, ok))
         \/ Writing(u, SQLiteB!RecordAIUsage(sqlite, now, who, 3, ok), PostgresB!RecordAIUsage(postgres, now, who, 3, ok))
  BY DEF RecordAIUsage
<1>2. who \in Users \cup {Blank} /\ Paired(sqlite, postgres) /\ now \in Nat
  BY DEF StoresInv
<1>3. Move(u, sqlite, postgres, SQLiteB!RecordAIUsage(sqlite, now, who, 3, ok), PostgresB!RecordAIUsage(postgres, now, who, 3, ok))
  BY <1>2, RecordAIUsageMoves
<1> QED
  BY <1>1, <1>3, EnteredTakes

LEMMA RecordSearchRunTakes ==
  ASSUME StoresInv, NEW u \in Users, RecordSearchRun(u)
  PROVE  Took(u)
<1>1. CASE \E end \in {<<"success", Blank>>, <<"search_failed", "search_failed">>, <<"out_of_scope", "out_of_scope">>}, country \in {Blank, "NL"} :
         LET run == [user |-> u, status |-> end[1], code |-> end[2], country |-> country]
         IN Entered(u, SQLiteB!RecordSearchRun(sqlite, now, run), PostgresB!RecordSearchRun(postgres, now, run))
  <2>1. PICK end \in {<<"success", Blank>>, <<"search_failed", "search_failed">>, <<"out_of_scope", "out_of_scope">>}, country \in {Blank, "NL"} :
         LET run == [user |-> u, status |-> end[1], code |-> end[2], country |-> country]
         IN Entered(u, SQLiteB!RecordSearchRun(sqlite, now, run), PostgresB!RecordSearchRun(postgres, now, run))
    BY <1>1
  <2> DEFINE run == [user |-> u, status |-> end[1], code |-> end[2], country |-> country]
  <2>2. Entered(u, SQLiteB!RecordSearchRun(sqlite, now, run), PostgresB!RecordSearchRun(postgres, now, run))
    BY <2>1
  <2>4. run.status = "success" => run.code = Blank
    OBVIOUS
  <2> HIDE DEF run
  <2>3. Move(u, sqlite, postgres, SQLiteB!RecordSearchRun(sqlite, now, run), PostgresB!RecordSearchRun(postgres, now, run))
    BY <2>4, RecordSearchRunMoves DEF StoresInv
  <2> QED
    BY <2>2, <2>3, EnteredTakes
<1> QED
  BY <1>1 DEF RecordSearchRun

LEMMA RecordAdminActionTakes ==
  ASSUME StoresInv, NEW u \in Users, RecordAdminAction(u)
  PROVE  Took(u)
<1>1. CASE Entered(u, SQLiteB!RecordAdminAuditLog(sqlite, now, u, "tier"), PostgresB!RecordAdminAuditLog(postgres, now, u, "tier"))
  <2>1. Move(u, sqlite, postgres, SQLiteB!RecordAdminAuditLog(sqlite, now, u, "tier"), PostgresB!RecordAdminAuditLog(postgres, now, u, "tier"))
    BY RecordAdminAuditLogMoves DEF StoresInv
  <2> QED
    BY <1>1, <2>1, EnteredTakes
<1>2. CASE \E status \in {"pending", "done"} :
         Entered(u, SQLiteB!RecordStripeMutation(sqlite, "key", u, status), PostgresB!RecordStripeMutation(postgres, "key", u, status))
  <2>1. PICK status \in {"pending", "done"} :
         Entered(u, SQLiteB!RecordStripeMutation(sqlite, "key", u, status), PostgresB!RecordStripeMutation(postgres, "key", u, status))
    BY <1>2
  <2>2. Entered(u, SQLiteB!RecordStripeMutation(sqlite, "key", u, status), PostgresB!RecordStripeMutation(postgres, "key", u, status))
    BY <2>1
  <2>3. Move(u, sqlite, postgres, SQLiteB!RecordStripeMutation(sqlite, "key", u, status), PostgresB!RecordStripeMutation(postgres, "key", u, status))
    BY RecordStripeMutationMoves DEF StoresInv
  <2> QED
    BY <2>2, <2>3, EnteredTakes
<1> QED
  BY <1>1, <1>2 DEF RecordAdminAction

LEMMA HearOfEventTakes ==
  ASSUME StoresInv, NEW u \in Users, HearOfEvent(u)
  PROVE  Took(u)
<1>1. CASE \E e \in {Blank, "e"} :
         Entered(u, SQLiteB!RecordStripeProcessedEvent(sqlite, e), PostgresB!RecordStripeProcessedEvent(postgres, e))
  <2>1. PICK e \in {Blank, "e"} :
         Entered(u, SQLiteB!RecordStripeProcessedEvent(sqlite, e), PostgresB!RecordStripeProcessedEvent(postgres, e))
    BY <1>1
  <2>2. Entered(u, SQLiteB!RecordStripeProcessedEvent(sqlite, e), PostgresB!RecordStripeProcessedEvent(postgres, e))
    BY <2>1
  <2>3. Move(u, sqlite, postgres, SQLiteB!RecordStripeProcessedEvent(sqlite, e), PostgresB!RecordStripeProcessedEvent(postgres, e))
    BY EventsMove DEF StoresInv
  <2> QED
    BY <2>2, <2>3, EnteredTakes
<1>2. CASE Entered(u, SQLiteB!RecordStripeEvent(sqlite, "e"), PostgresB!RecordStripeEvent(postgres, "e"))
  <2>1. Move(u, sqlite, postgres, SQLiteB!RecordStripeEvent(sqlite, "e"), PostgresB!RecordStripeEvent(postgres, "e"))
    BY EventsMove DEF StoresInv
  <2> QED
    BY <1>2, <2>1, EnteredTakes
<1>3. CASE \E n \in 0..2 :
         LET w == [event |-> "e", status |-> "received", attempts |-> n]
         IN Entered(u, SQLiteB!UpsertStripeWebhookEvent(sqlite, now, w), PostgresB!UpsertStripeWebhookEvent(postgres, now, w))
  <2>1. PICK n \in 0..2 :
         LET w == [event |-> "e", status |-> "received", attempts |-> n]
         IN Entered(u, SQLiteB!UpsertStripeWebhookEvent(sqlite, now, w), PostgresB!UpsertStripeWebhookEvent(postgres, now, w))
    BY <1>3
  <2> DEFINE w == [event |-> "e", status |-> "received", attempts |-> n]
  <2>2. Entered(u, SQLiteB!UpsertStripeWebhookEvent(sqlite, now, w), PostgresB!UpsertStripeWebhookEvent(postgres, now, w))
    BY <2>1
  <2> HIDE DEF w
  <2>3. Move(u, sqlite, postgres, SQLiteB!UpsertStripeWebhookEvent(sqlite, now, w), PostgresB!UpsertStripeWebhookEvent(postgres, now, w))
    BY UpsertStripeWebhookEventMoves DEF StoresInv
  <2> QED
    BY <2>2, <2>3, EnteredTakes
<1> QED
  BY <1>1, <1>2, <1>3 DEF HearOfEvent

LEMMA HearOfSubscriptionTakes ==
  ASSUME StoresInv, NEW u \in Users, HearOfSubscription(u)
  PROVE  Took(u)
<1>1. CASE \E s \in Subscriptions :
         LET row == [sub |-> s.sub, customer |-> s.customer, user |-> u, status |-> s.status, yearly |-> s.yearly,
                   amount |-> s.amount, currency |-> s.currency, invoice |-> s.invoice]
         IN Entered(u, SQLiteB!UpsertStripeSubscriptionSnapshot(sqlite, now, row), PostgresB!UpsertStripeSubscriptionSnapshot(postgres, now, row))
  <2>1. PICK s \in Subscriptions :
         LET row == [sub |-> s.sub, customer |-> s.customer, user |-> u, status |-> s.status, yearly |-> s.yearly,
                   amount |-> s.amount, currency |-> s.currency, invoice |-> s.invoice]
         IN Entered(u, SQLiteB!UpsertStripeSubscriptionSnapshot(sqlite, now, row), PostgresB!UpsertStripeSubscriptionSnapshot(postgres, now, row))
    BY <1>1
  <2> DEFINE row == [sub |-> s.sub, customer |-> s.customer, user |-> u, status |-> s.status, yearly |-> s.yearly,
                   amount |-> s.amount, currency |-> s.currency, invoice |-> s.invoice]
  <2>2. Entered(u, SQLiteB!UpsertStripeSubscriptionSnapshot(sqlite, now, row), PostgresB!UpsertStripeSubscriptionSnapshot(postgres, now, row))
    BY <2>1
  <2> HIDE DEF row
  <2>3. Move(u, sqlite, postgres, SQLiteB!UpsertStripeSubscriptionSnapshot(sqlite, now, row), PostgresB!UpsertStripeSubscriptionSnapshot(postgres, now, row))
    BY UpsertStripeSubscriptionSnapshotMoves DEF StoresInv
  <2> QED
    BY <2>2, <2>3, EnteredTakes
<1>2. CASE \E s \in Subscriptions :
         Entered(u, SQLiteB!AppendStripeSubscriptionHistory(sqlite, now, s.sub, "updated", s.status), PostgresB!AppendStripeSubscriptionHistory(postgres, now, s.sub, "updated", s.status))
  <2>1. PICK s \in Subscriptions :
         Entered(u, SQLiteB!AppendStripeSubscriptionHistory(sqlite, now, s.sub, "updated", s.status), PostgresB!AppendStripeSubscriptionHistory(postgres, now, s.sub, "updated", s.status))
    BY <1>2
  <2>2. Entered(u, SQLiteB!AppendStripeSubscriptionHistory(sqlite, now, s.sub, "updated", s.status), PostgresB!AppendStripeSubscriptionHistory(postgres, now, s.sub, "updated", s.status))
    BY <2>1
  <2>3. Move(u, sqlite, postgres, SQLiteB!AppendStripeSubscriptionHistory(sqlite, now, s.sub, "updated", s.status), PostgresB!AppendStripeSubscriptionHistory(postgres, now, s.sub, "updated", s.status))
    BY AppendStripeSubscriptionHistoryMoves DEF StoresInv
  <2> QED
    BY <2>2, <2>3, EnteredTakes
<1> QED
  BY <1>1, <1>2 DEF HearOfSubscription

LEMMA HearOfInvoiceTakes ==
  ASSUME StoresInv, NEW u \in Users, HearOfInvoice(u)
  PROVE  Took(u)
<1>1. CASE \E i \in Invoices :
         LET row == [invoice |-> i.invoice, user |-> u, paid |-> i.paid, amount |-> i.amount, remaining |-> i.remaining, currency |-> i.currency]
         IN Entered(u, SQLiteB!UpsertStripeInvoiceSummary(sqlite, now, row), PostgresB!UpsertStripeInvoiceSummary(postgres, now, row))
  <2>1. PICK i \in Invoices :
         LET row == [invoice |-> i.invoice, user |-> u, paid |-> i.paid, amount |-> i.amount, remaining |-> i.remaining, currency |-> i.currency]
         IN Entered(u, SQLiteB!UpsertStripeInvoiceSummary(sqlite, now, row), PostgresB!UpsertStripeInvoiceSummary(postgres, now, row))
    BY <1>1
  <2> DEFINE row == [invoice |-> i.invoice, user |-> u, paid |-> i.paid, amount |-> i.amount, remaining |-> i.remaining, currency |-> i.currency]
  <2>2. Entered(u, SQLiteB!UpsertStripeInvoiceSummary(sqlite, now, row), PostgresB!UpsertStripeInvoiceSummary(postgres, now, row))
    BY <2>1
  <2>4. row.amount \in Nat
    BY BooksAssumption
  <2> HIDE DEF row
  <2>3. Move(u, sqlite, postgres, SQLiteB!UpsertStripeInvoiceSummary(sqlite, now, row), PostgresB!UpsertStripeInvoiceSummary(postgres, now, row))
    BY <2>4, UpsertStripeInvoiceSummaryMoves DEF StoresInv
  <2> QED
    BY <2>2, <2>3, EnteredTakes
<1> QED
  BY <1>1 DEF HearOfInvoice

LEMMA ReconcileTakes ==
  ASSUME StoresInv, NEW u \in Users, Reconcile(u)
  PROVE  Took(u)
<1>1. CASE Entered(u, SQLiteB!StartBillingReconcileRun(sqlite, now, "schedule"), PostgresB!StartBillingReconcileRun(postgres, now, "schedule"))
  <2>1. Move(u, sqlite, postgres, SQLiteB!StartBillingReconcileRun(sqlite, now, "schedule"), PostgresB!StartBillingReconcileRun(postgres, now, "schedule"))
    BY StartBillingReconcileRunMoves DEF StoresInv
  <2> QED
    BY <1>1, <2>1, EnteredTakes
<1>2. CASE \E r \in sqlite.reconciles :
         Entered(u, SQLiteB!FinishBillingReconcileRun(sqlite, now, r.id, "success"), PostgresB!FinishBillingReconcileRun(postgres, now, r.id, "success"))
  <2>1. PICK r \in sqlite.reconciles :
         Entered(u, SQLiteB!FinishBillingReconcileRun(sqlite, now, r.id, "success"), PostgresB!FinishBillingReconcileRun(postgres, now, r.id, "success"))
    BY <1>2
  <2>2. Entered(u, SQLiteB!FinishBillingReconcileRun(sqlite, now, r.id, "success"), PostgresB!FinishBillingReconcileRun(postgres, now, r.id, "success"))
    BY <2>1
  <2>3. Move(u, sqlite, postgres, SQLiteB!FinishBillingReconcileRun(sqlite, now, r.id, "success"), PostgresB!FinishBillingReconcileRun(postgres, now, r.id, "success"))
    BY FinishBillingReconcileRunMoves DEF StoresInv
  <2> QED
    BY <2>2, <2>3, EnteredTakes
<1> QED
  BY <1>1, <1>2 DEF Reconcile

LEMMA BooksNextTakes ==
  ASSUME StoresInv, BooksNext
  PROVE  \E u \in Users : Took(u)
<1>1. PICK u \in Users :
        \/ CreateUser(u) \/ LinkIdentity(u) \/ UpdateUser(u) \/ StartMission(u)
        \/ RecordAIUsage(u) \/ RecordSearchRun(u) \/ RecordAdminAction(u)
        \/ HearOfEvent(u) \/ HearOfSubscription(u) \/ HearOfInvoice(u) \/ Reconcile(u)
  BY DEF BooksNext
<1> QED
  BY <1>1, CreateUserTakes, LinkIdentityTakes, UpdateUserTakes, StartMissionTakes, RecordAIUsageTakes, RecordSearchRunTakes,
     RecordAdminActionTakes, HearOfEventTakes, HearOfSubscriptionTakes, HearOfInvoiceTakes, ReconcileTakes

-----------------------------------------------------------------------------
(* The invariant.                                                           *)

LEMMA EmptyPaired == Paired(EmptyDb, EmptyDb)
<1> DEFINE E == EmptyDb
<1>1. \A k \in Tables : E[k] = {}
  BY DEF EmptyDb, Tables
<1>2. Schema(E) /\ E.ids = 0
  BY DEF EmptyDb, Schema, Tables
<1>3. IsFiniteSet({}) /\ Keyed({}, 0)
  BY FS_EmptySet DEF Keyed
<1>4. MissionsPair({}, {}, 0) /\ SearchesPair({}, {}, 0) /\ ListingsPair({}, {}) /\ PricesPair({}, {}, 0) /\ SessionsPair({}, {})
  BY <1>3 DEF MissionsPair, MissionsOK, MissionTwins, SearchesPair, SearchesOK, SearchTwins, ListingsPair, ListingsOK, ListingTwins,
     OnePerKey, PricesPair, PriceTwins, SessionsPair, SessionTwins
<1>5. \A k : Unique(k, {})
  BY FS_EmptySet DEF Unique, UsersOK, SnapshotsOK, InvoicesOK, OnePerKey
<1>6. \A k : TablePair(k, {}, {}, 0)
  BY <1>3, <1>4, <1>5 DEF TablePair
<1> HIDE DEF E
<1>7. Paired(E, E)
  BY <1>1, <1>2, <1>6 DEF Paired
<1> QED
  BY <1>7 DEF E

LEMMA InvInit ==
  ASSUME StoresInit \/ BooksInit
  PROVE  StoresInv
<1>1. CASE StoresInit
  BY <1>1, EmptyPaired DEF StoresInit, StoresInv
<1>2. CASE BooksInit
  <2> DEFINE e == CHOOSE e \in Emails : TRUE
  <2>1. sqlite = SQLiteB!CreateUser(EmptyDb, 0, by, e, "$2") /\ postgres = PostgresB!CreateUser(EmptyDb, 0, by, e, "$2")
    BY <1>2 DEF BooksInit
  <2>2. now = 0 /\ newcomers = {}
    BY <1>2 DEF BooksInit
  <2> HIDE DEF e
  <2>3. ~\E r \in EmptyDb.users : r.id = by
    BY DEF EmptyDb
  <2>4. Move(by, EmptyDb, EmptyDb, sqlite, postgres)
    BY <2>1, <2>3, EmptyPaired, CreateUserMoves
  <2> QED
    BY <2>2, <2>4 DEF Move, StoresInv
<1> QED
  BY <1>1, <1>2

LEMMA InvNext ==
  ASSUME StoresInv, [StoresNext \/ BooksNext]_storesVars
  PROVE  /\ StoresInv'
         /\ UNCHANGED storesVars \/ \E u \in Users : Took(u)
<1>1. UNCHANGED storesVars \/ \E u \in Users : Took(u)
  BY StoresNextTakes, BooksNextTakes
<1>2. UNCHANGED storesVars => StoresInv'
  BY DEF storesVars, StoresInv
<1>3. (\E u \in Users : Took(u)) => StoresInv'
  BY DEF Took, Move, StoresInv
<1> QED
  BY <1>1, <1>2, <1>3

\* The two stores are a pair after every call of a handler or of the worker
\* (store.go and postgres.go, method by method): each row of one has its twin in
\* the other, the counters of ids are the same, every table keeps its keys.
THEOREM StoresStayPaired == BothSpec => []StoresInv
<1> QED
  BY InvInit, InvNext, PTL DEF BothSpec

-----------------------------------------------------------------------------
(* What the invariant says of the tables.                                   *)

LEMMA KeyedOne ==
  ASSUME NEW T, NEW n, Keyed(T, n)
  PROVE  OnePerKey(T, LAMBDA r : r.id)
  BY DEF Keyed, OnePerKey

\* Every key of a pair's tables is one.
LEMMA PairKeys ==
  ASSUME NEW s, NEW p, Paired(s, p)
  PROVE  KeysOf(s) /\ KeysOf(p)
<1>1. /\ MissionsPair(s.missions, p.missions, s.ids) /\ SearchesPair(s.searches, p.searches, s.ids)
      /\ ListingsPair(s.listings, p.listings) /\ PricesPair(s.prices, p.prices, s.ids) /\ SessionsPair(s.sessions, p.sessions)
      /\ s.shortlist = p.shortlist /\ ShortlistOK(s.shortlist)
      /\ s.artifacts = p.artifacts /\ Keyed(s.artifacts, s.ids) /\ s.drafts = p.drafts /\ Keyed(s.drafts, s.ids)
  BY Pairs
<1>2. s.scores = p.scores /\ OnePerKey(s.scores, LAMBDA r : r.key)
  BY Pairs
<1>3. \A k \in Ledgers : p[k] = s[k] /\ Unique(k, s[k]) /\ (k \in Numbered => Keyed(s[k], s.ids))
  BY LedgersSame
<1>4. /\ p.users = s.users /\ p.identities = s.identities /\ p.webhooks = s.webhooks /\ p.mutations = s.mutations
      /\ p.snapshots = s.snapshots /\ p.invoices = s.invoices
  BY <1>3 DEF Ledgers
<1>5. UsersOK(s.users)
  BY UsersOf
<1>6. Unique("identities", s.identities) /\ Unique("webhooks", s.webhooks) /\ Unique("mutations", s.mutations)
      /\ Unique("snapshots", s.snapshots) /\ Unique("invoices", s.invoices)
  BY <1>3 DEF Ledgers
<1>7. /\ OnePerKey(s.identities, LAMBDA r : <<r.provider, r.subject>>)
      /\ OnePerKey(s.identities, LAMBDA r : <<r.provider, r.user>>)
  BY <1>6, Zenon DEF Unique
<1>8. OnePerKey(s.webhooks, LAMBDA r : r.event) /\ OnePerKey(s.mutations, LAMBDA r : r.key)
  BY <1>6, Zenon DEF Unique
<1>9. OnePerKey(s.snapshots, LAMBDA r : r.sub) /\ OnePerKey(s.invoices, LAMBDA r : r.invoice)
  BY <1>6, Zenon DEF Unique, SnapshotsOK, InvoicesOK
<1>10. OnePerKey(s.users, LAMBDA r : r.id) /\ OnePerKey(s.users, LAMBDA r : r.email)
  BY <1>5, Zenon DEF UsersOK
<1>11. OnePerKey(s.shortlist, LAMBDA r : <<r.user, r.item>>)
  BY <1>1, Zenon DEF ShortlistOK
<1>12. OnePerKey(s.listings, LAMBDA r : r.item) /\ OnePerKey(p.listings, LAMBDA r : r.item)
  BY <1>1, Zenon DEF ListingsPair, ListingsOK
<1>13. OnePerKey(s.sessions, LAMBDA r : r.user) /\ OnePerKey(p.sessions, LAMBDA r : r.user)
  BY <1>1, Zenon DEF SessionsPair
<1> DEFINE Ids == {"missions", "searches", "prices", "drafts", "artifacts", "usage", "runs", "history", "reconciles"}
<1>14. ASSUME NEW k \in Ids PROVE Keyed(s[k], s.ids) /\ Keyed(p[k], s.ids)
  <2>1. CASE k \in {"missions", "searches", "prices", "drafts", "artifacts"}
    <3>1. /\ Keyed(s.missions, s.ids) /\ Keyed(p.missions, s.ids) /\ Keyed(s.searches, s.ids) /\ Keyed(p.searches, s.ids)
          /\ Keyed(s.prices, s.ids) /\ Keyed(p.prices, s.ids)
      BY <1>1 DEF MissionsPair, MissionsOK, SearchesPair, SearchesOK, PricesPair
    <3> QED
      BY <1>1, <2>1, <3>1
  <2>2. CASE k \in {"usage", "runs", "history", "reconciles"}
    <3>1. k \in Ledgers /\ k \in Numbered
      BY <2>2 DEF Ledgers, Numbered
    <3> QED
      BY <1>3, <3>1
  <2> QED
    BY <2>1, <2>2
<1>15. \A k \in Ids : OnePerKey(s[k], LAMBDA r : r.id) /\ OnePerKey(p[k], LAMBDA r : r.id)
  <2> SUFFICES ASSUME NEW k \in Ids PROVE OnePerKey(s[k], LAMBDA r : r.id) /\ OnePerKey(p[k], LAMBDA r : r.id)
    OBVIOUS
  <2>1. Keyed(s[k], s.ids) /\ Keyed(p[k], s.ids)
    BY <1>14
  <2> HIDE DEF Ids
  <2>2. OnePerKey(s[k], LAMBDA r : r.id)
    BY <2>1, KeyedOne, Zenon
  <2>3. OnePerKey(p[k], LAMBDA r : r.id)
    BY <2>1, KeyedOne, Zenon
  <2> QED
    BY <2>2, <2>3, Zenon
<1>16. KeysOf(s)
  BY <1>2, <1>7, <1>8, <1>9, <1>10, <1>11, <1>12, <1>13, <1>15, Zenon DEF KeysOf
<1>17. KeysOf(p)
  BY <1>1, <1>2, <1>4, <1>7, <1>8, <1>9, <1>10, <1>11, <1>12, <1>13, <1>15, Zenon DEF KeysOf
<1> QED
  BY <1>16, <1>17

LEMMA InvTypeOK ==
  ASSUME StoresInv
  PROVE  StoresTypeOK
<1>1. Paired(sqlite, postgres)
  BY DEF StoresInv
<1>2. KeysOf(sqlite) /\ KeysOf(postgres)
  BY <1>1, PairKeys
<1>3. /\ MissionsPair(sqlite.missions, postgres.missions, sqlite.ids) /\ ListingsPair(sqlite.listings, postgres.listings)
  BY <1>1, Pairs
<1>4. /\ (\A m \in sqlite.missions : MissionRow(m)) /\ (\A l \in sqlite.listings : ListingRow(l))
      /\ (\A m \in postgres.missions : MissionRow(m)) /\ (\A l \in postgres.listings : ListingRow(l))
  BY <1>3 DEF MissionsPair, MissionsOK, ListingsPair, ListingsOK
<1>5. \A db \in {sqlite, postgres} :
       /\ \A m \in db.missions : m.user \in Users /\ m.active = (m.status = "active")
       /\ \A l \in db.listings : l.item \in Users \X Items /\ (l.judged > 0 => l.feedback # Blank)
  <2>1. \A db \in {sqlite, postgres} : db = sqlite \/ db = postgres
    OBVIOUS
  <2>2. \A m : MissionRow(m) => m.user \in Users /\ m.active = (m.status = "active")
    BY Zenon DEF MissionRow
  <2>3. \A l : ListingRow(l) => l.item \in Users \X Items /\ (l.judged > 0 => l.feedback # Blank)
    BY Zenon DEF ListingRow
  <2> SUFFICES ASSUME NEW db \in {sqlite, postgres}
               PROVE  /\ \A m \in db.missions : m.user \in Users /\ m.active = (m.status = "active")
                      /\ \A l \in db.listings : l.item \in Users \X Items /\ (l.judged > 0 => l.feedback # Blank)
    OBVIOUS
  <2>4. (\A m \in db.missions : MissionRow(m)) /\ (\A l \in db.listings : ListingRow(l))
    BY <1>4, <2>1
  <2> QED
    BY <2>2, <2>3, <2>4
<1> QED
  BY <1>2, <1>5, Zenon DEF StoresTypeOK

\* StoresTypeOK for any users, items, finds and number of writes: no call makes
\* a second row of a key, a row without its user, or a mission whose flag and
\* status disagree.
THEOREM StoresTyped == BothSpec => []StoresTypeOK
<1> QED
  BY StoresStayPaired, InvTypeOK, PTL

-----------------------------------------------------------------------------
(* Pages.                                                                   *)

LEMMA InvPagesCover ==
  ASSUME StoresInv
  PROVE  PagesCover
<1> SUFFICES ASSUME NEW u \in Users, NEW l \in SQLite!Shown(sqlite, u, 0), NEW k \in SQLite!Shown(sqlite, u, 0), l # k
             PROVE  /\ \A sort \in Sorts : SQLite!sqliteOrderBy(sort, l, k) # SQLite!sqliteOrderBy(sort, k, l)
                    /\ l.offer > 0 /\ k.offer = 0 =>
                         \A sort \in {"price_asc", "price_desc"} : SQLite!sqliteOrderBy(sort, l, k)
  BY DEF PagesCover
<1>1. ListingsOK(sqlite.listings)
  BY Pairs DEF StoresInv, ListingsPair
<1>2. /\ l \in sqlite.listings /\ k \in sqlite.listings
      /\ l.item[1] = u /\ k.item[1] = u
  BY OwnedBy DEF SQLite!Shown
<1>3. /\ l.item \in Users \X Items /\ k.item \in Users \X Items /\ l.item # k.item
      /\ l.score \in Nat /\ k.score \in Nat /\ l.offer \in Nat /\ k.offer \in Nat /\ l.seen \in Nat /\ k.seen \in Nat
  BY <1>1, <1>2 DEF ListingsOK, ListingRow, OnePerKey
<1>4. l.item[2] \in Nat /\ k.item[2] \in Nat /\ l.item[2] # k.item[2]
  <2>1. l.item[2] \in Items /\ k.item[2] \in Items
    BY <1>3
  <2>2. l.item = <<l.item[1], l.item[2]>> /\ k.item = <<k.item[1], k.item[2]>>
    BY <1>3
  <2>3. l.item[2] # k.item[2]
    BY <1>2, <1>3, <2>2
  <2> QED
    BY <2>1, <2>3, StoresAssumption
<1>5. ASSUME NEW sort \in Sorts PROVE SQLite!sqliteOrderBy(sort, l, k) # SQLite!sqliteOrderBy(sort, k, l)
  <2>1. CASE sort = "newest"
    BY <1>3, <1>4, <2>1 DEF SQLite!sqliteOrderBy
  <2>2. CASE sort = "score"
    BY <1>3, <1>4, <2>2 DEF SQLite!sqliteOrderBy
  <2>3. CASE sort = "price_asc"
    BY <1>3, <1>4, <2>3 DEF SQLite!sqliteOrderBy
  <2>4. CASE sort = "price_desc"
    BY <1>3, <1>4, <2>4 DEF SQLite!sqliteOrderBy
  <2> QED
    BY <2>1, <2>2, <2>3, <2>4 DEF Sorts
<1>6. ASSUME l.offer > 0, k.offer = 0, NEW sort \in {"price_asc", "price_desc"} PROVE SQLite!sqliteOrderBy(sort, l, k)
  <2>1. CASE sort = "price_asc"
    BY <1>3, <1>4, <1>6, <2>1 DEF SQLite!sqliteOrderBy
  <2>2. CASE sort = "price_desc"
    BY <1>3, <1>4, <1>6, <2>2 DEF SQLite!sqliteOrderBy
  <2> QED
    BY <1>6, <2>1, <2>2
<1> QED
  BY <1>5, <1>6

\* PagesCover for any listings: the ORDER BY of ListRecentListingsPaginated is a
\* total order of a user's listings in every sort, unknown offers last.
THEOREM PagesAreTotal == BothSpec => []PagesCover
<1> QED
  BY StoresStayPaired, InvPagesCover, PTL

-----------------------------------------------------------------------------
(* Steps.                                                                   *)

LEMMA MoveApart ==
  ASSUME NEW u, NEW s0, NEW p0, NEW s, NEW p, Move(u, s0, p0, s, p), NEW v \in Users \ {u}
  PROVE  RowsOf(s, v) = RowsOf(s0, v) /\ RowsOf(p, v) = RowsOf(p0, v)
<1>1. \A k \in Tables : TableApart(k, s0[k], s[k], u) /\ TableApart(k, p0[k], p[k], u)
  BY DEF Move
<1>2. Owned \subseteq Tables /\ "listings" \in Tables
  BY DEF Owned, Tables
<1>3. \A k \in Owned : {r \in s[k] : r.user = v} = {r \in s0[k] : r.user = v} /\ {r \in p[k] : r.user = v} = {r \in p0[k] : r.user = v}
  BY <1>1, <1>2 DEF TableApart, Apart
<1>4. ListingsApart(s0.listings, s.listings, u) /\ ListingsApart(p0.listings, p.listings, u)
  BY <1>1, <1>2 DEF TableApart
<1>5. \A l : OfUser(l, v) <=> l.item[1] = v
  BY OwnedBy
<1>6. {l \in s.listings : OfUser(l, v)} = {l \in s0.listings : OfUser(l, v)}
      /\ {l \in p.listings : OfUser(l, v)} = {l \in p0.listings : OfUser(l, v)}
  BY <1>4, <1>5 DEF ListingsApart
<1>7. [table \in Owned |-> {r \in s[table] : r.user = v}] = [table \in Owned |-> {r \in s0[table] : r.user = v}]
  BY <1>3
<1>8. [table \in Owned |-> {r \in p[table] : r.user = v}] = [table \in Owned |-> {r \in p0[table] : r.user = v}]
  BY <1>3
<1> QED
  BY <1>6, <1>7, <1>8, Zenon DEF RowsOf, Owned

LEMMA StepApart ==
  ASSUME StoresInv, [StoresNext \/ BooksNext]_storesVars
  PROVE  [\A u \in Users \ {by'} : RowsOf(sqlite, u)' = RowsOf(sqlite, u) /\ RowsOf(postgres, u)' = RowsOf(postgres, u)]_storesVars
<1>1. CASE \E u \in Users : Took(u)
  <2>1. PICK u \in Users : Move(u, sqlite, postgres, sqlite', postgres') /\ by' = u
    BY <1>1 DEF Took
  <2>2. \A v \in Users \ {by'} : RowsOf(sqlite', v) = RowsOf(sqlite, v) /\ RowsOf(postgres', v) = RowsOf(postgres, v)
    BY <2>1, MoveApart
  <2> QED
    BY <2>2 DEF RowsOf, OfUser, scopedItemID
<1> QED
  BY <1>1, InvNext

\* UsersApart: a call for one user leaves every row of another in both stores
\* (the user_id of each WHERE clause, the scoped item ids).
THEOREM UsersStayApart == BothSpec => UsersApart
<1>1. StoresInv /\ [StoresNext \/ BooksNext]_storesVars
        => [\A u \in Users \ {by'} : RowsOf(sqlite, u)' = RowsOf(sqlite, u) /\ RowsOf(postgres, u)' = RowsOf(postgres, u)]_storesVars
  BY StepApart
<1> QED
  BY <1>1, StoresStayPaired, PTL DEF BothSpec, UsersApart

LEMMA StepKeepsSide ==
  ASSUME StoresInv, [StoresNext \/ BooksNext]_storesVars
  PROVE  [\A l \in sqlite.listings : \A k \in {r \in sqlite'.listings : r.item = l.item} :
            <<k.price, k.score>> # <<l.price, l.score>> => UserSide(k) = UserSide(l)]_storesVars
<1>1. CASE \E u \in Users : Took(u)
  <2>1. SideKept(sqlite.listings, sqlite'.listings)
    BY <1>1 DEF Took, Move
  <2> QED
    BY <2>1 DEF SideKept, KeepsSide, UserSide
<1> QED
  BY <1>1, InvNext

\* UserChoicesKept: SaveListing's upsert of a listing that was found again keeps
\* what the user said of it.
THEOREM ChoicesOutliveTheWorker == BothSpec => UserChoicesKept
<1>1. StoresInv /\ [StoresNext \/ BooksNext]_storesVars
        => [\A l \in sqlite.listings : \A k \in {r \in sqlite'.listings : r.item = l.item} :
              <<k.price, k.score>> # <<l.price, l.score>> => UserSide(k) = UserSide(l)]_storesVars
  BY StepKeepsSide
<1> QED
  BY <1>1, StoresStayPaired, PTL DEF BothSpec, UserChoicesKept

\* DeletedMissionEmptied: DeleteMission's statements take the searches, listings
\* and shortlist entries of the owner's mission, and nothing of another
\* mission, in SQLite and in Postgres.
THEOREM DeletionEmpties == BothSpec => DeletedMissionEmptied
<1>1. ASSUME StoresInv, [StoresNext \/ BooksNext]_storesVars
      PROVE  [Emptied(sqlite, sqlite') /\ Emptied(postgres, postgres')]_storesVars
  <2>1. CASE \E u \in Users : Took(u)
    BY <2>1 DEF Took, Move
  <2> QED
    BY <1>1, <2>1, InvNext
<1> QED
  BY <1>1, StoresStayPaired, PTL DEF BothSpec, DeletedMissionEmptied
=============================================================================
