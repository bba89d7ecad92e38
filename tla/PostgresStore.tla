--------------------------- MODULE PostgresStore ---------------------------
(***************************************************************************)
(* The store over Postgres (internal/store/postgres.go), method by method   *)
(* like SQLiteStore.  Here every statement has an instant of its own, and a *)
(* mission remembers when its user last asked for a recheck.                *)
(***************************************************************************)
EXTENDS StoreTables

\* NOW().
Stamp(now) == now

-----------------------------------------------------------------------------
(* Missions.                                                                *)

MissionColumns(m) == [text |-> m.text, status |-> IF m.status = Blank THEN "active" ELSE m.status, active |-> m.active]

UpsertMission(db, now, m) ==
  LET c == MissionColumns(m)
  IN IF m.id > 0
       THEN [db EXCEPT !.missions = Changed(@, LAMBDA r : r.id = m.id, LAMBDA r :
              [r EXCEPT !.text = c.text, !.status = c.status, !.active = c.active, !.at = Stamp(now)])]
       ELSE Appended(db, "missions", [id |-> 0, user |-> m.user, text |-> c.text, status |-> c.status,
              active |-> c.active, recheck |-> 0, at |-> Stamp(now)])

\* As it is read back: a row without a status gets one from its flag.
Mission(r) == [id |-> r.id, user |-> r.user, text |-> r.text, active |-> r.active,
  status |-> IF r.status # Blank THEN r.status ELSE IF r.active THEN "active" ELSE "paused"]

GetActiveMission(db, user) ==
  {Mission(r) : r \in Latest({m \in db.missions : m.user = user /\ m.active /\ m.status = "active"}, LAMBDA m : m.at)}
GetMission(db, id) == {Mission(r) : r \in {m \in db.missions : m.id = id}}

MatchesOf(db, r) == {l \in db.listings : l.mission = r.id /\ OfUser(l, r.user)}
ListMissions(db, user) ==
  {[mission |-> Mission(r), matches |-> Cardinality(MatchesOf(db, r))] : r \in {m \in db.missions : m.user = user}}

UpdateMissionStatus(db, now, id, status) ==
  IF status \notin {"active", "paused", "completed"} THEN db
  ELSE [db EXCEPT !.missions = Changed(@, LAMBDA r : r.id = id, LAMBDA r :
         [r EXCEPT !.status = status, !.active = status = "active", !.at = Stamp(now)])]

\* One transaction, given up when the user has no such mission.
DeleteMission(db, id, user) ==
  IF ~\E m \in db.missions : m.id = id /\ m.user = user THEN db
  ELSE [db EXCEPT !.missions = {m \in @ : m.id # id},
         !.searches = {s \in @ : ~(s.mission = id /\ s.user = user)},
         !.listings = {l \in @ : ~(l.mission = id /\ OfUser(l, user))},
         !.shortlist = {e \in @ : ~(e.mission = id /\ e.user = user)}]

\* NULL (0) is an error to the query, as is a mission of somebody else.
GetMissionLastRecheck(db, id, user) ==
  {r.recheck : r \in {m \in db.missions : m.id = id /\ m.user = user /\ m.recheck > 0}}
SetMissionRecheck(db, now, id, user) ==
  [db EXCEPT !.missions = Changed(@, LAMBDA r : r.id = id /\ r.user = user, LAMBDA r : [r EXCEPT !.recheck = Stamp(now)])]
ResetMissionSearchSpecsNextRun(db, now, id, user) ==
  [db EXCEPT !.searches = Changed(@, LAMBDA r : r.mission = id /\ r.user = user, LAMBDA r : [r EXCEPT !.next = Stamp(now)])]

-----------------------------------------------------------------------------
(* Searches.                                                                *)

NormalizedMarket(market) == IF market = "vinted" THEN "vinted_nl" ELSE market
\* next: next_run_at, 0 for NULL; text: everything else a run leaves behind.
CreateSearchConfig(db, now, s) ==
  Appended(db, "searches", [id |-> 0, user |-> s.user, mission |-> s.mission, market |-> NormalizedMarket(s.market),
    enabled |-> s.enabled, next |-> s.next, text |-> s.text, at |-> Stamp(now)])

UpdateSearchConfig(db, now, s) ==
  [db EXCEPT !.searches = Changed(@, LAMBDA r : r.id = s.id /\ r.user = s.user, LAMBDA r :
    [r EXCEPT !.mission = s.mission, !.market = NormalizedMarket(s.market), !.enabled = s.enabled,
              !.next = s.next, !.text = s.text, !.at = Stamp(now)])]

\* By id alone, as the next two.
UpdateSearchRuntime(db, now, s) ==
  [db EXCEPT !.searches = Changed(@, LAMBDA r : r.id = s.id, LAMBDA r :
    [r EXCEPT !.next = s.next, !.text = s.text, !.at = Stamp(now)])]
SetSearchEnabled(db, now, id, enabled) ==
  [db EXCEPT !.searches = Changed(@, LAMBDA r : r.id = id, LAMBDA r : [r EXCEPT !.enabled = enabled, !.at = Stamp(now)])]
SetSearchNextRunAt(db, now, id, next) ==
  [db EXCEPT !.searches = Changed(@, LAMBDA r : r.id = id, LAMBDA r : [r EXCEPT !.next = next, !.at = Stamp(now)])]
DeleteSearchConfig(db, id, user) == [db EXCEPT !.searches = {s \in @ : ~(s.id = id /\ s.user = user)}]

\* As a search is read back, without its time.
SearchSpec(r) == [id |-> r.id, user |-> r.user, mission |-> r.mission, market |-> NormalizedMarket(r.market),
                  enabled |-> r.enabled, next |-> r.next, text |-> r.text]

GetSearchConfigs(db, user) == {SearchSpec(r) : r \in {s \in db.searches : s.user = user}}
GetSearchConfigByID(db, id) == {SearchSpec(r) : r \in {s \in db.searches : s.id = id}}
GetAllEnabledSearchConfigs(db) == {SearchSpec(r) : r \in {s \in db.searches : s.enabled}}
CountSearchConfigs(db, user) == Cardinality({s \in db.searches : s.user = user /\ s.enabled})
CountActiveMissions(db, user) == Cardinality({m \in db.missions : m.user = user /\ m.status = "active"})

-----------------------------------------------------------------------------
(* Listings.                                                                *)

Action(scored) == IF scored.action = Blank THEN "ask_seller" ELSE scored.action
NewListing(now, user, l, query, scored) ==
  [item |-> scopedItemID(user, l.item), text |-> l.text, query |-> query, mission |-> l.mission, price |-> l.price,
   market |-> l.market, score |-> scored.score, offer |-> scored.offer, action |-> Action(scored),
   source |-> scored.source, offered |-> FALSE, feedback |-> Blank, judged |-> 0, outreach |-> "none", seen |-> Stamp(now)]
\* The title (text), the query, and what the user made of it outlive a new save.
SaveListing(db, now, user, l, query, scored) ==
  [db EXCEPT !.listings = Upserted(@, NewListing(now, user, l, query, scored),
    LAMBDA r : r.item = scopedItemID(user, l.item),
    LAMBDA r : [r EXCEPT !.price = l.price, !.mission = l.mission, !.market = l.market, !.score = scored.score,
      !.offer = scored.offer, !.action = Action(scored), !.source = scored.source, !.seen = Stamp(now)])]

OfKey(db, user, item) == {l \in db.listings : l.item = scopedItemID(user, item)}
Touched(db, user, item, With(_)) ==
  [db EXCEPT !.listings = Changed(@, LAMBDA r : r.item = scopedItemID(user, item), With)]

TouchListing(db, now, user, item) == Touched(db, user, item, LAMBDA r : [r EXCEPT !.seen = Stamp(now)])
MarkOffered(db, user, item) == Touched(db, user, item, LAMBDA r : [r EXCEPT !.offered = TRUE])
SetListingFeedback(db, now, user, item, feedback) ==
  IF feedback \notin {Blank, "approved", "dismissed"} THEN db
  ELSE Touched(db, user, item, LAMBDA r :
         [r EXCEPT !.feedback = feedback, !.judged = IF feedback = Blank THEN 0 ELSE Stamp(now)])
\* Of no row: ErrListingNotFound.
UpdateOutreachStatus(db, user, item, status) == Touched(db, user, item, LAMBDA r : [r EXCEPT !.outreach = status])

IsNew(db, user, item) == OfKey(db, user, item) = {}
GetListingScore(db, user, item) == {l.score : l \in OfKey(db, user, item)}
GetListingScoringState(db, user, item) == {<<l.price, l.source>> : l \in OfKey(db, user, item)}
WasOffered(db, user, item) == \E l \in OfKey(db, user, item) : l.offered

\* As a listing is read back: "marktplaats" when it has no marketplace.
Listing(l) == [item |-> unscopedItemID(l.item), mission |-> l.mission, text |-> l.text, price |-> l.price,
  market |-> IF l.market = Blank THEN "marktplaats" ELSE l.market, score |-> l.score, offer |-> l.offer,
  action |-> l.action, feedback |-> l.feedback, outreach |-> l.outreach]

GetListing(db, user, item) == {Listing(l) : l \in OfKey(db, user, item)}
Shown(db, user, mission) ==
  {l \in db.listings : OfUser(l, user) /\ mission \in {0, l.mission} /\ l.feedback # "dismissed"}
\* Below the limit of 50, all of them.
ListRecentListings(db, user, mission) == {Listing(l) : l \in Shown(db, user, mission)}

\* Unknown offer prices (0) come last either way; the item breaks ties.
postgresOrderBy(sort, l, k) ==
  LET unknown(r) == IF r.offer = 0 THEN 1 ELSE 0
      tie == l.item[2] < k.item[2]
  IN CASE sort = "score" -> l.score > k.score \/ (l.score = k.score /\ tie)
       [] sort = "price_asc" -> \/ unknown(l) < unknown(k)
                                \/ unknown(l) = unknown(k) /\ l.offer < k.offer
                                \/ unknown(l) = unknown(k) /\ l.offer = k.offer /\ tie
       [] sort = "price_desc" -> \/ unknown(l) < unknown(k)
                                 \/ unknown(l) = unknown(k) /\ l.offer > k.offer
                                 \/ unknown(l) = unknown(k) /\ l.offer = k.offer /\ tie
       [] OTHER -> l.seen > k.seen \/ (l.seen = k.seen /\ tie)

Filtered(rows, filter) ==
  {l \in rows : filter.market \in {Blank, l.market} /\ (filter.score > 0 => l.score >= filter.score)}

\* A page and the number of rows there are in all.
ListRecentListingsPaginated(db, user, limit, offset, mission, filter) ==
  LET rows == Filtered(Shown(db, user, mission), filter)
      page == Paged(rows, LAMBDA l, k : postgresOrderBy(filter.sort, l, k), IF limit <= 0 THEN 20 ELSE limit, offset)
  IN [total |-> Cardinality(rows), page |-> {<<at[1], Listing(at[2])>> : at \in page}]

Deal(l) == [item |-> unscopedItemID(l.item), text |-> l.text, price |-> l.price, score |-> l.score]
GetApprovedComparables(db, user, mission) ==
  {Deal(l) : l \in {k \in Shown(db, user, mission) : k.feedback = "approved" /\ k.price > 0}}
GetComparableDeals(db, user, query, exclude) ==
  {Deal(l) : l \in {k \in Shown(db, user, 0) : k.query = query /\ k.price > 0 /\ k.item # scopedItemID(user, exclude)}}

-----------------------------------------------------------------------------
(* The shortlist.                                                           *)

SaveShortlistEntry(db, e) ==
  [db EXCEPT !.shortlist = Upserted(@, e, LAMBDA r : r.user = e.user /\ r.item = e.item, LAMBDA r : e)]

\* With what the user's listing of the item says, if there is one.
ShortlistEntry(db, e) ==
  LET l == {k \in db.listings : k.item = <<e.user, e.item>>}
  IN [entry |-> e, market |-> {k.market : k \in l}, outreach |-> IF l = {} THEN {"none"} ELSE {k.outreach : k \in l}]
GetShortlist(db, user) == {ShortlistEntry(db, e) : e \in {r \in db.shortlist : r.user = user}}
GetShortlistEntry(db, user, item) ==
  {ShortlistEntry(db, e) : e \in {r \in db.shortlist : r.user = user /\ r.item = item}}

-----------------------------------------------------------------------------
(* Prices and scores, which users share.                                    *)

RecordPrice(db, now, query, model, market, price) ==
  Appended(db, "prices", [id |-> 0, query |-> query, model |-> model, market |-> market, price |-> price, at |-> Stamp(now)])
GetPriceHistory(db, query) == {<<p.id, p.price>> : p \in {q \in db.prices : q.query = query}}

\* ORDER BY timestamp DESC LIMIT enough; with fewer there is no average.
marketAverageByKey(pool, enough) ==
  {SumOf({<<p.id, p.price>> : p \in newest}) \div enough :
     newest \in {s \in SUBSET pool : /\ Cardinality(s) = enough /\ enough > 0
                                     /\ \A p \in s, q \in pool \ s : q.at <= p.at}}

\* By model if that pool is large enough, else by query.
GetMarketAverage(db, query, model, market, enough) ==
  LET ofModel == marketAverageByKey({p \in db.prices : p.model = model /\ p.market = market}, enough)
  IN IF model # Blank /\ ofModel # {} THEN ofModel
     ELSE marketAverageByKey({p \in db.prices : p.query = query /\ p.market = market}, enough)

Version(version) == IF version = 0 THEN 1 ELSE version
SetAIScoreCache(db, key, score, version) ==
  LET row == [key |-> key, score |-> score, version |-> Version(version)]
  IN IF key = Blank THEN db ELSE [db EXCEPT !.scores = Upserted(@, row, LAMBDA r : r.key = key, LAMBDA r : row)]
\* A score made with another prompt is no hit.
GetAIScoreCache(db, key, version) == {r.score : r \in {s \in db.scores : s.key = key /\ s.version = Version(version)}}

-----------------------------------------------------------------------------
(* Assistant.                                                               *)

SaveConversationArtifact(db, user, text) == Appended(db, "artifacts", [id |-> 0, user |-> user, text |-> text])
SaveActionDraft(db, user, item) == Appended(db, "drafts", [id |-> 0, user |-> user, item |-> item])
ListActionDrafts(db, user) == {d \in db.drafts : d.user = user}

\* No draft is stored as an empty object.
SaveAssistantSession(db, user, question, draft) ==
  LET row == [user |-> user, question |-> question, draft |-> IF draft = "none" THEN "{}" ELSE draft]
  IN [db EXCEPT !.sessions = Upserted(@, row, LAMBDA r : r.user = user, LAMBDA r : row)]
GetAssistantSession(db, user) ==
  {[s EXCEPT !.draft = IF @ \in {Blank, "{}", "null"} THEN "none" ELSE @] : s \in {r \in db.sessions : r.user = user}}
ClearAssistantSession(db, user) == [db EXCEPT !.sessions = {s \in @ : s.user # user}]
=============================================================================
