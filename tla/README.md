# A TLA+ model of xolto

xolto watches second-hand marketplaces for its users: a worker pool runs their
saved searches, a scorer (heuristics, then a language model under a shared
spending cap) judges what it finds, and deals are announced. Around that core
are a REST API, Stripe billing, outreach threads, a support pipeline and a
public "analyze this link" endpoint. Everything is one Go process over one
database (Postgres in production, SQLite otherwise); concurrency is goroutines,
HTTP handlers and tickers that share tables, a few mutexes and some channels.

This directory holds TLA+ modules that model the parts of it where order and
timing decide correctness and the two implementations of its store, TLC
configurations that check them on small instances, and TLAPS proofs of what
should hold for every instance. All source paths below are relative to `src/`.

## Inventory

| Component | State it keeps | Operations | What is hard | What makes it correct | Modelled in |
|---|---|---|---|---|---|
| AI-spend budget (`internal/aibudget`, `api/ai_budget.go`) | ledger of charges, cap, alert tiers, audit rows | Allow, Reconcile, Rollback, Snapshot, SetCapUSD, audit | call sites overlap between Allow and its closing; corrections hit "the last entry" | never understates, cap holds, window exact, alerts spaced | `AIBudget` |
| Scheduling of searches (`worker/pool.go`) | runtime fields of `search_configs`, overload counter | a tick: candidates, deferral, slots; run-now; edits, recheck | stale row copies, competing priorities, overload | no healthy search starves behind siblings that waiting can outrank; deferral sheds only what may be shed | `SearchSchedule` |
| Dispatch and tasks (`pool.go`, `worker.go`) | semaphores per pass, `listings` | acquire x3, search, score, save, alert, cancel | overlapping passes, cancellation, check-then-act | limits hold, passes return, one alert per rise | `SearchDispatch` |
| Stripe billing (`api/billing.go`) | processed events, snapshots, `users.tier` | webhook, owner mutation, operator override, hourly reconciliation | lost, repeated, reordered events; failures between two writes | acts once; settles on what Stripe has | `StripeBilling` |
| Missions and searches (`api/missions.go`, deploying half of `assistant.go`) | missions, searches, idempotency cache | post, edit, status, delete, own searches; asynchronous expansion and deploy; backfill at start | check-then-act limits and idempotency; a goroutine that writes its old copy back | a retry is answered alike, deletion is final, no search twice or left behind, every mission is searched | `Missions` |
| Assistant conversation (`assistant/assistant.go`) | stored session with a draft brief | a message starts a brief or answers its question | two tabs on one session, failed clears | a brief makes one mission | `AssistantChat` |
| Outreach threads (`api/outreach.go`, `store/outreach_threads.go`, `outreach/`) | a thread per user and listing | sent, replied, four reads, hourly stale job | reply racing a resend or the job; SQLite's read-then-write | the lifecycle of a thread; a reply is final | `Outreach` implements `OutreachLifecycle` |
| Support (`api/support_handler.go`, `store/support_events.go`, `support/`) | support events, a channel of 64, workers | webhook, report, classify, page, open an issue, record; stop and restart | full channel, repeated delivery, failures half-way, shutdown between retries | every event handled or accounted for | `SupportPipeline` |
| Anonymous analysis (`api/anonymous_analyze.go`) | window per address, cache per link, daily ledger | analyze | charge, fetch and correct are three mutex sections; midnight | an honest daily breaker | `AnonymousAnalyze` |
| Limits on model calls (`reasoner/ratelimit.go`, `reasoner/musthave.go`) | sliding windows, cache of verdicts | Allow, Evaluate | two windows per call, pruning in place | a window means what it says | `CallLimits` |
| Accounts (`api/auth.go`, `api/admin.go`, `api/support.go`) | users, identities, refresh sessions | register, password, Google, refresh; team flag and roles | every request is separate calls on copies | an account stays its owner's, a role its giver's | `Accounts` |
| Store (`store/store.go`, `store/postgres.go`) | all tables, twice | some 90 queries, written once per database | only SQLite is tested, only Postgres runs in production | both answer alike; users apart; reports add up | `StoreTables`, `SQLiteStore`, `PostgresStore`, `Stores`; `SQLiteBooks`, `PostgresBooks`, `Books` |
| Scorer, generator, reply copilot, draft notes | text | LLM calls | - | - | only as call sites of `AIBudget` |
| Live events (`api/sse.go`), CLI program, marketplace clients, Plain, Linear, Twilio, mail, Discord, configuration | - | I/O, parsing | - | - | not modelled |

The components interact like this. A mission deploys searches (`Missions`, set
going by the API or by a conversation, `AssistantChat`). A tick of the pool
(`SearchSchedule`) plans tasks over their rows; `dispatch` runs them
(`SearchDispatch`) and they write the rows the next tick reads. A task scores
listings, and a scorer that calls the model passes the hourly windows
(`CallLimits`) and the budget (`AIBudget`), as do the other kinds of call site;
the public endpoint has a daily ledger before both (`AnonymousAnalyze`). Billing
(`StripeBilling`) writes the tier from which the limits of missions, searches and
slots come; in those modules the tier is a constant. Every call ends in the store
(`Stores`, `Books`).

## Modules

**`AIBudget`** - one `Tracker` and its callers. Variables `entries`, `capUSD`,
`fired` are the tracker's fields; `phase` says where each call site is between
`Allow` and its `Reconcile` or `Rollback`. One action per mutex section: `AllowAdmitted`
and `AllowDenied` are the two ends of `Allow`; `Succeed`, `Refused`, `Fail`, `ScorerRollback`
and `ScorerReconcileAfterRollback` are the ways a call closes; `ReasonerGate`
is the second gate, in `Reasoner.callLLM`, which reads a snapshot;
`SetCapUSD` and `RecordAIBudgetOverride` are the two halves of the override
handler. Money is a natural number (dollars are floats in the code; rounding
is not modelled). `seen`, `reported`, `expired`, `capHigh`, `lastAlert`,
`lostAudit` are history that only the properties read.

**`SearchSchedule`** - the rows and one pass over them. `RunAllNow` is a whole
pass of the loop up to `dispatch`: it reads the rows, ranks, updates the overload
counter, defers and hands out slots in one step. `RunTask` is a task's end, which writes the row from the
copy the pass made. `Tick` waits for the pass to end. `RunUserNow`,
`GiveUp`, `UpdateSearchConfig`, `Recheck` are the API's; `SignalAges` is time.
`next_run_at` is kept relative to the present and floored at the staleness cap.
Round robin over priority bands only orders the start of goroutines and does not
decide who gets a slot, so it is not in this module. Database errors of a pass are
not modelled.

**`SearchDispatch`** - the goroutines between the two. Each pass has its own
semaphores (`used`), as in the code; `at` and `held` say where each goroutine is.
`Fetch` and `Judge` are the two sides of the call to the scorer in `RunTask`.
Each user has one listing, which all of the user's searches can find.

**`StripeBilling`** - one customer. `stripe` and `sent` are the environment, which
may deliver any sent event at any time, in any order, again, or never.
`Receive`, `SetTier`, `PersistSnapshot`, `PersistTier` are the database calls of one
webhook, in order; `OwnerMutate` and `OwnerSync` are the owner's; `StartReconcile`,
`ReconcileSnapshot`, `ReconcileTier` are the hourly reconciliation. `Mishap` bounds failed calls,
the crash and tiers set by operators. Invoices and logs are written beside this and never
read back by it. A reconciliation whose list call fails is one that did not start.

**`Missions`** - the missions of one user. `mission` and `searches` are the tables, `doing` says which
database call each request, and the goroutine a POST leaves behind, makes next and with which copy.
`PostLookUp`, `PostLimits`, `PostInsert`, `PostRecord` are a POST; `EnsureSearchVariants` (the model call),
`PersistVariants`, `AutoDeployHunts`, `DeployHunt` its goroutine; `PutMission`, `PutReread`, `UpdateMissionStatus`,
`DeleteMission`, `handleSearches`, `CreateOwnSearch` the other requests; `Restart` loses requests, goroutines
and the cache and runs the backfill. A mission's queries are thin (the target alone) or full.
Seen while modelling: `PUT .../status` with "active" deploys nothing and looks at no limit, nor does the assistant's
way of making missions look at the limit on missions; `AutoDeployHunts` ignores the error of its read of existing
searches, so a failed read deploys again (`muddled`); the default scope of a free user with a Dutch address is two
marketplaces where `MaxMarketplaces` is one. A mission without name whose queries are all too broad deploys nothing; that is left out.

**`AssistantChat`** - the stored session and the messages being handled, one database call per step: `Converse`
loads the session, `parseBrief` or `Answer` fills the draft, `Ask` stores it, `MakeMission` and `ClearSession` end it.
A mission made on one message clears whatever session is stored by then, also that of another brief.

**`Outreach`** - two requests at a time on the table of threads, over either store: Postgres upserts in one statement,
SQLite looks up, writes and rereads (`SQLiteLookUp`, `SQLiteUpsertThreadOnSent`, `SQLiteReread`). `TransitionStaleThreads` is the hourly
job, `ThreadsAge` time. **`OutreachLifecycle`** is what the feature promises: sent, perhaps stale, replied, and nothing back;
`Outreach` is shown to implement it with the state column as refinement mapping.
A resend does not reset the age from which staleness is counted. The calibration report (`internal/store/calibration.go:194`)
joins threads on the listing alone, across users; it is not modelled.

**`SupportPipeline`** - the customer's threads in Plain (`thread`), the table (`event`), the dropping channel, requests and
workers (`task`), and what the founder got to see (`paged`, `reported`, `issues`). A worker's calls are steps in the order of the code:
`runWorker`, `GetThread`, `Complete`, `SendSMS` with `Backoff`, `CreateIssue`, `AttachLinearIssue`, `AttachClassification`.
`Shutdown` cancels the context, `RestartSupport` ends the process. `lost` remembers threads of which the code gave an event up with a log line.
Seen while modelling: no start looks for rows without a result; a thread delivered again opens another issue and sends another
SMS; a failed model call leaves an incident unpaged; a report that races its own webhook can lose `user_id` and `dash_context`
(the columns are not modelled). The dry run outside production sends nothing and is left out.

**`AnonymousAnalyze`** - a request takes the clock once and then goes through `AllowAddress`, `GetCached`, `Charge`, `Refuse` and `Notify` or
`Fetch`, `Score` and `PutCached`, each a mutex section. A request that spans midnight books on its own day and may reset the ledger of the new
one (`straddled`); without one the ledger is exact.

**`CallLimits`** - the reasoner's windows over all users and per user, and the must-have evaluator's per mission with its cache.
The comment at `internal/reasoner/musthave.go:112` has the cache first; the code charges the window before it looks at the cache, as the
module does. The cache's key leaves the must-have texts out.

**`Accounts`** - `account`, `identity` and `sessions` are tables, `signIn` is what each request holds. Any call may fail in between.
A second Google subject on one account always fails to link (`UNIQUE(user_id, provider)`); taking the team flag away leaves an
operator's or owner's role, and the next sign-in of a listed address restores the flag. Profile saves of `handleMe` write back a
copy read at the start of the request and are not modelled.

**`SQLiteStore`**, **`PostgresStore`** (missions, searches, listings, prices, shortlist, drafts, sessions, artifacts, score cache) and
**`SQLiteBooks`**, **`PostgresBooks`** (accounts, identities, logs, Stripe's tables, usage, run logs and the owner's business reports) - every
query as an operator from tables to tables or to an answer, over the SQL constructs of **`StoreTables`** (update, upsert, insert-ignore,
order and page). A table is a set of records whose columns are those that decide something. **`Stores`** and **`Books`** issue each call a
handler or the worker can make to both, from the same program state, and compare every read. Before the calls that are looked at
each user sets up a mission with a search (`SetUp`, until nobody is among the `newcomers`). A page is the set of its rows with their places.
What the pair shows to differ and the properties except, each at its line: SQLite's recheck calls (`internal/store/store.go:1017-1027`) do nothing and
answer 200, Postgres resets `next_run_at`; SQLite's window of search runs counts whole days; `CURRENT_TIMESTAMP`
counts whole seconds, so SQLite's newest row may tie: its active mission and market average are then one of several, and listings
of one second come in the order of their items where Postgres goes by the time within the second (`store.go:1737`), so that the default,
newest-first pages of the two may differ. `StoresAgree` demands those pages only of a user no two of whose listings share a second, and
their totals always. Besides lists and pages it compares every row by id (`GetMission`, `GetSearchConfigByID`, `GetListing`, `GetPriceHistory`). Usage of the
model is booked for a user, or for nobody by an anonymous analysis (`cmd/server/main.go:130`, user `''`), which `ReportsAddUp` counts as
a remainder no user's report shows. What both share: a listing row belongs to the last mission that saved it, so deleting
that mission deletes a listing another one matched too; a user with two subscriptions counts twice in a cohort (`store.go:2762`); the alert worded "more than 3 failed invoices" fires at three
(`store.go:2834-2850`); the shortlist limit counts removed entries.
Abstracted: the order of lists (sets) except where pages are read, limits of 50 and 500 that are not reached, `LastMatchAt`, the join of outreach into feeds,
the 30-day price window, date arithmetic at the ends of months. That the scorer always names an action (`internal/scorer/scorer.go:475`) is an assumption, since only
Postgres has a default for it. Time counts half days (a day is 2 units, a month 8), money hundredths of a cent.

**`NatSets`** - induction over the naturals stated with sets, and prefix sums. The theorems are in **`AIBudgetProofs`**,
**`SearchScheduleProofs`**, **`AccountsProofs`** (`Accounts`, `StripeBilling`), **`InterleavingProofs`** (`Outreach`, `SearchDispatch`),
**`ServicesProofs`** (`Missions`, `AssistantChat`, `CallLimits`, `AnonymousAnalyze`, `SupportPipeline`), **`StoresProofs`** (what the calls
do to the tables) and **`AnswersProofs`** (what the queries and the reports then say). `MC*` modules only give constants values, or put
components side by side.

Operators introduced by a comment `Fault:` are mutations of the definition that
follows them. No specification uses them; each shows that a property would
notice such a bug (PROJECT.json, "mutants").

## Runs

| Run | Instance | Shows |
|---|---|---|
| `ai_budget` | scorer and one other site, 3 admissions, 5 ticks of a 3-tick window, costs 0, 1, 3 around the estimate 2, one override | all safety and action properties of `AIBudget` |
| `ai_budget_concurrent` (violation) | same | `Reconcile`'s comment that concurrent totals net out is wrong |
| `ai_budget_scorer` (violation) | same | a failed scorer call erases the charge of an earlier paid call |
| `search_schedule` | one user, two searches, one slot, ticks up to one late, one row edited | `TypeOK`, and under fairness `HealthySearchesRun`: a healthy overdue search that no sibling outweighs is served |
| `search_schedule_shared` | a paid user with two searches, a free one with one, one slot each, a run-now request | `ProductiveSearchesSpared`, `DeferralStopsAtBudget` |
| `search_dispatch` | three searches, two users, two marketplaces, loop plus one request, cancellation | `WithinLimits`, `AlertsOncePerRise` |
| `search_dispatch_returns` | the same without findings | `PassesReturn` under fairness |
| `search_dispatch_market` (violation) | as `search_dispatch` | the marketplace limit is not respected across passes |
| `stripe_billing` | two subscriptions, two requests at once, three or four events, one mishap | `EventsActOnce`, counted over all requests, and `Settles` under fairness |
| `workflows` | `Missions`, `AssistantChat`, `SupportPipeline`, `AnonymousAnalyze`, `Accounts` or `CallLimits`, two requests of each at once | the safety and action properties of the six, and `HuntsStart` under fairness |
| `stores` | both stores on the same calls (two users, two items), or `Outreach` with two callers over either store | the stores agree, keep users apart and users' choices, page and report right, and leave nothing of a deleted mission; `Outreach` implements its lifecycle; a reply is final |
| `support_incident` (violation) | one thread, one worker, one malformed answer | a keyword does not force an incident, against the comment of `Classify` |

*Components side by side.* `MCWorkflows` and `MCStores` choose in the initial state (`part`, and `area` in `Stores`) which of several components a behaviour runs.
The components put together there share no state that either looks back at, so every behaviour of one is a behaviour of the run and no
interleaving between them could add a violation.

*Bounds and why they are enough.* The budget's corrections go wrong with two
overlapping calls and a third charge before or after them; the clock runs past one
window so that charges expire between calls; the cap (4) is two estimates, so
the third admission meets it, and one override raises (6) or lowers (3) it. Scheduling
keeps the code's order between weights: a signal outweighs one tick of
waiting but not the staleness cap, a failing row's penalty passes that cap, an empty row loses
what a signal gives. `HealthySearchesRun` has a premise, `~Outweighed(s)`: the lead of a sibling in mission weight and signal, with what it waits while
others take their turns, stays below the cap. The code does not keep it there: urgency (30) and a signal (20) together exceed the cap of 40, so enough such
siblings starve a search without urgency, and without the premise TLC shows one sibling of weight 5 doing so. In the instance the missions weigh 2 and 1, a signal 1 and the
cap is 5: the lighter mission's search has to get past a heavier one with a signal, and a cap of 4 would no longer meet the premise. Two searches for one slot is the smallest overload, and the
counter saturates at 2 because only `>= 2` is read. The shared instance needs two users because budget and slots differ in
scope. In dispatch, capacities of one or two make every semaphore contended. Two
subscriptions are needed for order among snapshots, two handlers for a duplicate
served twice at once; one mishap separates any two database calls.
Missions: two missions against a limit of one, with one edit, pause, deletion, failure or restart
while two requests and both goroutines are under way; the idempotency entry lives one unit so that it expires between two posts.
Conversation: two messages, two briefs, one failure. Support: one thread (threads meet only in the channel, which overflows with
one pending event), two requests, a worker, three messages or deliveries, one retry, and one failed call or end of the process.
Anonymous: two requests at once and three in all (one more than the allowance of an address), costs 0, 1, 3 around the estimate 2,
a ceiling of 3 that the second estimate passes, and a midnight. Accounts: two requests and three in all, two addresses, one on the list, one subject.
Limits: two users and the nameless one against 1 per user and 2 over all, a clock that passes one window.
Stores: three writes from a program with a mission and a search per user, two for the books - an entry, and one that updates, ties with or
ages it. Outreach: one thread (rows are independent), two drafts, two replies, two callers.

*Fairness.* `SearchSchedule`: the loop's pass, its ticker and every dispatched
task - `Pool.loop` ticks until `Stop`, and marketplace clients have timeouts;
nothing is assumed of users. `SearchDispatch`: each goroutine and `wg.Wait`; weak
fairness is enough because a goroutine that waits for a token takes it in a step
that the release enables, and in the instances no two goroutines can starve a third (each takes
a semaphore once). `StripeBilling`: an accepted request is served to its end
(a crash is a mishap of its own), and the reconciliation's ticker
(`StartBillingReconcileLoop`) goes on; no delivery is assumed. `Missions`: a goroutine that was
started runs to its end unless the process does not (its model call has a timeout). `Outreach`: time passes and the
hourly job runs as long as the server does; requests need not be finished.

*What the four violation runs say about the code* is in PROJECT.json
under "findings", with the lines they disagree with.

## Proofs

`AIBudgetProofs` proves, for every finite set of call sites and all costs, caps,
windows and bounds that satisfy the assumptions of `AIBudget`:

| Theorem | Property |
|---|---|
| `Typing` | `TypeOK` |
| `Sorted` | `EntriesOrdered` |
| `WindowExact` | `GcExact` |
| `NeverUnderstated` | `Conservative` |
| `SpendCapped` | `SpendWithinCap` |
| `AlertsApart` | `AlertsSpaced` |
| `OverridesAudited` | `CapAudited` |
| `ExactAlone` | `SingleFlightExact` |

The assumptions are those the module names: a positive estimate, natural costs, a default cap within the hard
ceiling, and a call timeout shorter than the window (the HTTP clients time out in
seconds, the window is 24 hours).

*Arguments.* `EntriesOrdered` is inductive with `TypeOK`: a charge is appended with the
current time, a reconciliation keeps times, a rollback drops the last. `GcExact` follows
because the first live entry of a sorted slice separates expired from live.
`Conservative` is not inductive: `Reconcile` lowers the LAST entry from whatever it
holds to the reported cost, so one must know that it held at most the estimate.
`LedgerInv` adds that every live charge is at most `Est` (true without overruns) and
that no site is between the scorer's rollback and its reconcile; then each
closing lowers the ledger by at most `Est` less the reported cost, and frees one estimate.
`SpendWithinCap` needs `CapInv`: after an admission everything but the last entry, plus one estimate, fits under the
highest cap (`Headroom`), which survives corrections since they only touch the last entry.
`AlertInv` ties `fired` to the time of the last alert. `SingleFlightExact` needs `SingleInv`: the open call's charge is the
last entry and still live, because no call outlives its timeout and the timeout is shorter than the window; so the call's own `Reconcile` or
`Rollback` lands on it.

The sum of a ledger is a recursive function; facts about it go through
`NatSets`: a function that lists partial sums exists and is unique, shown with an induction that quantifies over
sets (the library's induction theorems take an operator, which these provers cannot instantiate).

`InterleavingProofs` proves of `SearchDispatch`, for any searches, owners, marketplaces, positive capacities and
any number of overlapping passes:

| Theorem | Property |
|---|---|
| `DispatchTyping` | `TypeOK` |
| `LimitsKept` | `WithinLimits` |
| `AlertedOncePerRise` | `AlertsOncePerRise` |

Neither of the first two is inductive: that a counter stays within its capacity says nothing about who is at work. `DispatchInv`
adds what links them: a channel holds one token for each goroutine that took one and has not given it back
(`Tokens`), and a goroutine at work holds all three (`InStep`). It follows that a release never meets
an empty channel, so the `default` branch of `release` is dead code. The third has an invariant of its own (`AlertInv`): while
nothing has been excused, what a task in the scorer has read is still the stored row, and a user that was alerted has a row at or above the threshold.

`SearchScheduleProofs` proves, for any searches, owners, slots, weights, backoffs and bounds the assumptions allow:

| Theorem | Property |
|---|---|
| `ScheduleTyping` | `TypeOK` |
| `ProductiveAreSpared` | `ProductiveSearchesSpared` |
| `DeferralStops` | `DeferralStopsAtBudget` |

The last two hold in every well-typed state, whatever the rows are. Typing is about the backoff: a delay is the interval
times a power of two, and that powers grow is shown by counting subsets (`Powers`). `DeferralStops` rests on `FirstOnes`: of a finite set in a strict order
no more than k elements have fewer than k before them. `ProductiveAreSpared`: who found something is never deferrable, and the
fewer compete for the owner's slots the fewer are ahead.

`ServicesProofs` proves of `Missions` and `AssistantChat`, for any missions, requests, post keys, lifetime of an answer, limits and number
of failures and restarts, and for any messages and briefs:

| Theorem | Property |
|---|---|
| `MissionsTyping` | `MissionsTypeOK` |
| `SearchesAccountedFor` | `SearchesAccounted` |
| `DeletedForGood` | `DeletedStaysDeleted` |
| `RetriesAnsweredAlike` | `RetryAnsweredAlike` |
| `OneMissionPerBrief` | `BriefMakesOneMission` |

`MissionsInv` has, beside types, three parts. `Grounded`: nothing in memory names a mission that was never created. `Answered`: the
cache has every fresh answer, and a key of which two requests never were under way together has at most one under way, and none while its answer
is fresh. `Orderly`: of a mission whose operations neither overlapped nor failed one deploy is under way at most, it has left to create only what is not
there, and nobody holds the mission once it is gone. `DeletedForGood` needs none of the last two: each late write of an old copy is an UPDATE
that meets no row. `BriefsInHand` says the same of briefs: one message at most is about a brief that is not entangled, a message that is to clear the
session has made the brief's mission, and a stored brief that was made has such a message.

`AccountsProofs` proves, for any requests, addresses, subjects and sign-ins, and for any finite set of subscriptions, requests,
reconciliations, events and mishaps:

| Theorem | Property |
|---|---|
| `PeopleKeepAccounts` | `AccountsKept` |
| `BillingTyping` | `TypeOK` of `StripeBilling` |
| `OncePerEvent` | `EventsActOnce` |

`AccountsInv` adds to types that a request past its lookup names an account that is there, that who is about to be promoted was listed and
without a role in the copy (`Existing`), and `Faithful`: the callbacks of a subject that did not overlap with one of another address agree on
the account they are going to link, and with the identity if there is one. `OncePerEvent` counts requests, so it is an
induction over all steps that start, end or kill one: who puts an event on record is then the only one at work on it, its tier update moves it from those at
work to those that are spent, and a crash does so with all that were at work (the sizes of finite sets of requests, hence finitely many).

The assumptions the modules name are what the code gives: an idempotency key is no mission id, "nobody" is no address or
Google subject, a customer's subscriptions are finitely many.

`InterleavingProofs` proves of `Outreach`, for any threads, drafts, replies and callers and either store (the only assumption is a natural `Cutoff`):

| Theorem | Property |
|---|---|
| `OutreachTyping` | `OutreachTypeOK` |
| `LifecycleImplemented` | `Lifecycle!Safety`: every step is a step of the lifecycle or leaves the states alone |
| `ReplyFinal` | `ReplyIsFinal` |

`ReplyInv` is what typing lacks: a request that is about to answer "replied" holds a thread that is replied, and on Postgres no request
holds a looked-up row. The lifecycle's fairness, that a silent thread gets stale, is only model-checked (`ImplementsLifecycle` is
the whole of it).

`ServicesProofs` also proves, of the limits, the breaker and the support events:

| Theorem | Property |
|---|---|
| `LimitsAreExact` | `LimitsExact` |
| `BreakerIsHonest` | `BreakerHonest` |
| `EventsAreAccounted` | `EventsAccounted` |

`LimitsAreExact`, for any users, limits, length of the hour and order of calls: a list of calls is in order of time, so pruning takes a front of it
and all that is too old (`PrunedFront`), and changes no count of recent calls now or later (`PrunedSince`). `LimitsInv` says that from now on each window counts as
many recent calls as the history does, and that the must-have window of this hour is not above its limit. That the counts agree now would not be inductive: time
passes without anybody pruning.

`BreakerIsHonest`, for any finite set of requests, natural costs and positive length of a day: `BreakerInv`
adds that the requests on the ledger, the ledger (while an estimate is open) and the clock are on one day as long as nothing straddled
midnight, and that admitted estimates and what was paid stay within the ceiling plus the overruns.

`EventsAreAccounted`, for any number of threads, requests, workers, retries, failures and
restarts. The property alone says nothing of a worker on its way to record a result, so `SupportInv` adds where each one stands (`Founded`): past the pages an
incident was paged or reported unless the process is ending, when it can no longer be recorded; an issue to attach is
in Linear; whatever is in hand or in the channel has a row. `TaskStepKept` says once what a step of one request or worker must not disturb.

`StoresProofs` and `AnswersProofs` prove, for any users, items, finds, price samples, emails, subscriptions and invoices and any number
of calls:

| Theorem | Property |
|---|---|
| `StoresStayPaired` | the inductive invariant `StoresInv` |
| `StoresTyped` | `StoresTypeOK` |
| `PagesAreTotal` | `PagesCover` |
| `UsersStayApart` | `UsersApart` |
| `ChoicesOutliveTheWorker` | `UserChoicesKept` |
| `DeletionEmpties` | `DeletedMissionEmptied` |
| `StoresAnswerAlike` | `StoresAgree` |
| `BooksReadAlike` | `BooksAgree` |
| `BooksAddUp` | `ReportsAddUp` |

They assume what `Stores` and `Books` name: a natural number for each item, score and price offered; an action in each verdict; no
user and no stored draft without text; finitely many users; natural amounts of invoices.

*The stores stay a pair.* That the reads of two stores agree now is no invariant of their calls: a call may look at what no read
shows (a paused mission, a listing's mission, the counter of ids). `StoresInv` says what does hold, table by table (`Paired`, `TablePair`). Missions, searches,
listings, price samples and sessions have twins: to each row of one store a row of the other, alike but for what the code keeps
differently - SQLite's halved times, `recheck` and `next_run_at` where its recheck does nothing, the texts of an empty draft.
Every other table is the same in both. Each has its keys (an id below the counter, one row per user and item, one per email),
the flag of a mission agrees with its status, and a run that succeeded has no error code. A lemma per call and store says what it writes (`..Writes`), one
per call that the pair moves to a pair and what the move leaves alone (`Move`: the rows of other users, the user's side of a listing, what a
deletion takes along; `..Moves`), one per action that it is such a move (`..Takes`). The action properties are read off `Move`.

*They answer alike.* Reads of twins are equal; what is not a read of one row needs that twin sets have the same size
(`SameSize`), that a page is decided by how many rows precede each (`PageReads`), and that of finitely many rows one is the latest (`LastRow`).
Where SQLite's halved times tie it may choose among more rows than Postgres, of the active mission and of the samples of an average:
`Averages` shows that some choice of SQLite is Postgres' one. Newest-first pages are those of twins in the same order (`OrdersAlike`) when
no two of a user's listings share a second; without that only their totals are.

*The reports add up.* `SUM` is a fold that takes rows in the order of `CHOOSE`. `SumsExist` and `SumsUnique` give the function of
partial sums of the subsets of a set, by the induction of `NatSets` on their size; `SumOfTaken` then shows that any row may be taken first,
and `OneByOne` is an induction over finite sets, row by row. With both, sums may be joined (`WeighJoined`), scaled (`WeighScaled`),
counted (`WeighCounted`) and grouped (`WeighGrouped`); each line of `ReportsAddUp` is one of these. The chart sums to the overview's
revenue because the rates to EUR are factors (`WeighScaled`) and the days group the invoices; runs and subscriptions are
grouped by columns of one value each; usage is grouped by user, each of whose rows is some known user's or
nobody's (`Booked`).

*Only model-checked:* all liveness (`PassesReturn`, `HealthySearchesRun`, `Settles`, `HuntsStart`, the fairness half of `ImplementsLifecycle`), which TLAPS
cannot do: it has no rules for fairness and ENABLED. The properties of the violation runs are refuted, not proved. Every invariant and action
property of a passing run is a theorem.

## Not modelled, and why

- Scores, prices, currencies, texts and prompts: arithmetic and wording no interleaving can break.
- Marketplace, Plain, Linear, Twilio, Discord and mail clients: I/O, seen as "ends with a result or an error". The dry run of SMS.
- The SSE broker: a set of channels under one mutex that drops what does not fit; nothing reads back what it did. The CLI program: a
  sequential loop. Its messenger sends what it is given.
- Queries without a partner to compare with or a writer to race: the calibration report and the scoring events it reads, lists of threads, of
  overrides and of the operator's pages.
- Profile edits, password rules, configuration, telemetry, validation of requests: no state that a concurrent step could invalidate.

Known consequences of the abstractions: integer money; atomic planning of a pass; one Stripe customer. With several
subscriptions the one persisted last decides the tier, and the reconciliation persists the oldest last; `Settles`
therefore speaks of the tier for customers who never had a second one. Components side by side share no state, so a
tier that changes while a mission is posted, or a budget that empties while a support event is classified, is only seen as "the call fails".

## Plan

1. Two Stripe customers of one user; a tier that changes under `Missions`.
2. The calibration report, which joins threads and listings over users, once it says what it promises.
3. The SSE broker and the messenger, should they come to keep state.
