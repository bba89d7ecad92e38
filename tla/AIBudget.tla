------------------------------ MODULE AIBudget ------------------------------
(***************************************************************************)
(* The process-wide AI-spend budget of internal/aibudget: one Tracker       *)
(* behind one mutex, and the goroutines that gate every LLM call with it    *)
(* (Allow -> HTTP call -> Reconcile or Rollback).                           *)
(*                                                                         *)
(* Every mutex section of the tracker is one step.  The HTTP call between   *)
(* two sections takes no step of its own: it is the time a call site spends *)
(* in phase "inflight", during which every other call site can move.        *)
(*                                                                         *)
(* Money is counted in an integer unit (the code uses float dollars), time  *)
(* in ticks.  A behaviour is one incarnation of the process: the tracker is *)
(* in memory only, so a restart is Init again.                              *)
(***************************************************************************)
EXTENDS Integers, Sequences, FiniteSets, SequencesExt

CONSTANTS
  CallSites,      \* goroutines that make LLM calls; each is its own callSite tag
  ScorerSites,    \* those among them that run Scorer.Score
  Owners,         \* operators who may be overriding the cap
  Est,            \* EstimatedCostPerCallUSD
  Actuals,        \* costs a provider's usage block can report
  CapRequests,    \* caps an operator may ask for
  DefaultCapUSD, HardCeilingUSD,
  Window,         \* the rolling 24 hours
  Minute,         \* the 60 s re-arm gap of an alert tier
  CallTimeout,    \* longest HTTP call (the clients' Timeout fields)
  MaxTime,        \* bound: the clock stops here
  MaxCalls,       \* bound: admissions per behaviour
  MaxOverrides,   \* bound: override requests per behaviour
  Never           \* the zero time.Time

ASSUME SitesAssumption == ScorerSites \subseteq CallSites /\ IsFiniteSet(CallSites)
ASSUME CostAssumption ==
  /\ Est \in Nat \ {0}
  /\ Actuals \subseteq Nat
  /\ CapRequests \subseteq Int
  /\ DefaultCapUSD \in Nat \ {0}
  /\ HardCeilingUSD \in Nat
  /\ DefaultCapUSD <= HardCeilingUSD
ASSUME TimeAssumption ==
  /\ Window \in Nat \ {0}
  /\ Minute \in Nat
  /\ CallTimeout \in Nat
  /\ CallTimeout < Window
  /\ MaxTime \in Nat
ASSUME BoundAssumption == MaxCalls \in Nat /\ MaxOverrides \in Nat
ASSUME NeverAssumption == Never \notin Nat

VARIABLES
  entries,     \* Tracker.entries, oldest first
  capUSD,      \* Tracker.capUSD
  fired,       \* Tracker.thresholdsFired
  now,         \* the clock the tracker reads
  phase,       \* where each call site stands in Allow -> call -> close
  started,     \* when the call in flight passed Allow
  override,    \* the cap an operator has set and not yet audited, 0 for none
  audit,       \* caps with a row in ai_budget_overrides
  \* History, read by the properties only.
  reported,    \* sum of the costs the call sites reported for finished calls
  expired,     \* sum of the charges that rolled out of the window
  capHigh,     \* the highest cap ever in force
  seen,        \* which of "overlap", "overrun", "scorerFailure" have happened
  lastAlert,   \* when each tier last alerted since the last cap change
  lostAudit,   \* caps whose audit insert failed
  calls, requests  \* counters behind MaxCalls and MaxOverrides

tracker == <<entries, capUSD, fired>>
history == <<reported, expired, capHigh, seen, lastAlert, lostAudit>>
overrides == <<override, audit, requests>>
vars == <<tracker, now, phase, started, overrides, history, calls>>

Phases == {"idle", "admitted", "inflight", "refused", "rolledback"}
Tiers == 1..3
alertThresholds == <<7, 9, 10>>      \* in tenths of the cap
Entry == [at : Nat, cost : Nat]
Init ==
  /\ entries = <<>>
  /\ capUSD = DefaultCapUSD
  /\ fired = [i \in Tiers |-> Never]
  /\ now = 0
  /\ phase = [c \in CallSites |-> "idle"]
  /\ started = [c \in CallSites |-> 0]
  /\ override = [o \in Owners |-> 0]
  /\ audit = {}
  /\ reported = 0 /\ expired = 0
  /\ capHigh = DefaultCapUSD
  /\ seen = {}
  /\ lastAlert = [i \in Tiers |-> Never]
  /\ lostAudit = {}
  /\ calls = 0 /\ requests = 0

-----------------------------------------------------------------------------
(* The tracker's locked helpers.                                            *)

Expired(e, t) == e.at + Window <= t

totalLocked(es) ==
  LET sum[n \in 0..Len(es)] == IF n = 0 THEN 0 ELSE sum[n - 1] + es[n].cost
  IN sum[Len(es)]

\* gcLocked walks the slice from the front and stops at the first live entry.
FirstLive(es, t) ==
  CHOOSE k \in 1..Len(es) + 1 :
    /\ \A i \in 1..k - 1 : Expired(es[i], t)
    /\ k <= Len(es) => ~Expired(es[k], t)

\* Fault: the window is one tick longer than the entries' life.
gcLockedLate(es, t) == SubSeq(es, FirstLive(es, t - 1), Len(es))
gcLocked(es, t) == SubSeq(es, FirstLive(es, t), Len(es))

\* Fault: no re-arm gap.
checkAndFireNoGap(f, total, t) ==
  [i \in Tiers |->
     LET at == total * 10 >= capUSD * alertThresholds[i]
     IN IF at THEN (IF f[i] = Never THEN t ELSE f[i]) ELSE Never]

\* A tier below its threshold re-arms once a minute has passed since it fired;
\* a tier at or above its threshold fires if it is armed.
checkAndFireThresholdLocked(f, total, t) ==
  [i \in Tiers |->
     LET below == total * 10 < capUSD * alertThresholds[i]
         rearm == below /\ f[i] # Never /\ t - f[i] > Minute
     IN IF ~below /\ f[i] = Never THEN t
        ELSE IF rearm THEN Never ELSE f[i]]

\* Fault: charges of the same instant share one entry.
ChargeCoalesce(es, t, c) ==
  IF es # <<>> /\ Last(es).at = t THEN [es EXCEPT ![Len(es)].cost = @ + c]
  ELSE Append(es, [at |-> t, cost |-> c])
\* Fault: the newest charge goes to the front of the slice.
ChargePrepend(es, t, c) == <<[at |-> t, cost |-> c]>> \o es
Charge(es, t, c) == Append(es, [at |-> t, cost |-> c])

\* Fault: a reconciliation is booked as a charge of its own.
ReconcileAppend(es, t, c) == Append(es, [at |-> t, cost |-> c])
ReconcileLast(es, t, c) ==
  IF es = <<>> THEN Charge(es, t, c)
  ELSE [es EXCEPT ![Len(es)].cost = c]

RollbackLast(es) == IF es = <<>> THEN es ELSE Front(es)

-----------------------------------------------------------------------------
(* History bookkeeping.                                                     *)

Reserved == {c \in CallSites : phase[c] \in {"admitted", "inflight", "refused"}}

\* What a garbage collection at the current time takes out of the window.
NoteExpired ==
  expired' = expired + totalLocked(entries) - totalLocked(gcLocked(entries, now))

NoteAlerts ==
  lastAlert' = [i \in Tiers |-> IF fired'[i] # fired[i] /\ fired'[i] # Never
                                THEN now ELSE lastAlert[i]]

-----------------------------------------------------------------------------
(* Allow.                                                                   *)

Projected == totalLocked(gcLocked(entries, now)) + Est

\* Fault: the estimate is left out of the projection.
AllowedUnprojected == Projected - Est <= capUSD
Allowed == Projected <= capUSD

AllowAdmitted(c) ==
  /\ phase[c] = "idle"
  /\ calls < MaxCalls
  /\ Allowed
  /\ entries' = Charge(gcLocked(entries, now), now, Est)
  /\ fired' = checkAndFireThresholdLocked(fired, Projected, now)
  /\ phase' = [phase EXCEPT ![c] = IF c \in ScorerSites THEN "admitted" ELSE "inflight"]
  /\ started' = [started EXCEPT ![c] = now]
  /\ calls' = calls + 1
  /\ seen' = IF \A d \in CallSites : phase[d] = "idle"
             THEN seen ELSE seen \cup {"overlap"}
  /\ NoteExpired /\ NoteAlerts
  /\ UNCHANGED <<capUSD, now, overrides, reported, capHigh, lostAudit>>

\* The rejection itself counts as the 100% signal: the tiers are checked
\* against the cap, not against the running total.
AllowDenied(c) ==
  /\ phase[c] = "idle"
  /\ ~Allowed
  /\ entries' = gcLocked(entries, now)
  /\ fired' = checkAndFireThresholdLocked(fired, capUSD, now)
  /\ NoteExpired /\ NoteAlerts
  /\ UNCHANGED <<capUSD, now, phase, started, overrides, reported, capHigh, seen,
                 lostAudit, calls>>

-----------------------------------------------------------------------------
(* The second gate of the scorer's path, Reasoner.callLLM: a Snapshot, which *)
(* already contains the scorer's own pre-spent estimate.                    *)

Snapshot ==
  /\ entries' = gcLocked(entries, now)
  /\ NoteExpired
  /\ UNCHANGED <<capUSD, fired>>

ReasonerGate(c) ==
  /\ phase[c] = "admitted"
  /\ Snapshot
  /\ phase' = [phase EXCEPT ![c] =
                 IF totalLocked(entries') >= capUSD THEN "refused" ELSE "inflight"]
  /\ UNCHANGED <<now, started, overrides, reported, capHigh, seen, lastAlert,
                 lostAudit, calls>>

\* Analyze ends before that gate, with a confident heuristic or because the
\* per-user or hourly rate limit refuses.
SkipLLM(c) ==
  /\ phase[c] = "admitted"
  /\ phase' = [phase EXCEPT ![c] = "refused"]
  /\ UNCHANGED <<tracker, now, started, overrides, history, calls>>

\* The other readers of Snapshot: the admin tile and the anonymous-analyze gate.
ReadSnapshot ==
  /\ Snapshot
  /\ UNCHANGED <<now, phase, started, overrides, reported, capHigh, seen,
                 lastAlert, lostAudit, calls>>

-----------------------------------------------------------------------------
(* Closing a call.                                                          *)

Close(c, es) ==
  /\ entries' = es
  /\ phase' = [phase EXCEPT ![c] = "idle"]
  /\ started' = [started EXCEPT ![c] = 0]
  /\ UNCHANGED <<capUSD, fired, now, overrides, expired, capHigh, lastAlert,
                 lostAudit, calls>>

\* A call that succeeded with a usage block costing a.
Succeed(c, a) ==
  /\ phase[c] = "inflight"
  /\ Close(c, ReconcileLast(entries, now, a))
  /\ reported' = reported + a
  /\ seen' = IF a > Est THEN seen \cup {"overrun"} ELSE seen

\* The scorer's heuristic fall-through: no LLM call was made, CostUSD is 0.
Refused(c) ==
  /\ phase[c] = "refused"
  /\ Close(c, ReconcileLast(entries, now, 0))
  /\ UNCHANGED <<reported, seen>>

\* A failed call (no connection, non-2xx, undecodable body) at every site but
\* the scorer's.
Fail(c) ==
  /\ phase[c] = "inflight"
  /\ c \notin ScorerSites
  /\ Close(c, RollbackLast(entries))
  /\ UNCHANGED <<reported, seen>>

\* The scorer's error branch rolls back and then falls through to the
\* Reconcile that follows the branch, with the CostUSD of the heuristic.
ScorerRollback(c) ==
  /\ phase[c] = "inflight"
  /\ c \in ScorerSites
  /\ entries' = RollbackLast(entries)
  /\ phase' = [phase EXCEPT ![c] = "rolledback"]
  /\ seen' = seen \cup {"scorerFailure"}
  /\ UNCHANGED <<capUSD, fired, now, started, overrides, reported, expired,
                 capHigh, lastAlert, lostAudit, calls>>

ScorerReconcileAfterRollback(c) ==
  /\ phase[c] = "rolledback"
  /\ Close(c, ReconcileLast(entries, now, 0))
  /\ UNCHANGED <<reported, seen>>

-----------------------------------------------------------------------------
(* The operator's override: SetCapUSD, then the audit row.                  *)

\* Fault: no hard ceiling.
ValidCapUnchecked(new) == new > 0
ValidCap(new) == new > 0 /\ new <= HardCeilingUSD

SetCapUSD(o, new) ==
  /\ override[o] = 0
  /\ requests < MaxOverrides
  /\ requests' = requests + 1
  /\ IF ValidCap(new)
     THEN /\ capUSD' = new
          /\ fired' = [i \in Tiers |-> Never]
          /\ lastAlert' = [i \in Tiers |-> Never]
          /\ override' = [override EXCEPT ![o] = new]
          /\ capHigh' = IF new > capHigh THEN new ELSE capHigh
     ELSE UNCHANGED <<capUSD, fired, lastAlert, override, capHigh>>
  /\ UNCHANGED <<entries, now, phase, started, audit, reported, expired, seen,
                 lostAudit, calls>>

\* Fault: the handler ignores the error of the insert.
RecordIgnoringError(o) ==
  /\ override[o] # 0
  /\ \/ audit' = audit \cup {override[o]}
     \/ UNCHANGED audit
  /\ override' = [override EXCEPT ![o] = 0]
  /\ UNCHANGED <<tracker, now, phase, started, requests, reported, expired,
                 capHigh, seen, lastAlert, lostAudit, calls>>

RecordAIBudgetOverride(o) ==
  /\ override[o] # 0
  /\ \/ audit' = audit \cup {override[o]} /\ UNCHANGED lostAudit
     \/ lostAudit' = lostAudit \cup {override[o]} /\ UNCHANGED audit
  /\ override' = [override EXCEPT ![o] = 0]
  /\ UNCHANGED <<tracker, now, phase, started, requests, reported, expired,
                 capHigh, seen, lastAlert, calls>>

-----------------------------------------------------------------------------
\* No call outlives its client's timeout.
Tick ==
  /\ now < MaxTime
  /\ \A c \in CallSites : phase[c] # "idle" => now - started[c] < CallTimeout
  /\ now' = now + 1
  /\ UNCHANGED <<tracker, phase, started, overrides, history, calls>>

Call(c) ==
  \/ AllowAdmitted(c) \/ AllowDenied(c) \/ SkipLLM(c) \/ ReasonerGate(c)
  \/ \E a \in Actuals : Succeed(c, a)
  \/ Refused(c) \/ Fail(c)
  \/ ScorerRollback(c) \/ ScorerReconcileAfterRollback(c)

Next ==
  \/ \E c \in CallSites : Call(c)
  \/ \E o \in Owners : RecordAIBudgetOverride(o) \/ \E new \in CapRequests : SetCapUSD(o, new)
  \/ ReadSnapshot
  \/ Tick

Spec == Init /\ [][Next]_vars

-----------------------------------------------------------------------------
(* Properties.                                                              *)

TypeOK ==
  /\ entries \in Seq(Entry)
  /\ capUSD \in 1..HardCeilingUSD
  /\ fired \in [Tiers -> Nat \cup {Never}]
  /\ now \in 0..MaxTime
  /\ phase \in [CallSites -> Phases]
  /\ started \in [CallSites -> Nat]
  /\ override \in [Owners -> 0..HardCeilingUSD]
  /\ audit \subseteq 1..HardCeilingUSD
  /\ reported \in Nat /\ expired \in Nat
  /\ capHigh \in capUSD..HardCeilingUSD
  /\ seen \subseteq {"overlap", "overrun", "scorerFailure"}
  /\ lastAlert \in [Tiers -> Nat \cup {Never}]
  /\ lostAudit \subseteq 1..HardCeilingUSD
  /\ calls \in 0..MaxCalls /\ requests \in 0..MaxOverrides

\* The slice stays sorted by charge time and holds no charge from the future,
\* although closing a call may rewrite or drop a charge of another call: the
\* prefix scan of gcLocked and the retry hint (entries[0]) rely on it.
EntriesOrdered ==
  \A i, j \in 1..Len(entries) :
    i <= j => entries[i].at <= entries[j].at /\ entries[j].at <= now

\* Whatever a tracker read decides or reports, it never counts a charge that
\* has left the 24 h window, and it drops none that is still inside: gcLocked
\* stops at the first live entry and must not hide an expired one behind it.
GcExact ==
  [][(\E c \in CallSites : AllowDenied(c) \/ ReasonerGate(c)) \/ ReadSnapshot =>
       /\ \A i \in 1..Len(entries') : ~Expired(entries'[i], now)
       /\ \A i \in 1..Len(entries) :
            ~Expired(entries[i], now) => \E j \in 1..Len(entries') : entries'[j] = entries[i]]_vars

\* Reconcile and Rollback act on the last entry, whoever it belongs to.  Even
\* so the ledger never understates: what the calls reported plus one estimate
\* per open call is covered by the live charges and those that rolled off, for
\* every interleaving of the call sites - as long as no call cost more than the
\* estimate ("conservative", global.go) and no scorer call failed.
Conservative ==
  seen \cap {"overrun", "scorerFailure"} = {} =>
    totalLocked(entries) + expired >= reported + Est * Cardinality(Reserved)

\* The single-flight case the comments of Reconcile and Rollback argue from:
\* while calls do not overlap the ledger is exact, also for calls that cost
\* more than estimated and for charges that rolled off between two calls.
SingleFlightExact ==
  seen \cap {"overlap", "scorerFailure"} = {} =>
    totalLocked(entries) + expired = reported + Est * Cardinality(Reserved)

\* What the cap is for: the spend the calls reported and the estimates of the
\* open ones never exceed the highest cap an owner allowed, apart from what
\* rolled out of the window; concurrent admissions included.
SpendWithinCap ==
  seen \cap {"overrun", "scorerFailure"} = {} =>
    reported + Est * Cardinality(Reserved) <= capHigh + expired

\* "Crossing each threshold emits exactly one alert per re-crossing", with the
\* 60 s gap against jitter: under one cap, a tier alerts again only after it
\* was re-armed, more than a minute after it fired.
AlertsSpaced ==
  [][\A i \in Tiers :
       fired'[i] # fired[i] /\ fired'[i] # Never /\ lastAlert[i] # Never =>
         now - lastAlert[i] > Minute]_vars

\* Every cap the tracker runs under is the default, is in the audit log, is on
\* its way there, or is one whose insert failed and was reported to its owner.
CapAudited ==
  \/ capUSD \in {DefaultCapUSD} \cup audit \cup lostAudit
  \/ \E o \in Owners : override[o] = capUSD

\* Reconcile's comment: "in the concurrent case the arithmetic still nets out
\* to the right total".  Checked where it must hold if it does: no call open,
\* nothing rolled off, no scorer call failed.
ConcurrentTotalNetsOut ==
  Reserved = {} /\ expired = 0 /\ "scorerFailure" \notin seen =>
    totalLocked(entries) = reported

\* Score's comment: "Reconcile post-call with the real W19-3 cost so the
\* rolling sum stays honest".  Checked where calls never overlapped.
RollingSumHonest ==
  (\A c \in CallSites : phase[c] = "idle") /\ "overlap" \notin seen =>
    totalLocked(entries) + expired = reported

=============================================================================
