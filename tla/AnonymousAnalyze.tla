-------------------------- MODULE AnonymousAnalyze --------------------------
(***************************************************************************)
(* The public "analyze this link" endpoint                                  *)
(* (internal/api/anonymous_analyze.go): a window per address, a cache per   *)
(* listing and a daily ledger, each behind its own mutex.  A request reads  *)
(* the clock once, when it starts, and uses that time to its end.           *)
(*                                                                         *)
(* Time is counted in units of which DayLength make a UTC day; money in     *)
(* units of which Estimate is the price charged before a call.              *)
(***************************************************************************)
EXTENDS Naturals, Sequences, FiniteSets

CONSTANTS
  Visits,         \* requests being served at once
  Addresses, Links,
  Allowance,      \* requests of an address per window (5)
  HitWindow,      \* one hour
  CacheTtl,       \* six hours
  DayLength,
  LastMoment,     \* bound on the clock
  Estimate, Costs, Ceiling,
  MaxVisits       \* bound on the requests

ASSUME AnonymousAssumption ==
  /\ {Allowance, HitWindow, CacheTtl, DayLength, LastMoment, Estimate, Ceiling, MaxVisits} \subseteq Nat
  /\ DayLength > 0 /\ Costs \subseteq Nat
  /\ IsFiniteSet(Visits)

VARIABLES
  moment,         \* the clock
  hits,           \* ipHits
  cached,         \* when the entry of each link expires, 0 for none
  ledger,         \* anonymousAnalyzeBudget: day, spentUSD, breakerNotified
  visit,          \* what each request is at, and the time it started
  paid,           \* history: what the calls closed under the ledger's day cost,
  overrun,        \* ... and what they exceeded their estimates by
  straddled,      \* history: a request was open across midnight
  alerts,         \* history: breaker alerts of the current day
  visits

anonymousVars == <<moment, hits, cached, ledger, visit, paid, overrun, straddled, alerts, visits>>

Away == [at |-> "away"]
DayOf(t) == t \div DayLength

AnonymousInit ==
  /\ moment = 0
  /\ hits = [a \in Addresses |-> <<>>]
  /\ cached = [l \in Links |-> 0]
  /\ ledger = [day |-> 0, spent |-> 0, notified |-> FALSE]
  /\ visit = [v \in Visits |-> Away]
  /\ paid = 0 /\ overrun = 0 /\ straddled = FALSE /\ alerts = 0 /\ visits = 0

At(v, at) == visit' = [visit EXCEPT ![v].at = at]
Leaves(v) == visit' = [visit EXCEPT ![v] = Away]

-----------------------------------------------------------------------------
(* The ledger.                                                              *)

\* The ledger as a request that started at t sees it: another day resets it,
\* an earlier one too.
Rolled(t) == IF ledger.day = DayOf(t) THEN ledger
             ELSE [day |-> DayOf(t), spent |-> 0, notified |-> FALSE]
\* What the calls of that day cost goes with it.
Kept(t, amount) == IF ledger.day = DayOf(t) THEN amount ELSE 0

addAndProject(delta, t) == [Rolled(t) EXCEPT !.spent = @ + delta]
markBreakerNotified(t) == [Rolled(t) EXCEPT !.notified = TRUE]

\* Never below zero, and without a look at the day.
rollback(delta) == [ledger EXCEPT !.spent = IF @ < delta THEN 0 ELSE @ - delta]

-----------------------------------------------------------------------------
(* A request.                                                               *)

handleAnonymousAnalyze(v, a, l) ==
  /\ visit[v] = Away /\ visits < MaxVisits
  /\ visits' = visits + 1
  /\ visit' = [visit EXCEPT ![v] = [at |-> "limit", address |-> a, link |-> l, start |-> moment]]
  /\ UNCHANGED <<moment, hits, cached, ledger, paid, overrun, straddled, alerts>>

\* Requests of the address that are younger than the window.
Trimmed(v) == SelectSeq(hits[visit[v].address], LAMBDA t : t + HitWindow > visit[v].start)

\* 429 for one too many.  One that is admitted sweeps the addresses whose last
\* request has left the window.
AllowAddress(v) ==
  /\ visit[v].at = "limit"
  /\ LET a == visit[v].address
         Live(seq) == seq # <<>> /\ seq[Len(seq)] + HitWindow > visit[v].start
     IN IF Len(Trimmed(v)) >= Allowance
          THEN /\ hits' = [hits EXCEPT ![a] = Trimmed(v)]
               /\ Leaves(v)
          ELSE /\ hits' = [b \in Addresses |->
                    IF b = a THEN Append(Trimmed(v), visit[v].start)
                    ELSE IF Live(hits[b]) THEN hits[b] ELSE <<>>]
               /\ At(v, "cache")
  /\ UNCHANGED <<moment, cached, ledger, paid, overrun, straddled, alerts, visits>>

\* A body without a link is refused here; otherwise a fresh entry answers the
\* request, and a stale one is dropped.
GetCached(v) ==
  /\ visit[v].at = "cache"
  /\ LET l == visit[v].link
     IN \/ Leaves(v) /\ UNCHANGED cached
        \/ /\ cached[l] <= visit[v].start
           /\ At(v, "charge") /\ cached' = [cached EXCEPT ![l] = 0]
  /\ UNCHANGED <<moment, hits, ledger, paid, overrun, straddled, alerts, visits>>

\* The estimate is booked before anything is fetched; beyond the ceiling it is
\* taken back.  (When the global budget is spent, a 503 before that.)
Charge(v) ==
  /\ visit[v].at = "charge"
  /\ \/ Leaves(v) /\ UNCHANGED <<ledger, paid, overrun, alerts>>
     \/ LET t == visit[v].start
        IN /\ ledger' = addAndProject(Estimate, t)
           /\ paid' = Kept(t, paid) /\ overrun' = Kept(t, overrun) /\ alerts' = Kept(t, alerts)
           /\ At(v, IF ledger'.spent > Ceiling THEN "refuse" ELSE "fetch")
  /\ UNCHANGED <<moment, hits, cached, straddled, visits>>

Refuse(v) ==
  /\ visit[v].at = "refuse"
  /\ ledger' = rollback(Estimate)
  /\ At(v, "notify")
  /\ UNCHANGED <<moment, hits, cached, paid, overrun, straddled, alerts, visits>>

\* The first refusal of a day alerts.
AlertOnce(v) ==
  LET t == visit[v].start
  IN /\ alerts' = Kept(t, alerts) + (IF Rolled(t).notified THEN 0 ELSE 1)
     /\ ledger' = markBreakerNotified(t)

Notify(v) ==
  /\ visit[v].at = "notify"
  /\ AlertOnce(v)
  /\ paid' = Kept(visit[v].start, paid) /\ overrun' = Kept(visit[v].start, overrun)
  /\ Leaves(v)
  /\ UNCHANGED <<moment, hits, cached, straddled, visits>>

\* A listing that cannot be fetched gives the estimate back.
Fetch(v) ==
  /\ visit[v].at = "fetch"
  /\ \/ At(v, "score") /\ UNCHANGED ledger
     \/ ledger' = rollback(Estimate) /\ Leaves(v)
  /\ UNCHANGED <<moment, hits, cached, paid, overrun, straddled, alerts, visits>>

\* Fault: only a call that cost more than the estimate is corrected.
ChargedGap(v, cost) ==
  IF cost > Estimate THEN addAndProject(cost - Estimate, visit[v].start) ELSE ledger
\* The difference between estimate and cost, which is 0 for a heuristic score.
Reconciled(v, cost) ==
  IF cost > Estimate THEN addAndProject(cost - Estimate, visit[v].start)
  ELSE rollback(Estimate - cost)

Score(v) ==
  /\ visit[v].at = "score"
  /\ \E cost \in Costs :
       LET Before(amount) == IF cost > Estimate THEN Kept(visit[v].start, amount) ELSE amount
       IN /\ ledger' = Reconciled(v, cost)
          /\ paid' = Before(paid) + cost
          /\ overrun' = Before(overrun) + (IF cost > Estimate THEN cost - Estimate ELSE 0)
          /\ alerts' = Before(alerts)
  /\ At(v, "put")
  /\ UNCHANGED <<moment, hits, cached, straddled, visits>>

\* The entry lives from the start of the request; expired ones are swept.
PutCached(v) ==
  /\ visit[v].at = "put"
  /\ cached' = [l \in Links |->
       IF l = visit[v].link THEN visit[v].start + CacheTtl
       ELSE IF cached[l] > visit[v].start THEN cached[l] ELSE 0]
  /\ Leaves(v)
  /\ UNCHANGED <<moment, hits, ledger, paid, overrun, straddled, alerts, visits>>

\* Requests that hold an estimate, or will still touch the ledger.
Open == {v \in Visits : visit[v].at \in {"refuse", "fetch", "score"}}
InTheLedger == {v \in Visits : visit[v] # Away /\ visit[v].at # "put"}

Passes ==
  /\ moment < LastMoment
  /\ moment' = moment + 1
  /\ straddled' = (straddled \/ (DayOf(moment') # DayOf(moment) /\ InTheLedger # {}))
  /\ UNCHANGED <<hits, cached, ledger, visit, paid, overrun, alerts, visits>>

AnonymousNext ==
  \/ \E v \in Visits :
       \/ \E a \in Addresses, l \in Links : handleAnonymousAnalyze(v, a, l)
       \/ AllowAddress(v) \/ GetCached(v) \/ Charge(v) \/ Refuse(v) \/ Notify(v)
       \/ Fetch(v) \/ Score(v) \/ PutCached(v)
  \/ Passes

AnonymousSpec == AnonymousInit /\ [][AnonymousNext]_anonymousVars

-----------------------------------------------------------------------------
(* Properties.                                                              *)

\* As long as no request was open across midnight, the daily breaker is honest
\* whatever requests overlap: the ledger is what the day's calls cost plus one
\* estimate per open call; its calls together never cost more than the ceiling
\* and what single ones exceeded the estimate by; and a day alerts at most
\* once.  (A request that spans midnight books on the day it began and may
\* reset the ledger of the new one.)
BreakerHonest ==
  ~straddled =>
    /\ ledger.spent = paid + Estimate * Cardinality(Open)
    /\ paid <= Ceiling + overrun
    /\ alerts <= 1
=============================================================================
