--------------------------- MODULE SearchSchedule ---------------------------
(***************************************************************************)
(* What a tick of the worker pool (internal/worker/pool.go) decides: which   *)
(* due searches are candidates, which of them an overloaded pool defers,     *)
(* which get one of their owner's dispatch slots, and when each runs again.  *)
(*                                                                         *)
(* A pass reads the rows and plans in one step; then each dispatched task    *)
(* ends in a step of its own, writing the counters it computed from the row  *)
(* it was planned with, while API requests change the rows and may start     *)
(* passes of their own.  SearchDispatch has the semaphores between the two.  *)
(*                                                                         *)
(* Time is counted in pool ticks (2 minutes, so one tick overdue is one      *)
(* point of staleness, the code's overdueMinutes / 2).  A row's next_run_at  *)
(* is kept relative to the present, and floored at the staleness cap: how    *)
(* much further a search is overdue is never read.                           *)
(***************************************************************************)
EXTENDS Integers, FiniteSets

CONSTANTS
  Searches,            \* ids of the search_configs rows
  Users, Owner,        \* each search has an owner
  PaidUsers,           \* owners whose normalized tier is not "free"
  MaxDispatchPerTick,  \* Limits.MaxDispatchPerTick of each user
  Weight,              \* plan weight plus mission urgency of each search
  BaseInterval,        \* baseIntervalForSpec, in ticks
  MaxStaleness,        \* the cap of stalenessWeight (40)
  SignalBoost,         \* a recent signal (20)
  EmptyStep, EmptyCap, EmptyShift,   \* penalty 5 a run up to 25, 2^3 backoff
  FailStep, FailCap, FailShift,      \* penalty 15 a run up to 60, 2^4 backoff
  EmptyTop, FailTop,   \* where the two counters stop mattering
  DeferBelow,          \* paid searches above this priority are spared (15)
  Requests,            \* run-now requests that may be in progress
  NoTask,              \* no task of that pass for that search
  MaxLag,              \* bound: ticks from one pass of the loop to the next
  Edited               \* bound: the rows users edit

ASSUME SearchesAssumption ==
  /\ Searches \subseteq Nat /\ IsFiniteSet(Searches)
  /\ Owner \in [Searches -> Users]
  /\ PaidUsers \subseteq Users
  /\ MaxDispatchPerTick \in [Users -> Nat \ {0}]
  /\ Weight \in [Searches -> Nat]
  /\ BaseInterval \in [Searches -> Nat \ {0}]
  /\ Edited \subseteq Searches
ASSUME WeightsAssumption ==
  /\ {MaxStaleness, SignalBoost, EmptyStep, EmptyCap, EmptyShift} \subseteq Nat
  /\ {FailStep, FailCap, FailShift, DeferBelow} \subseteq Nat
  /\ MaxLag \in Nat \ {0}
  /\ "loop" \notin Requests
\* A counter at its top has reached both its penalty's cap and its backoff's.
ASSUME TopAssumption ==
  /\ EmptyTop \in Nat /\ EmptyTop >= EmptyShift /\ EmptyStep * EmptyTop >= EmptyCap
  /\ FailTop \in Nat /\ FailTop >= FailShift /\ FailStep * FailTop >= FailCap

VARIABLES
  search,          \* the rows: runtime fields of each search
  overloadedTicks, \* Pool.overloadedTicks; every value from 2 on is kept as 2
  task,            \* the row each pass planned each of its searches with
  loop             \* the pool's goroutine: "due" for a tick, or "working"

vars == <<search, overloadedTicks, task, loop>>

Passes == {"loop"} \cup Requests

\* live: enabled, its mission neither paused nor completed nor scoped away.
\* fresh: next_run_at is NULL.  wait: ticks until next_run_at.
\* signal: last_signal_at is unset, recent enough to count, or too old (the
\* code's half boost between 72 hours and 7 days counts as recent).
MaxWait(s) == BaseInterval[s] * 2^EmptyShift * 2^FailShift
Row(s) == [live : BOOLEAN, fresh : BOOLEAN, wait : -MaxStaleness..MaxWait(s),
           empty : 0..EmptyTop, fail : 0..FailTop,
           signal : {"none", "recent", "old"}]
\* The counters a task carries in its copy of the row.
Snapshot == [empty : 0..EmptyTop, fail : 0..FailTop,
             signal : {"none", "recent", "old"}]
NewRow(live) == [live |-> live, fresh |-> TRUE, wait |-> 0,
                 empty |-> 0, fail |-> 0, signal |-> "none"]

Least(a, b) == IF a <= b THEN a ELSE b
Most(a, b) == IF a >= b THEN a ELSE b

Init ==
  /\ search = [s \in Searches |-> NewRow(TRUE)]
  /\ overloadedTicks = 0
  /\ task = [p \in Passes |-> [s \in Searches |-> NoTask]]
  /\ loop = "due"

-----------------------------------------------------------------------------
(* Priorities and due times.                                                *)

isDue(s) == search[s].fresh \/ search[s].wait <= 0

\* Fault: how long a search has waited does not count.
stalenessWeightNone(s) == 0
stalenessWeight(s) ==
  IF search[s].fresh THEN Least(BaseInterval[s], MaxStaleness)
  ELSE Most(0, -search[s].wait)

computePriority(s) ==
  Weight[s] + stalenessWeight(s)
  + (IF search[s].signal = "recent" THEN SignalBoost ELSE 0)
  - Least(EmptyStep * search[s].empty, EmptyCap)
  - Least(FailStep * search[s].fail, FailCap)

\* Ranking of the dispatch order; the id breaks ties.
Before(s, t) ==
  \/ computePriority(s) > computePriority(t)
  \/ computePriority(s) = computePriority(t) /\ s < t

\* Fault: the exponents are not capped.
backoffUncapped(s, e, f) == BaseInterval[s] * 2^e * 2^f
nextRunAtAfter(s, e, f) ==
  BaseInterval[s] * 2^Least(e, EmptyShift) * 2^Least(f, FailShift)

-----------------------------------------------------------------------------
(* One pass.                                                                *)

candidates == {s \in Searches : search[s].live /\ isDue(s)}

OwnersOf(C) == {Owner[s] : s \in C}
\* The slots of all owners of candidates; a slot is an owner and a number.
dispatchBudget(C) == Cardinality(UNION {{u} \X (1..MaxDispatchPerTick[u]) : u \in OwnersOf(C)})
Overloaded(C) == Cardinality(C) > dispatchBudget(C)

\* Fault: only the priority protects a search.
DeferrableByPriority(s) ==
  ~(Owner[s] \in PaidUsers /\ computePriority(s) > DeferBelow)
Deferrable(s) ==
  /\ search[s].empty > 0
  /\ ~(Owner[s] \in PaidUsers /\ computePriority(s) > DeferBelow)

\* Lowest priority first; among equals the lower id goes first here as well.
DefersBefore(s, t) ==
  \/ computePriority(s) < computePriority(t)
  \/ computePriority(s) = computePriority(t) /\ s < t

\* Fault: one candidate too many is deferred.
deferOnePastBudget(C) ==
  LET excess == Cardinality(C) - dispatchBudget(C) + 1
      eligible == {s \in C : Deferrable(s)}
  IN {s \in eligible :
        Cardinality({t \in eligible : DefersBefore(t, s)}) < excess}
deferOverloadedCandidates(C) ==
  LET excess == Cardinality(C) - dispatchBudget(C)
      eligible == {s \in C : Deferrable(s)}
  IN {s \in eligible :
        Cardinality({t \in eligible : DefersBefore(t, s)}) < excess}

\* Each owner's best candidates, as many as its slots.  The round robin over
\* the priority bands orders the start of the goroutines, and so decides
\* nothing about who gets a slot: slots are counted per owner.
finalizeDispatchOrder(C) ==
  {s \in C : Cardinality({t \in C : Owner[t] = Owner[s] /\ Before(t, s)})
               < MaxDispatchPerTick[Owner[s]]}

\* overloadedTicks after a pass over C; a pass with no candidate returns early.
updateOverloadState(C) ==
  IF C = {} THEN overloadedTicks
  ELSE IF Overloaded(C) THEN Least(overloadedTicks + 1, 2) ELSE 0

DeferredNow ==
  IF updateOverloadState(candidates) >= 2
  THEN deferOverloadedCandidates(candidates) ELSE {}
DispatchedNow == finalizeDispatchOrder(candidates \ DeferredNow)

Plan(C) == [s \in Searches |->
  IF s \in C THEN [empty |-> search[s].empty, fail |-> search[s].fail,
                   signal |-> search[s].signal]
  ELSE NoTask]

\* run on the loop's behalf: deferred rows are pushed back at once, and the
\* dispatched ones go to their goroutines.
RunAllNow ==
  /\ loop = "due"
  /\ LET C == candidates
         deferred == DeferredNow
     IN /\ search' = [s \in Searches |->
                IF s \in deferred
                THEN [search[s] EXCEPT !.fresh = FALSE, !.wait = BaseInterval[s]]
                ELSE search[s]]
        /\ task' = [task EXCEPT !["loop"] = Plan(finalizeDispatchOrder(C \ deferred))]
        /\ overloadedTicks' = updateOverloadState(C)
  /\ loop' = "working"

Elapse(row, k) == IF row.fresh THEN row
                  ELSE [row EXCEPT !.wait = Most(@ - k, -MaxStaleness)]

Idle(p) == \A s \in Searches : task[p][s] = NoTask

\* dispatch has returned; the ticker fires again k ticks after the last time.
Tick ==
  /\ loop = "working" /\ Idle("loop")
  /\ \E k \in 1..MaxLag : search' = [s \in Searches |-> Elapse(search[s], k)]
  /\ loop' = "due"
  /\ UNCHANGED <<overloadedTicks, task>>

Outcomes == {"failed", "empty", "found", "deal"}

\* RunTask's bookkeeping: a failed search keeps its empty-run count and its
\* last signal; results clear the count, and are a first signal to a row
\* without any.  UpdateSearchRuntime overwrites whatever the row holds by now.
RunTask(p, s) ==
  /\ task[p][s] # NoTask
  /\ \E outcome \in Outcomes :
       LET old == task[p][s]
           empty == CASE outcome = "failed" -> old.empty
                      [] outcome = "empty" -> Least(old.empty + 1, EmptyTop)
                      [] OTHER -> 0
           fail == IF outcome = "failed" THEN Least(old.fail + 1, FailTop) ELSE 0
           signal == IF \/ outcome = "deal"
                        \/ outcome = "found" /\ old.signal = "none"
                     THEN "recent" ELSE old.signal
       IN search' = [search EXCEPT ![s] =
            [live |-> @.live, fresh |-> FALSE, wait |-> nextRunAtAfter(s, empty, fail),
             empty |-> empty, fail |-> fail, signal |-> signal]]
  /\ task' = [task EXCEPT ![p][s] = NoTask]
  /\ UNCHANGED <<overloadedTicks, loop>>

\* A run-now request whose client hung up: the goroutines still waiting for a
\* semaphore return without having run their search.
GiveUp(r, s) ==
  /\ task[r][s] # NoTask
  /\ task' = [task EXCEPT ![r][s] = NoTask]
  /\ UNCHANGED <<search, overloadedTicks, loop>>

-----------------------------------------------------------------------------
(* What the API does to the rows between two passes.                        *)

\* POST /searches/{id}/run and /searches/run: every live search of the user,
\* due or not, without slots, and without a word to the overload counter.
RunUserNow(r, u) ==
  /\ Idle(r)
  /\ task' = [task EXCEPT ![r] =
                Plan({s \in Searches : Owner[s] = u /\ search[s].live})]
  /\ UNCHANGED <<search, overloadedTicks, loop>>

\* PUT /searches/{id} writes every column from the request body: the runtime
\* fields are back at zero unless the client echoed them.
UpdateSearchConfig(s) ==
  /\ \E live \in BOOLEAN :
       \/ search' = [search EXCEPT ![s] = NewRow(live)]
       \/ search' = [search EXCEPT ![s].live = live]
  /\ UNCHANGED <<overloadedTicks, task, loop>>

\* POST /missions/{id}/recheck: due now.
Recheck(s) ==
  /\ search' = [search EXCEPT ![s].fresh = FALSE, ![s].wait = 0]
  /\ UNCHANGED <<overloadedTicks, task, loop>>

\* 72 hours (or 7 days) since the last signal.
SignalAges(s) ==
  /\ search[s].signal = "recent"
  /\ search' = [search EXCEPT ![s].signal = "old"]
  /\ UNCHANGED <<overloadedTicks, task, loop>>

Next ==
  \/ RunAllNow
  \/ Tick
  \/ \E p \in Passes, s \in Searches : RunTask(p, s)
  \/ \E r \in Requests, u \in Users : RunUserNow(r, u)
  \/ \E r \in Requests, s \in Searches : GiveUp(r, s)
  \/ \E s \in Edited : UpdateSearchConfig(s) \/ Recheck(s)
  \/ \E s \in Searches : SignalAges(s)

\* The loop never stops ticking while the server is up, and a marketplace
\* search ends (its HTTP client has a timeout).  Nothing obliges a user to act.
Fairness ==
  /\ WF_vars(RunAllNow)
  /\ WF_vars(Tick)
  /\ \A p \in Passes, s \in Searches : WF_vars(RunTask(p, s))

Spec == Init /\ [][Next]_vars /\ Fairness

-----------------------------------------------------------------------------
(* Properties.                                                              *)

\* Every counter stays in its range and no search is ever put further away
\* than its interval times the largest two backoff factors (nextRunAtAfter).
TypeOK ==
  /\ \A s \in Searches : search[s] \in Row(s)
  /\ overloadedTicks \in 0..2
  /\ task \in [Passes -> [Searches -> Snapshot \cup {NoTask}]]
  /\ loop \in {"due", "working"}

\* Shedding load costs only searches that came back empty: one whose last
\* runs found something is dispatched by an overloaded tick whenever the
\* same tick would have dispatched it without deferOverloadedCandidates.
ProductiveSearchesSpared ==
  \A s \in finalizeDispatchOrder(candidates) :
    search[s].empty = 0 => s \in DispatchedNow

\* Deferral stops at the dispatch budget: it brings the candidates down
\* towards the slots there are, and never below that number.
DeferralStopsAtBudget ==
  Cardinality(candidates \ DeferredNow)
    >= Least(Cardinality(candidates), dispatchBudget(candidates))

\* A search that is overdue to the cap of its staleness and healthy (neither
\* failing nor empty) gets a slot in the end, although siblings with a heavier
\* mission or a recent signal compete for its owner's slots and the pool stays
\* overloaded: a healthy row cannot stay at that cap, as long as no sibling
\* outweighs it there.  The premise bounds the siblings' lead: with n of them
\* taking turns in d slots some sibling comes back after n/d passes, and has
\* waited no longer than those, or its interval when a user has just reset it.
\* Weights of one mission meet it.  An urgent mission (30) with a signal (20)
\* does not meet the cap of 40 of a mission without urgency: enough of those
\* starve it, and of that nothing is promised.
Overdue(s) ==
  /\ search[s].live /\ ~search[s].fresh
  /\ search[s].empty = 0 /\ search[s].fail = 0
  /\ search[s].wait = -MaxStaleness
Siblings(s) == {t \in Searches \ {s} : Owner[t] = Owner[s]}
LongestTurn(s) == MaxLag * (Cardinality(Siblings(s)) \div MaxDispatchPerTick[Owner[s]])
Outweighed(s) ==
  \E t \in Siblings(s) :
    Weight[t] + SignalBoost + Most(BaseInterval[t], LongestTurn(s)) >= Weight[s] + MaxStaleness
HealthySearchesRun == \A s \in Searches : ~Outweighed(s) => (Overdue(s) ~> ~Overdue(s))

=============================================================================
