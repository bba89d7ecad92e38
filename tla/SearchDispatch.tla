--------------------------- MODULE SearchDispatch ---------------------------
(***************************************************************************)
(* Pool.dispatch and UserWorker.RunTask (internal/worker): the goroutines of *)
(* one pass take three semaphores in turn (global, the owner's, the          *)
(* marketplace's), search, judge what they find against the listings table,  *)
(* and alert.  The pool's loop and any number of run-now requests each make  *)
(* a pass of their own, with semaphores of their own, at the same time; a    *)
(* pass ends early when its context is cancelled (Stop, or a client that     *)
(* hangs up).                                                               *)
(*                                                                         *)
(* Each user has one listing that all of the user's searches can find.       *)
(* Between reading its row and saving it, a task waits for the scorer.       *)
(***************************************************************************)
EXTENDS Integers, FiniteSets

CONSTANTS
  Searches, Users, Owner, Markets, Market,
  Global,        \* the name of the pass-wide semaphore
  Limit,         \* capacity of each semaphore
  Finders,       \* bound: the users whose searches find anything
  Requests       \* run-now requests that may be in progress

ASSUME SearchesAssumption ==
  /\ IsFiniteSet(Searches)
  /\ Owner \in [Searches -> Users] /\ Market \in [Searches -> Markets]
  /\ Finders \subseteq Users
Slots == {Global} \cup Users \cup Markets
ASSUME SlotsAssumption ==
  /\ Global \notin Users \cup Markets /\ Users \cap Markets = {}
  /\ Limit \in [Slots -> Nat \ {0}]
  /\ "loop" \notin Requests

Passes == {"loop"} \cup Requests

VARIABLES
  ctx,      \* each pass's context: "open" or "cancelled"
  at,       \* where each pass's goroutine for each search is
  held,     \* how many of its three semaphores it holds
  used,     \* tokens in each pass's semaphore channels
  stored,   \* the user's row in listings: "absent", below minScore or not
  prev,     \* the row as a task in the scorer has read it
  \* History, read by the properties only.
  alerted,  \* users alerted since their row was last below the threshold
  excused,  \* a database error was swallowed, or two tasks had one listing
  doubled   \* a user was alerted a second time before anything of the kind

vars == <<ctx, at, held, used, stored, prev, alerted, excused, doubled>>

\* The order in which a goroutine takes its semaphores.
Need(s) == <<Global, Owner[s], Market[s]>>
Held(p, s) == {Need(s)[i] : i \in 1..held[p][s]}

Running(p) == \E s \in Searches : at[p][s] # "none"

Init ==
  /\ ctx = [p \in Passes |-> "open"]
  /\ at = [p \in Passes |-> [s \in Searches |-> "none"]]
  /\ held = [p \in Passes |-> [s \in Searches |-> 0]]
  /\ used = [p \in Passes |-> [x \in Slots |-> 0]]
  /\ stored = [u \in Users |-> "absent"]
  /\ prev = [p \in Passes |-> [s \in Searches |-> "absent"]]
  /\ alerted = {} /\ excused = FALSE /\ doubled = FALSE

listings == <<stored, prev, alerted, excused, doubled>>

-----------------------------------------------------------------------------
(* Passes.                                                                  *)

Dispatch(p, S) ==
  /\ ~Running(p)
  /\ at' = [at EXCEPT ![p] = [s \in Searches |-> IF s \in S THEN "acquiring" ELSE "none"]]
  /\ UNCHANGED <<ctx, held, used, listings>>

\* A tick: whatever SearchSchedule's pass planned.
RunAllNow ==
  /\ ctx["loop"] = "open"
  /\ \E S \in SUBSET Searches \ {{}} : Dispatch("loop", S)

\* All of the user's searches, due or not.
RunUserNow(r, u) == Dispatch(r, {s \in Searches : Owner[s] = u})

\* Pool.Stop, or the client of a run-now request hangs up.
Cancel(p) ==
  /\ ctx[p] = "open"
  /\ p = "loop" \/ Running(p)
  /\ ctx' = [ctx EXCEPT ![p] = "cancelled"]
  /\ UNCHANGED <<at, held, used, listings>>

\* wg.Wait returns.  The next request comes with a context of its own.
Return(p) ==
  /\ Running(p)
  /\ \A s \in Searches : at[p][s] \in {"none", "done"}
  /\ at' = [at EXCEPT ![p] = [s \in Searches |-> "none"]]
  /\ ctx' = IF p = "loop" THEN ctx ELSE [ctx EXCEPT ![p] = "open"]
  /\ UNCHANGED <<held, used, listings>>

-----------------------------------------------------------------------------
(* Semaphores.                                                              *)

\* Fault: a send on the channel never blocks.
RoomAlways(p, x) == TRUE
\* Fault: getUserSem makes a channel and does not keep it.
RoomForgottenSem(p, x) == x \in Users \/ used[p][x] < Limit[x]
Room(p, x) == used[p][x] < Limit[x]

\* acquire's select: a free token may be taken even when the context is done.
Acquire(p, s) ==
  /\ at[p][s] = "acquiring"
  /\ LET x == Need(s)[held[p][s] + 1]
     IN Room(p, x) /\ used' = [used EXCEPT ![p][x] = @ + 1]
  /\ held' = [held EXCEPT ![p][s] = @ + 1]
  /\ at' = [at EXCEPT ![p][s] = IF held[p][s] = 2 THEN "searching" ELSE @]
  /\ UNCHANGED <<ctx, listings>>

\* Fault: only a goroutine that got as far as RunTask releases.
ReleasesAfterRunOnly(p, s) == IF held[p][s] = 3 THEN Held(p, s) ELSE {}
\* The deferred releases of a goroutine that ends.
Releases(p, s) == Held(p, s)

\* release's select: taking a token from an empty channel does nothing.
End(p, s) ==
  /\ used' = [used EXCEPT ![p] = [x \in Slots |->
                IF x \in Releases(p, s) /\ @[x] > 0 THEN @[x] - 1 ELSE @[x]]]
  /\ held' = [held EXCEPT ![p][s] = 0]
  /\ at' = [at EXCEPT ![p][s] = "done"]
  /\ UNCHANGED ctx

\* acquire returns ctx.Err().
GiveUp(p, s) ==
  /\ at[p][s] = "acquiring" /\ ctx[p] = "cancelled"
  /\ End(p, s)
  /\ UNCHANGED listings

-----------------------------------------------------------------------------
(* RunTask.                                                                 *)

\* The search fails, finds nothing that matches, or finds a listing already
\* scored at this price, which is only touched.
EndQuietly(p, s) ==
  /\ at[p][s] = "searching"
  /\ End(p, s)
  /\ UNCHANGED listings

\* IsNew and GetListingScore, whose errors are dropped: they read as a new
\* listing, and as an old one whose score crosses nothing.
Fetch(p, s) ==
  /\ at[p][s] = "searching" /\ Owner[s] \in Finders
  /\ \/ prev' = [prev EXCEPT ![p][s] = stored[Owner[s]]] /\ UNCHANGED excused
     \/ prev' = [prev EXCEPT ![p][s] = "absent"] /\ excused' = TRUE
     \/ /\ stored[Owner[s]] # "absent"
        /\ prev' = [prev EXCEPT ![p][s] = "high"] /\ excused' = TRUE
  /\ at' = [at EXCEPT ![p][s] = "scoring"]
  /\ UNCHANGED <<ctx, held, used, stored, alerted, doubled>>

\* Fault: any listing at or above the threshold is announced.
AlertableAnyHigh(was, outcome) == outcome = "deal"
\* New, or up from below the threshold, and worth an offer.
Alertable(was, outcome) == outcome = "deal" /\ was \in {"absent", "low"}

\* Score, SaveListing (whose error is only logged), and the alert.  "high" is
\* a score at or above minScore without an offer price.
Judge(p, s) ==
  /\ at[p][s] = "scoring"
  /\ \E outcome \in {"low", "high", "deal"}, saved \in BOOLEAN :
       LET u == Owner[s]
           alert == Alertable(prev[p][s], outcome)
           others == {q \in Passes \X Searches :
                        /\ q # <<p, s>> /\ Owner[q[2]] = u
                        /\ at[q[1]][q[2]] = "scoring"}
       IN /\ stored' = IF ~saved THEN stored
                       ELSE [stored EXCEPT ![u] = IF outcome = "low" THEN "low" ELSE "high"]
          /\ alerted' = IF alert THEN alerted \cup {u}
                        ELSE IF saved /\ outcome = "low" THEN alerted \ {u} ELSE alerted
          /\ excused' = (excused \/ ~saved \/ others # {})
          /\ doubled' = (doubled \/ (~excused' /\ alert /\ u \in alerted))
  /\ prev' = [prev EXCEPT ![p][s] = "absent"]
  /\ End(p, s)

Task(p, s) ==
  Acquire(p, s) \/ GiveUp(p, s) \/ EndQuietly(p, s) \/ Fetch(p, s) \/ Judge(p, s)

Next ==
  \/ RunAllNow
  \/ \E r \in Requests, u \in Users : RunUserNow(r, u)
  \/ \E p \in Passes : Cancel(p) \/ Return(p)
  \/ \E p \in Passes, s \in Searches : Task(p, s)

\* Goroutines run, and marketplace and model calls time out.
Fairness == \A p \in Passes :
  /\ WF_vars(Return(p))
  /\ \A s \in Searches : WF_vars(Task(p, s))

Spec == Init /\ [][Next]_vars /\ Fairness

-----------------------------------------------------------------------------
(* Properties.                                                              *)

TypeOK ==
  /\ ctx \in [Passes -> {"open", "cancelled"}]
  /\ at \in [Passes -> [Searches -> {"none", "acquiring", "searching", "scoring", "done"}]]
  /\ held \in [Passes -> [Searches -> 0..3]]
  /\ used \in [Passes -> [Slots -> Nat]]
  /\ \A p \in Passes, x \in Slots : used[p][x] <= Limit[x]
  /\ stored \in [Users -> {"absent", "low", "high"}]
  /\ prev \in [Passes -> [Searches -> {"absent", "low", "high"}]]
  /\ alerted \subseteq Users /\ excused \in BOOLEAN /\ doubled \in BOOLEAN

\* The tasks of pass p that work on behalf of semaphore x.
Busy(p, x) == {s \in Searches : at[p][s] \in {"searching", "scoring"} /\ x \in {Global, Owner[s], Market[s]}}

\* dispatch never works on more searches at once, for the pass, for a user or
\* for a marketplace, than the semaphore's capacity, also when some of its
\* goroutines have given up because the context was cancelled.
WithinLimits == \A p \in Passes, x \in Slots : Cardinality(Busy(p, x)) <= Limit[x]

\* Every pass returns: the loop gets to its next tick and a run-now request to
\* its response, whatever the order of the goroutines and whenever the context
\* is cancelled (no lost token, no goroutine left behind).
PassesReturn == \A p \in Passes : Running(p) ~> ~Running(p)

\* RunTask's check-then-act on the listings table sends one alert for each
\* time the stored score rises to the threshold, unless a database error was
\* swallowed or two tasks of the user had the listing in hand at once.
AlertsOncePerRise == ~doubled

\* RunUserNow's comment: "while still respecting marketplace concurrency
\* limits".  The limit is per pass, so two passes exceed it together.
MarketplaceLimitHolds ==
  \A m \in Markets :
    Cardinality({q \in Passes \X Searches : q[2] \in Busy(q[1], m)}) <= Limit[m]

=============================================================================
