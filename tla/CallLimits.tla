------------------------------ MODULE CallLimits ------------------------------
(***************************************************************************)
(* The hourly limits on model calls (internal/reasoner/ratelimit.go,        *)
(* internal/reasoner/musthave.go): sliding windows of the reasoner's calls, *)
(* over all users and per user, and of the must-have evaluator's per        *)
(* mission, which has a cache in the store besides.  Each limiter reads     *)
(* the clock under its own mutex, so its list is in order of time.          *)
(***************************************************************************)
EXTENDS Naturals, Sequences, FiniteSets

CONSTANTS
  Tenants,        \* users that have a name; "" has no limit of its own
  perUserLimit, globalLimit,
  Evaluators,     \* requests that evaluate must-haves of one mission at once
  Listings,
  MaxCallsPerMissionPerHour,
  Hour,
  LastTick        \* bound on the clock

NoUser == ""

ASSUME CallLimitsAssumption ==
  /\ {perUserLimit, globalLimit, MaxCallsPerMissionPerHour, Hour, LastTick} \subseteq Nat
  /\ NoUser \notin Tenants

VARIABLES
  tick,
  userCalls, globalCalls,     \* times of admitted calls
  missionCalls,
  aiCache,        \* listings whose verdicts are kept
  evaluation,     \* the listing each evaluator asks about, if any
  admitted,       \* history: every call the reasoner let through,
  asked,          \* ... and when the evaluators asked the model
  ruling          \* history: the last answer of Allow, and what was true then

limitVars == <<tick, userCalls, globalCalls, missionCalls, aiCache, evaluation, admitted, asked, ruling>>

NoListing == "no listing"
NoRuling == [ok |-> FALSE, room |-> FALSE]

LimitsInit ==
  /\ tick = 0
  /\ userCalls = [u \in Tenants |-> <<>>] /\ globalCalls = <<>>
  /\ missionCalls = <<>>
  /\ aiCache = {}
  /\ evaluation = [v \in Evaluators |-> NoListing]
  /\ admitted = <<>> /\ asked = <<>> /\ ruling = NoRuling

\* Calls before the cutoff go from the front; one that is an hour old stays.
pruneCalls(calls) ==
  LET keep == {i \in 1..Len(calls) : calls[i] + Hour >= tick}
  IN IF keep = {} THEN <<>>
     ELSE SubSeq(calls, CHOOSE i \in keep : \A j \in keep : i <= j, Len(calls))

-----------------------------------------------------------------------------
(* The reasoner.                                                            *)

\* A limit of 0 is none.
Reached(limit, n) == limit > 0 /\ n >= limit

GlobalRoom == ~Reached(globalLimit, Len(pruneCalls(globalCalls)))
UserRoom(u) == u = NoUser \/ ~Reached(perUserLimit, Len(pruneCalls(userCalls[u])))

\* Fault: the call is booked globally before the user's window is looked at.
BookedFirst(u) == GlobalRoom
\* A call that either window refuses is booked in none.
Booked(u) == GlobalRoom /\ UserRoom(u)

\* What the limits mean, said of the whole history.
Recently(calls) == {i \in 1..Len(calls) : calls[i].at + Hour >= tick}
HasRoom(u) ==
  LET recent == Recently(admitted)
  IN /\ ~Reached(globalLimit, Cardinality(recent))
     /\ u # NoUser => ~Reached(perUserLimit, Cardinality({i \in recent : admitted[i].who = u}))

\* A full global window leaves the user's list as it was.
Allow(u) ==
  LET ok == GlobalRoom /\ UserRoom(u)
  IN /\ globalCalls' = IF Booked(u) THEN Append(pruneCalls(globalCalls), tick) ELSE pruneCalls(globalCalls)
     /\ userCalls' = IF u = NoUser \/ ~GlobalRoom THEN userCalls
                     ELSE [userCalls EXCEPT ![u] = IF ok THEN Append(pruneCalls(@), tick) ELSE pruneCalls(@)]
     /\ ruling' = [ok |-> ok, room |-> HasRoom(u)]
     /\ admitted' = IF ok THEN Append(admitted, [who |-> u, at |-> tick]) ELSE admitted
     /\ UNCHANGED <<tick, missionCalls, aiCache, evaluation, asked>>

-----------------------------------------------------------------------------
(* The must-have evaluator.                                                 *)

\* allowMission comes before the cache: an answer from the cache is charged.
Evaluate(v, l) ==
  /\ evaluation[v] = NoListing
  /\ Len(pruneCalls(missionCalls)) < MaxCallsPerMissionPerHour
  /\ missionCalls' = Append(pruneCalls(missionCalls), tick)
  /\ IF l \in aiCache
       THEN UNCHANGED <<evaluation, asked>>
       ELSE evaluation' = [evaluation EXCEPT ![v] = l] /\ asked' = Append(asked, [at |-> tick])
  /\ UNCHANGED <<tick, userCalls, globalCalls, aiCache, admitted, ruling>>

\* The verdicts are kept for good; after a failure the next evaluation asks again.
callLLM(v) ==
  /\ evaluation[v] # NoListing
  /\ aiCache' \in {aiCache, aiCache \cup {evaluation[v]}}
  /\ evaluation' = [evaluation EXCEPT ![v] = NoListing]
  /\ UNCHANGED <<tick, userCalls, globalCalls, missionCalls, admitted, asked, ruling>>

Tick ==
  /\ tick < LastTick
  /\ tick' = tick + 1
  /\ UNCHANGED <<userCalls, globalCalls, missionCalls, aiCache, evaluation, admitted, asked, ruling>>

LimitsNext ==
  \/ \E u \in Tenants \cup {NoUser} : Allow(u)
  \/ \E v \in Evaluators : callLLM(v) \/ \E l \in Listings : Evaluate(v, l)
  \/ Tick

LimitsSpec == LimitsInit /\ [][LimitsNext]_limitVars

-----------------------------------------------------------------------------
(* Properties.                                                              *)

\* The windows mean what they say whatever was pruned when: the reasoner lets
\* a call through exactly when less than the limit were let through in the
\* last hour, over all and of that user, so that a refused call costs nobody
\* anything; and no hour sees more must-have calls of a mission than allowed.
LimitsExact ==
  /\ ruling.ok = ruling.room
  /\ Cardinality(Recently(asked)) <= MaxCallsPerMissionPerHour
=============================================================================
