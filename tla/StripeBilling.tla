---------------------------- MODULE StripeBilling ----------------------------
(***************************************************************************)
(* How a user's tier follows Stripe (internal/api/billing.go): the webhook,  *)
(* the owner's actions on a subscription, and the hourly reconciliation,     *)
(* all of which write the same subscription snapshots and the same           *)
(* users.tier, one database call at a time and without a transaction.        *)
(*                                                                         *)
(* One customer is modelled.  Stripe is the environment: it changes, sends   *)
(* an event for each change, and may deliver any event it ever sent at any   *)
(* time, in any order, again, or never.  A price stands for the tier it      *)
(* sells; a subscription's status is one of the classes the code tells       *)
(* apart.  Invoices and the webhook log are written beside all this and      *)
(* never read back by it; they are left out.                                 *)
(***************************************************************************)
EXTENDS Integers, Sequences, FiniteSets

CONSTANTS
  Subs,        \* the customer's subscriptions, numbered in order of creation
  PaidTiers,   \* "pro" and "power"
  Handlers,    \* HTTP requests being served at once (webhook or owner)
  Reconcilers, \* the hourly loop, and reconciliations the owner triggers
  MaxEvents,   \* bound: events Stripe sends, give or take one
  MaxMishaps   \* bound: failed database calls, crashes, tiers set by operators

ASSUME SubsAssumption == Subs \subseteq Nat /\ IsFiniteSet(Subs)
ASSUME TiersAssumption == "free" \notin PaidTiers
ASSUME HandlersAssumption == IsFiniteSet(Handlers)
ASSUME BoundsAssumption == MaxEvents \in Nat /\ MaxMishaps \in Nat

VARIABLES
  stripe,     \* the subscriptions at Stripe
  sent,       \* the events Stripe has sent, in order
  handler,    \* what each request is doing, and with which object
  processed,  \* stripe_processed_events: the numbers of the events seen
  snapshot,   \* stripe_subscription_snapshots
  tier,       \* users.tier
  pass,       \* what a reconciliation has listed and not yet persisted
  mishaps,    \* how many of those there were
  spent       \* history: for each event, the requests that put it on record and
              \* then issued its tier update or went down before it

db == <<processed, snapshot, tier>>
vars == <<stripe, sent, handler, db, pass, mishaps, spent>>

\* pending: incomplete, paused; paying: active, trialing, past_due, unpaid;
\* ended: canceled, incomplete_expired.
Statuses == {"pending", "paying", "ended"}
Object == [sub : Subs, status : Statuses, tier : PaidTiers]
None == [status |-> "none"]
Event == [kind : {"checkout", "changed", "deleted"}, object : Object]
Events == 1..(MaxEvents + 1)
Idle == [at |-> "idle"]
NoPass == [at |-> "nothing"]

Init ==
  /\ stripe = [s \in Subs |-> None]
  /\ sent = <<>>
  /\ handler = [h \in Handlers |-> Idle]
  /\ processed = {} /\ snapshot = [s \in Subs |-> None] /\ tier = "free"
  /\ pass = [r \in Reconcilers |-> NoPass]
  /\ mishaps = 0
  /\ spent = [i \in Events |-> 0]

Mishap == mishaps < MaxMishaps /\ mishaps' = mishaps + 1
NoMishap == UNCHANGED mishaps

-----------------------------------------------------------------------------
(* Stripe.                                                                  *)

Change(s, object, kinds) ==
  /\ Len(sent) < MaxEvents
  /\ stripe' = [stripe EXCEPT ![s] = object]
  /\ sent' = sent \o [i \in 1..Len(kinds) |-> [kind |-> kinds[i], object |-> object]]

Subscribe(s) ==
  /\ stripe[s] = None /\ \A r \in Subs : r < s => stripe[r] # None
  /\ \E t \in PaidTiers, status \in {"pending", "paying"} :
       Change(s, [sub |-> s, status |-> status, tier |-> t], <<"changed", "checkout">>)
  /\ UNCHANGED <<handler, db, pass, mishaps, spent>>

\* Another price, another status, or something the code does not look at; an
\* ended subscription stays so.
Update(s) ==
  /\ stripe[s].status \in {"pending", "paying"}
  /\ \E t \in PaidTiers, status \in Statuses :
       Change(s, [sub |-> s, status |-> status, tier |-> t], <<"changed">>)
  /\ UNCHANGED <<handler, db, pass, mishaps, spent>>

Delete(s) ==
  /\ stripe[s].status \in {"pending", "paying"}
  /\ Change(s, [stripe[s] EXCEPT !.status = "ended"], <<"deleted">>)
  /\ UNCHANGED <<handler, db, pass, mishaps, spent>>

-----------------------------------------------------------------------------
(* persistStripeSubscriptionEvent, in its two database calls.               *)

SaveSnapshot(object) == snapshot' = [snapshot EXCEPT ![object.sub] = object]

subscriptionDrivesPaidTier(object) == object.status = "paying"
subscriptionIsEnded(object) == object.status = "ended"

\* An error of this update is dropped.
SaveTier(object) ==
  \/ /\ tier' = CASE subscriptionDrivesPaidTier(object) -> object.tier
                  [] subscriptionIsEnded(object) -> "free"
                  [] OTHER -> tier
     /\ NoMishap
  \/ UNCHANGED tier /\ Mishap

-----------------------------------------------------------------------------
(* The webhook.                                                             *)

\* The requests that have put the event on record and not yet acted on it.
AtWork(i) == {h \in Handlers : handler[h].at = "tier" /\ handler[h].event = i}

\* Fault: only the requests in progress are looked at, not the table.
FirstInProgress(i) == AtWork(i) = {}
FirstSeen(i) == i \notin processed

\* Some event arrives, for the first time or again.  Its first delivery goes
\* on; any other is answered "duplicate" and nothing else, also when the first
\* one failed halfway (RecordStripeProcessedEvent).
Receive(h) ==
  /\ handler[h] = Idle
  /\ \E i \in 1..Len(sent) :
       /\ FirstSeen(i)
       /\ processed' = processed \cup {i}
       /\ handler' = [handler EXCEPT ![h] = [at |-> "tier", event |-> i]]
  /\ UNCHANGED <<stripe, sent, snapshot, tier, pass, mishaps, spent>>

\* The switch's own update of the tier, by price and whatever the status;
\* its error is dropped.
SetTier(h) ==
  /\ handler[h].at = "tier"
  /\ LET i == handler[h].event
         e == sent[i]
     IN /\ \/ tier' = (IF e.kind = "deleted" THEN "free" ELSE e.object.tier) /\ NoMishap
           \/ UNCHANGED tier /\ Mishap
        /\ spent' = [spent EXCEPT ![i] = @ + 1]
        /\ handler' = [handler EXCEPT ![h] =
             IF e.kind = "checkout" THEN Idle
             ELSE [at |-> "snapshot", object |-> e.object]]
  /\ UNCHANGED <<stripe, sent, processed, snapshot, pass>>

\* Looking up the user or saving the snapshot fails: the request ends with 500.
PersistSnapshot(h) ==
  /\ handler[h].at = "snapshot"
  /\ \/ /\ SaveSnapshot(handler[h].object)
        /\ handler' = [handler EXCEPT ![h].at = "persist"]
        /\ NoMishap
     \/ /\ Mishap
        /\ handler' = [handler EXCEPT ![h] = Idle]
        /\ UNCHANGED snapshot
  /\ UNCHANGED <<stripe, sent, processed, tier, pass, spent>>

PersistTier(h) ==
  /\ handler[h].at = "persist"
  /\ SaveTier(handler[h].object)
  /\ handler' = [handler EXCEPT ![h] = Idle]
  /\ UNCHANGED <<stripe, sent, processed, snapshot, pass, spent>>

-----------------------------------------------------------------------------
(* The owner's actions: Stripe's answer is persisted.                       *)

\* "plan" sets the price, and "cancel" (at the end of the period), "resume" and
\* "pause" (of the collection) leave it; all of them make Stripe send an event.
OwnerMutate(h, s) ==
  /\ handler[h] = Idle
  /\ stripe[s].status \in {"pending", "paying"}
  /\ \E t \in PaidTiers :
       LET object == [stripe[s] EXCEPT !.tier = t]
       IN /\ Change(s, object, <<"changed">>)
          /\ handler' = [handler EXCEPT ![h] = [at |-> "snapshot", object |-> object]]
  /\ UNCHANGED <<db, pass, mishaps, spent>>

\* "sync" only reads the subscription.
OwnerSync(h, s) ==
  /\ handler[h] = Idle
  /\ stripe[s] # None
  /\ handler' = [handler EXCEPT ![h] = [at |-> "snapshot", object |-> stripe[s]]]
  /\ UNCHANGED <<stripe, sent, db, pass, mishaps, spent>>

\* POST /admin/users/{id}/tier, whatever Stripe says.
UpdateUserTier(t) ==
  /\ tier # t
  /\ tier' = t
  /\ Mishap
  /\ UNCHANGED <<stripe, sent, handler, processed, snapshot, pass, spent>>

-----------------------------------------------------------------------------
(* The reconciliation.                                                      *)

\* Fault: without the status filter "all" Stripe leaves out what has ended.
ListedByDefault(s) == stripe[s].status \in {"pending", "paying"}
Listed(s) == stripe[s] # None

\* One list call, newest subscription first.
StartReconcile(r) ==
  /\ pass[r] = NoPass
  /\ \E s \in Subs : Listed(s)
  /\ LET list == {s \in Subs : Listed(s)}
     IN \E order \in [1..Cardinality(list) -> list] :
          /\ \A i, j \in DOMAIN order : i < j => order[i] > order[j]
          /\ pass' = [pass EXCEPT ![r] =
               [at |-> "snapshot", left |-> [i \in DOMAIN order |-> stripe[order[i]]]]]
  /\ UNCHANGED <<stripe, sent, handler, db, mishaps, spent>>

\* Fault: the iterator goes on past its last element.
RestUnended(left) == [at |-> "snapshot", left |-> Tail(left)]
Rest(left) == IF Len(left) = 1 THEN NoPass ELSE [at |-> "snapshot", left |-> Tail(left)]

\* A subscription that cannot be saved is skipped.
ReconcileSnapshot(r) ==
  /\ pass[r].at = "snapshot"
  /\ LET left == pass[r].left
     IN \/ /\ SaveSnapshot(Head(left))
           /\ pass' = [pass EXCEPT ![r].at = "persist"]
           /\ NoMishap
        \/ /\ Mishap
           /\ pass' = [pass EXCEPT ![r] = Rest(left)]
           /\ UNCHANGED snapshot
  /\ UNCHANGED <<stripe, sent, handler, processed, tier, spent>>

ReconcileTier(r) ==
  /\ pass[r].at = "persist"
  /\ SaveTier(Head(pass[r].left))
  /\ pass' = [pass EXCEPT ![r] = Rest(pass[r].left)]
  /\ UNCHANGED <<stripe, sent, handler, processed, snapshot, spent>>

\* The process stops, with everything it was doing.
Crash ==
  /\ Mishap
  /\ \/ \E h \in Handlers : handler[h] # Idle
     \/ \E r \in Reconcilers : pass[r] # NoPass
  /\ handler' = [h \in Handlers |-> Idle]
  /\ pass' = [r \in Reconcilers |-> NoPass]
  /\ spent' = [i \in Events |-> spent[i] + Cardinality(AtWork(i))]
  /\ UNCHANGED <<stripe, sent, db>>

Serve(h) == SetTier(h) \/ PersistSnapshot(h) \/ PersistTier(h)
Pass(r) == StartReconcile(r) \/ ReconcileSnapshot(r) \/ ReconcileTier(r)

Next ==
  \/ \E s \in Subs : Subscribe(s) \/ Update(s) \/ Delete(s)
  \/ \E h \in Handlers : Receive(h) \/ Serve(h)
  \/ \E h \in Handlers, s \in Subs : OwnerMutate(h, s) \/ OwnerSync(h, s)
  \/ \E t \in PaidTiers \cup {"free"} : UpdateUserTier(t)
  \/ \E r \in Reconcilers : Pass(r)
  \/ Crash

\* The ticker of the reconciliation never stops while the server is up, and a
\* request that was accepted is served to its end.  Nothing is assumed of
\* Stripe's deliveries.
Fairness ==
  /\ \A h \in Handlers : WF_vars(Serve(h))
  /\ \A r \in Reconcilers : WF_vars(Pass(r))

Spec == Init /\ [][Next]_vars /\ Fairness

-----------------------------------------------------------------------------
(* Properties.                                                              *)

TypeOK ==
  /\ stripe \in [Subs -> Object \cup {None}]
  /\ \A i \in 1..Len(sent) : sent[i] \in Event
  /\ processed \subseteq 1..Len(sent)
  /\ snapshot \in [Subs -> Object \cup {None}]
  /\ tier \in PaidTiers \cup {"free"}
  /\ \A h \in Handlers :
       \/ handler[h] = Idle
       \/ handler[h].at = "tier" /\ handler[h].event \in 1..Len(sent)
       \/ handler[h].at \in {"snapshot", "persist"} /\ handler[h].object \in Object
  /\ \A r \in Reconcilers :
       \/ pass[r] = NoPass
       \/ pass[r].at \in {"snapshot", "persist"} /\ pass[r].left \in Seq(Object) \ {<<>>}
  /\ mishaps \in 0..MaxMishaps
  /\ Len(sent) <= MaxEvents + 1 /\ spent \in [Events -> Nat]

\* Counted over all requests there ever were, however an event is delivered
\* again: none takes an event on before it is on record, and one does for
\* every event on record, which updates the tier once, is about to, or went
\* down with the process.  Nothing takes an event on a second time, not even
\* one whose first request failed (handleBillingWebhook records the event
\* first and acts on it afterwards).
EventsActOnce ==
  \A i \in Events :
    spent[i] + Cardinality(AtWork(i)) = IF i \in processed THEN 1 ELSE 0

\* Every subscription the owner sees ends up as Stripe has it, and a customer
\* who never had a second one ends up with the tier it pays for or with "free",
\* whatever was lost, repeated, reordered or cut short: the reconciliation
\* repairs it.  (Of several subscriptions the one persisted last decides the
\* tier, and that is the oldest.)
Settles ==
  <>[](/\ snapshot = stripe
       /\ \A s \in Subs :
            (\A r \in Subs \ {s} : stripe[r] = None) =>
              /\ stripe[s].status = "paying" => tier = stripe[s].tier
              /\ stripe[s].status = "ended" => tier = "free")

=============================================================================
