---------------------------- MODULE PostgresBooks ----------------------------
(***************************************************************************)
(* The rest of the store over Postgres, like SQLiteBooks.  Here times are   *)
(* times, whoever wrote them.                                               *)
(***************************************************************************)
EXTENDS StoreTables

\* created_at >= NOW() - MAKE_INTERVAL(days => days).
Within(at, now, days) == at + 2 * days >= now
Month(at) == at \div 8

-----------------------------------------------------------------------------
(* Accounts.  An email is <<address, as typed>>.                            *)

Lowered(email) == email[1]

\* An error when the email is taken.
CreateUser(db, now, id, email, hash) ==
  IF \E u \in db.users : u.email = Lowered(email) THEN db
  ELSE [db EXCEPT !.users = @ \cup {[id |-> id, email |-> Lowered(email), hash |-> hash, text |-> Blank, tier |-> "free",
                                    role |-> Blank, admin |-> FALSE, customer |-> Blank, at |-> now]}]

\* UPDATE users.
WithUsers(db, Where(_), With(_)) == [db EXCEPT !.users = Changed(@, Where, With)]
UpdateUserProfile(db, id, text) == WithUsers(db, LAMBDA u : u.id = id, LAMBDA u : [u EXCEPT !.text = text])
UpdateUserTier(db, id, tier) == WithUsers(db, LAMBDA u : u.id = id, LAMBDA u : [u EXCEPT !.tier = tier])
UpdateUserRole(db, id, role) == WithUsers(db, LAMBDA u : u.id = id, LAMBDA u : [u EXCEPT !.role = role])
SetUserAdmin(db, id, admin) == WithUsers(db, LAMBDA u : u.id = id, LAMBDA u : [u EXCEPT !.admin = admin])
UpdateStripeCustomer(db, id, customer) ==
  WithUsers(db, LAMBDA u : u.id = id, LAMBDA u : [u EXCEPT !.customer = customer])
UpdateUserTierByStripeCustomer(db, customer, tier) ==
  WithUsers(db, LAMBDA u : u.customer = customer, LAMBDA u : [u EXCEPT !.tier = tier])

GetUserByEmail(db, email) == {u \in db.users : u.email = Lowered(email)}
GetUserByID(db, id) == {u \in db.users : u.id = id}
GetUserByAuthIdentity(db, provider, subject) ==
  {u \in db.users : \E i \in db.identities : i.provider = provider /\ i.subject = subject /\ i.user = u.id}

\* The identity moves to the user who shows it; an error when that user has
\* another one of the provider.
UpsertUserAuthIdentity(db, id, provider, subject) ==
  LET row == [user |-> id, provider |-> provider, subject |-> subject]
  IN IF \E i \in db.identities : i.user = id /\ i.provider = provider /\ i.subject # subject THEN db
     ELSE [db EXCEPT !.identities = Upserted(@, row, LAMBDA i : i.provider = provider /\ i.subject = subject, LAMBDA i : row)]

ListUserAuthMethods(db, id) ==
  IF GetUserByID(db, id) = {} THEN {}
  ELSE (IF \E u \in GetUserByID(db, id) : u.hash = "$2" THEN {"email_password"} ELSE {})
         \cup {i.provider : i \in {j \in db.identities : j.user = id}}

ListUsersWithStripeCustomerIDs(db) == {u \in db.users : u.customer # Blank}

-----------------------------------------------------------------------------
(* Logs.                                                                    *)

RecordAIUsage(db, now, id, tokens, success) ==
  Appended(db, "usage", [id |-> 0, user |-> id, tokens |-> tokens, success |-> success, at |-> now])

UsageStats(rows) == [calls |-> Cardinality(rows), tokens |-> SumOf({<<r.id, r.tokens>> : r \in rows}),
                     failed |-> Cardinality({r \in rows : ~r.success})]
GetAIUsageStats(db, now, days) == UsageStats({r \in db.usage : Within(r.at, now, days)})
\* Below the limit of 500, all of them.
GetAIUsageTimeline(db, now, days) == {<<r.id, r.user, r.tokens>> : r \in {e \in db.usage : Within(e.at, now, days)}}
GetUserAIUsageStats(db, now, id, days) == UsageStats({r \in db.usage : r.user = id /\ Within(r.at, now, days)})

ListAllUsers(db) ==
  LET of(table, u) == {r \in db[table] : r.user = u.id}
  IN {[user |-> u, missions |-> Cardinality(of("missions", u)), searches |-> Cardinality(of("searches", u)),
       usage |-> UsageStats(of("usage", u)).tokens] : u \in db.users}

RecordSearchRun(db, now, run) ==
  Appended(db, "runs", [id |-> 0, user |-> run.user, status |-> run.status, code |-> run.code, country |-> run.country, at |-> now])

\* A run without a country counts as "unknown".
searchOpsBreakdown(rows, Column(_)) ==
  LET key(r) == IF Column(r) = Blank THEN "unknown" ELSE Column(r)
  IN {<<k, Cardinality({r \in rows : key(r) = k})>> : k \in {key(r) : r \in rows}}
GetSearchOpsStats(db, now, days) ==
  LET rows == {r \in db.runs : Within(r.at, now, days)}
  IN [total |-> Cardinality(rows), success |-> Cardinality({r \in rows : r.status = "success"}),
      failed |-> Cardinality({r \in rows : r.code \notin {Blank, "out_of_scope"}}),
      byStatus |-> searchOpsBreakdown(rows, LAMBDA r : r.status),
      byCountry |-> searchOpsBreakdown(rows, LAMBDA r : r.country)]

\* Names of what is gone are empty.
ListSearchRuns(db, now, days, status) ==
  {[run |-> r, email |-> {u.email : u \in GetUserByID(db, r.user)}] :
     r \in {e \in db.runs : Within(e.at, now, days) /\ status \in {Blank, e.status}}}

RecordAdminAuditLog(db, now, actor, action) ==
  Appended(db, "audit", [id |-> 0, actor |-> actor, action |-> action, at |-> now])
ListAdminAuditLog(db) == {<<r.id, r.actor, r.action>> : r \in db.audit}

-----------------------------------------------------------------------------
(* What is kept of Stripe.                                                  *)

RecordStripeEvent(db, event) == [db EXCEPT !.events = InsertedOnce(@, event, LAMBDA e : e = event)]
RecordStripeProcessedEvent(db, event) ==
  IF event = Blank THEN db ELSE [db EXCEPT !.processed = InsertedOnce(@, event, LAMBDA e : e = event)]
\* Whether the insert took place.
ProcessedAnew(db, event) == event # Blank /\ event \notin db.processed

UpsertStripeWebhookEvent(db, now, w) ==
  LET attempts == IF w.attempts = 0 THEN 1 ELSE w.attempts
      row == [event |-> w.event, status |-> w.status, attempts |-> attempts, at |-> now]
  IN [db EXCEPT !.webhooks = Upserted(@, row, LAMBDA r : r.event = w.event, LAMBDA r :
       [row EXCEPT !.attempts = IF attempts > r.attempts THEN attempts ELSE r.attempts])]

UpsertStripeSubscriptionSnapshot(db, now, s) ==
  LET row == [sub |-> s.sub, customer |-> s.customer, user |-> s.user, status |-> s.status, yearly |-> s.yearly,
              amount |-> s.amount, currency |-> s.currency, invoice |-> s.invoice, at |-> now]
  IN [db EXCEPT !.snapshots = Upserted(@, row, LAMBDA r : r.sub = s.sub, LAMBDA r : row)]
GetStripeSubscriptionSnapshot(db, sub) == {s \in db.snapshots : s.sub = sub}

AppendStripeSubscriptionHistory(db, now, sub, type, status) ==
  Appended(db, "history", [id |-> 0, sub |-> sub, type |-> type, status |-> status, at |-> now])

\* at: when the invoice was first heard of.
UpsertStripeInvoiceSummary(db, now, i) ==
  LET row == [invoice |-> i.invoice, user |-> i.user, paid |-> i.paid, amount |-> i.amount, remaining |-> i.remaining,
              currency |-> i.currency, at |-> now]
  IN [db EXCEPT !.invoices = Upserted(@, row, LAMBDA r : r.invoice = i.invoice, LAMBDA r : [row EXCEPT !.at = r.at])]

RecordStripeMutation(db, key, actor, status) ==
  LET row == [key |-> key, actor |-> actor, status |-> status]
  IN [db EXCEPT !.mutations = Upserted(@, row, LAMBDA r : r.key = key, LAMBDA r : row)]

StartBillingReconcileRun(db, now, by) ==
  Appended(db, "reconciles", [id |-> 0, by |-> by, status |-> "running", at |-> now, done |-> 0])
FinishBillingReconcileRun(db, now, id, status) ==
  [db EXCEPT !.reconciles = Changed(@, LAMBDA r : r.id = id, LAMBDA r : [r EXCEPT !.status = status, !.done = now])]
GetLatestBusinessReconcileRun(db) == Latest(db.reconciles, LAMBDA r : r.at)

-----------------------------------------------------------------------------
(* Reports.                                                                 *)

subscriptionIsPaidActive(status) == status \in {"active", "trialing", "past_due", "unpaid"}
\* In hundredths of a cent.
amountToEUR(amount, currency) ==
  amount * (CASE currency = "USD" -> 92 [] currency = "GBP" -> 116 [] currency = "BGN" -> 51
              [] currency = "DKK" -> 13 [] OTHER -> 100)

RevenueOf(rows) == SumOf({<<i.invoice, amountToEUR(i.amount, i.currency)>> : i \in rows})
Paid(db) == {i \in db.invoices : i.paid}
sumPaidRevenueInWindow(db, now, days) == RevenueOf({i \in Paid(db) : Within(i.at, now, days)})
sumPaidRevenueRange(db, now, from, to) ==
  RevenueOf({i \in Paid(db) : Within(i.at, now, from) /\ ~Within(i.at, now, to)})

GetBusinessRevenue(db, now, days) ==
  LET rows == {i \in Paid(db) : Within(i.at, now, days)}
      bucket(i) == <<i.at \div 2, i.currency>>
      in(b) == {i \in rows : bucket(i) = b}
  IN {[day |-> b[1], currency |-> b[2], amount |-> SumOf({<<i.invoice, i.amount>> : i \in in(b)}),
       invoices |-> Cardinality(in(b))] : b \in {bucket(i) : i \in rows}}

Unpaid(db, now, days) == {i \in db.invoices : ~i.paid /\ i.remaining > 0 /\ Within(i.at, now, days)}
Churned(db, now, days) ==
  {h \in db.history : Within(h.at, now, days) /\ (h.status \in {"canceled", "incomplete_expired"} \/ h.type = "deleted")}
\* A year's amounts count a twelfth a month.
Monthly(s) == amountToEUR(IF s.yearly THEN s.amount \div 12 ELSE s.amount, s.currency)

GetBusinessOverview(db, now, days) ==
  LET active == {s \in db.snapshots : subscriptionIsPaidActive(s.status)}
  IN [subscriptions |-> Cardinality(db.snapshots), active |-> Cardinality(active),
      accounts |-> Cardinality({s.customer : s \in active} \ {Blank}),
      mrr |-> SumOf({<<s.sub, Monthly(s)>> : s \in active}),
      failed |-> Cardinality(Unpaid(db, now, days)),
      recent |-> sumPaidRevenueInWindow(db, now, days), previous |-> sumPaidRevenueRange(db, now, 2 * days, days),
      churned |-> Cardinality(Churned(db, now, days)),
      webhookLag |-> {now - w.at : w \in Latest(db.webhooks, LAMBDA w : w.at)},
      reconcileLag |-> {now - (IF r.done > 0 THEN r.done ELSE r.at) : r \in GetLatestBusinessReconcileRun(db)}]

\* A unit of time is longer than either lag may be.
GetBusinessAlerts(db, now, days) ==
  LET o == GetBusinessOverview(db, now, days)
  IN (IF Cardinality(Unpaid(db, now, 1)) >= 3 THEN {"failed_payments_spike"} ELSE {})
     \cup (IF o.churned > 0 /\ o.churned * 100 >= 10 * (o.accounts + o.churned) THEN {"churn_spike"} ELSE {})
     \cup (IF \E lag \in o.webhookLag : lag > 0 THEN {"webhook_lag"} ELSE {})
     \cup (IF \E lag \in o.reconcileLag : lag > 0 THEN {"reconcile_lag"} ELSE {})

ListBusinessSubscriptions(db, status) ==
  {[snapshot |-> s, email |-> {u.email : u \in GetUserByID(db, s.user)},
    invoice |-> {<<i.paid, i.amount, i.remaining>> : i \in {j \in db.invoices : j.invoice = s.invoice}}] :
     s \in {r \in db.snapshots : status \in {Blank, r.status}}}

GetBusinessFunnel(db, now, days) ==
  LET signups == {u \in db.users : Within(u.at, now, days)}
  IN [signups |-> Cardinality(signups),
      activated |-> Cardinality({u \in signups : \E r \in db.missions \cup db.searches : r.user = u.id}),
      paid |-> Cardinality({u \in signups :
                 \E s \in db.snapshots : s.user = u.id /\ subscriptionIsPaidActive(s.status)})]

\* A user counts once for each subscription, or once.  The months are those
\* that begin at most that long ago, the latest first.
GetBusinessCohorts(db, now, months) ==
  LET users == {u \in db.users : u.at + 8 * months >= now}
      subs(u) == {s \in db.snapshots : s.user = u.id}
      joined == UNION {{<<u, {s}>> : s \in subs(u)} \cup (IF subs(u) = {} THEN {<<u, {}>>} ELSE {}) : u \in users}
      paidAfter(u, m) == \E i \in Paid(db) : i.user = u.id /\ Month(i.at) = Month(u.at) + m
      ended(in, ages) == {p \in in : \E s \in p[2] : s.status \in {"canceled", "incomplete_expired"} /\ s.at - p[1].at \in ages}
      row(m) == LET in == {p \in joined : Month(p[1].at) = m}
                IN [month |-> m, users |-> Cardinality(in),
                    paid |-> [k \in 0..2 |-> Cardinality({p \in in : paidAfter(p[1], k)})],
                    churned |-> <<Cardinality(ended(in, 0..8)), Cardinality(ended(in, 9..24)), Cardinality(ended(in, Nat \ (0..24)))>>]
      all == {Month(u.at) : u \in users}
  IN {row(m) : m \in {n \in all : Cardinality({k \in all : k > n}) < months}}
=============================================================================
