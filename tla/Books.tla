-------------------------------- MODULE Books --------------------------------
(***************************************************************************)
(* The second half of store.Store, on both implementations as in Stores:    *)
(* accounts, logs, Stripe's tables and the owner's reports.                 *)
(***************************************************************************)
EXTENDS Stores

CONSTANTS Emails,         \* <<address, as typed>>
          Subscriptions,  \* what Stripe says of one: [sub, customer, status, yearly, amount, currency, invoice]
          Invoices,       \* [invoice, paid, amount, remaining, currency]
          MaxEntries      \* writes of a behaviour for the books (bound)

\* Reports are sums over the users there are, of what Stripe was paid.
ASSUME BooksAssumption == IsFiniteSet(Users) /\ \A i \in Invoices : i.amount \in Nat

SQLiteB == INSTANCE SQLiteBooks
PostgresB == INSTANCE PostgresBooks

Known(u) == SQLiteB!GetUserByID(sqlite, u) # {}
\* Days pass after a write, or a month.
Writing(u, s, p) == Writes("books", MaxEntries, {3, 8}, u, s, p)
Entered(u, s, p) == Known(u) /\ Writing(u, s, p)

\* There is one account.
BooksInit ==
  /\ area = "books" /\ now = 0 /\ writes = 0 /\ by = (CHOOSE u \in Users : TRUE) /\ newcomers = {}
  /\ sqlite = SQLiteB!CreateUser(EmptyDb, 0, by, CHOOSE e \in Emails : TRUE, "$2")
  /\ postgres = PostgresB!CreateUser(EmptyDb, 0, by, CHOOSE e \in Emails : TRUE, "$2")

\* Registered, or first seen with Google; the id is random.
CreateUser(u) ==
  /\ ~Known(u)
  /\ \E email \in Emails, hash \in {"$2", "google"} :
       Writing(u, SQLiteB!CreateUser(sqlite, now, u, email, hash), PostgresB!CreateUser(postgres, now, u, email, hash))

LinkIdentity(u) ==
  \E subject \in {"s", "t"} :
    Entered(u, SQLiteB!UpsertUserAuthIdentity(sqlite, u, "google", subject),
          PostgresB!UpsertUserAuthIdentity(postgres, u, "google", subject))

UpdateUser(u) ==
  \/ Entered(u, SQLiteB!UpdateUserProfile(sqlite, u, "new"), PostgresB!UpdateUserProfile(postgres, u, "new"))
  \/ Entered(u, SQLiteB!UpdateUserTier(sqlite, u, "pro"), PostgresB!UpdateUserTier(postgres, u, "pro"))
  \/ Entered(u, SQLiteB!UpdateUserRole(sqlite, u, "operator"), PostgresB!UpdateUserRole(postgres, u, "operator"))
  \/ Entered(u, SQLiteB!SetUserAdmin(sqlite, u, TRUE), PostgresB!SetUserAdmin(postgres, u, TRUE))
  \/ Entered(u, SQLiteB!UpdateStripeCustomer(sqlite, u, "cus"), PostgresB!UpdateStripeCustomer(postgres, u, "cus"))
  \/ Entered(u, SQLiteB!UpdateUserTierByStripeCustomer(sqlite, "cus", "power"),
           PostgresB!UpdateUserTierByStripeCustomer(postgres, "cus", "power"))

\* A first mission activates an account.
StartMission(u) ==
  LET m == [id |-> 0, user |-> u, text |-> "new", status |-> "active", active |-> TRUE]
  IN Entered(u, SQLite!UpsertMission(sqlite, now, m), Postgres!UpsertMission(postgres, now, m))

\* The scorer's and the assistant's calls are booked for their user, and those
\* of an anonymous analysis, whose search has no user, for nobody.
RecordAIUsage(u) ==
  \E ok \in BOOLEAN :
    \/ Entered(u, SQLiteB!RecordAIUsage(sqlite, now, u, 3, ok), PostgresB!RecordAIUsage(postgres, now, u, 3, ok))
    \/ Writing(u, SQLiteB!RecordAIUsage(sqlite, now, Blank, 3, ok), PostgresB!RecordAIUsage(postgres, now, Blank, 3, ok))

\* The ends RunTask reports.
RecordSearchRun(u) ==
  \E end \in {<<"success", Blank>>, <<"search_failed", "search_failed">>, <<"out_of_scope", "out_of_scope">>}, country \in {Blank, "NL"} :
    LET run == [user |-> u, status |-> end[1], code |-> end[2], country |-> country]
    IN Entered(u, SQLiteB!RecordSearchRun(sqlite, now, run), PostgresB!RecordSearchRun(postgres, now, run))

RecordAdminAction(u) ==
  \/ Entered(u, SQLiteB!RecordAdminAuditLog(sqlite, now, u, "tier"), PostgresB!RecordAdminAuditLog(postgres, now, u, "tier"))
  \/ \E status \in {"pending", "done"} :
       Entered(u, SQLiteB!RecordStripeMutation(sqlite, "key", u, status), PostgresB!RecordStripeMutation(postgres, "key", u, status))

HearOfEvent(u) ==
  \/ \E e \in {Blank, "e"} : Entered(u, SQLiteB!RecordStripeProcessedEvent(sqlite, e), PostgresB!RecordStripeProcessedEvent(postgres, e))
  \/ Entered(u, SQLiteB!RecordStripeEvent(sqlite, "e"), PostgresB!RecordStripeEvent(postgres, "e"))
  \/ \E n \in 0..2 : LET w == [event |-> "e", status |-> "received", attempts |-> n]
       IN Entered(u, SQLiteB!UpsertStripeWebhookEvent(sqlite, now, w), PostgresB!UpsertStripeWebhookEvent(postgres, now, w))

HearOfSubscription(u) ==
  \E s \in Subscriptions :
    \/ LET row == [sub |-> s.sub, customer |-> s.customer, user |-> u, status |-> s.status, yearly |-> s.yearly,
                   amount |-> s.amount, currency |-> s.currency, invoice |-> s.invoice]
       IN Entered(u, SQLiteB!UpsertStripeSubscriptionSnapshot(sqlite, now, row),
                PostgresB!UpsertStripeSubscriptionSnapshot(postgres, now, row))
    \/ Entered(u, SQLiteB!AppendStripeSubscriptionHistory(sqlite, now, s.sub, "updated", s.status),
             PostgresB!AppendStripeSubscriptionHistory(postgres, now, s.sub, "updated", s.status))

HearOfInvoice(u) ==
  \E i \in Invoices :
    LET row == [invoice |-> i.invoice, user |-> u, paid |-> i.paid, amount |-> i.amount, remaining |-> i.remaining, currency |-> i.currency]
    IN Entered(u, SQLiteB!UpsertStripeInvoiceSummary(sqlite, now, row), PostgresB!UpsertStripeInvoiceSummary(postgres, now, row))

\* Hourly, and on request.
Reconcile(u) ==
  \/ Entered(u, SQLiteB!StartBillingReconcileRun(sqlite, now, "schedule"), PostgresB!StartBillingReconcileRun(postgres, now, "schedule"))
  \/ \E r \in sqlite.reconciles :
       Entered(u, SQLiteB!FinishBillingReconcileRun(sqlite, now, r.id, "success"),
             PostgresB!FinishBillingReconcileRun(postgres, now, r.id, "success"))

BooksNext ==
  \E u \in Users :
    \/ CreateUser(u) \/ LinkIdentity(u) \/ UpdateUser(u) \/ StartMission(u)
    \/ RecordAIUsage(u) \/ RecordSearchRun(u) \/ RecordAdminAction(u)
    \/ HearOfEvent(u) \/ HearOfSubscription(u) \/ HearOfInvoice(u) \/ Reconcile(u)

BothSpec == (StoresInit \/ BooksInit) /\ [][StoresNext \/ BooksNext]_storesVars

-----------------------------------------------------------------------------
(* Properties.                                                              *)

SQLiteReports(days) == [
  lists |-> <<SQLiteB!ListAllUsers(sqlite), SQLiteB!ListUsersWithStripeCustomerIDs(sqlite), SQLiteB!ListAdminAuditLog(sqlite),
              SQLiteB!GetAIUsageTimeline(sqlite, now, days), {SQLiteB!ListBusinessSubscriptions(sqlite, s) : s \in {Blank, "active"}}>>,
  accounts |-> {<<u, SQLiteB!GetUserByID(sqlite, u), SQLiteB!ListUserAuthMethods(sqlite, u),
                  SQLiteB!GetUserAIUsageStats(sqlite, now, u, days)>> : u \in Users},
  found |-> <<{SQLiteB!GetUserByEmail(sqlite, e) : e \in Emails}, SQLiteB!GetUserByAuthIdentity(sqlite, "google", "s"),
              {SQLiteB!GetStripeSubscriptionSnapshot(sqlite, s.sub) : s \in Subscriptions}, SQLiteB!ProcessedAnew(sqlite, "e")>>,
  business |-> <<SQLiteB!GetBusinessOverview(sqlite, now, days), SQLiteB!GetBusinessRevenue(sqlite, now, days),
                 SQLiteB!GetBusinessFunnel(sqlite, now, days), SQLiteB!GetBusinessAlerts(sqlite, now, days),
                 SQLiteB!GetBusinessCohorts(sqlite, now, days), SQLiteB!GetAIUsageStats(sqlite, now, days)>>]

PostgresReports(days) == [
  lists |-> <<PostgresB!ListAllUsers(postgres), PostgresB!ListUsersWithStripeCustomerIDs(postgres), PostgresB!ListAdminAuditLog(postgres),
              PostgresB!GetAIUsageTimeline(postgres, now, days), {PostgresB!ListBusinessSubscriptions(postgres, s) : s \in {Blank, "active"}}>>,
  accounts |-> {<<u, PostgresB!GetUserByID(postgres, u), PostgresB!ListUserAuthMethods(postgres, u),
                  PostgresB!GetUserAIUsageStats(postgres, now, u, days)>> : u \in Users},
  found |-> <<{PostgresB!GetUserByEmail(postgres, e) : e \in Emails}, PostgresB!GetUserByAuthIdentity(postgres, "google", "s"),
              {PostgresB!GetStripeSubscriptionSnapshot(postgres, s.sub) : s \in Subscriptions}, PostgresB!ProcessedAnew(postgres, "e")>>,
  business |-> <<PostgresB!GetBusinessOverview(postgres, now, days), PostgresB!GetBusinessRevenue(postgres, now, days),
                 PostgresB!GetBusinessFunnel(postgres, now, days), PostgresB!GetBusinessAlerts(postgres, now, days),
                 PostgresB!GetBusinessCohorts(postgres, now, days), PostgresB!GetAIUsageStats(postgres, now, days)>>]

\* The books agree: accounts, logs and reports read the same from both
\* stores.  Only the window of the search runs differs: SQLite's reaches back
\* further, by less than a day.
BooksAgree ==
  \A days \in 1..2 :
    /\ SQLiteReports(days) = PostgresReports(days)
    /\ PostgresB!ListSearchRuns(postgres, now, days, Blank) \subseteq SQLiteB!ListSearchRuns(sqlite, now, days, Blank)
    /\ SQLiteB!ListSearchRuns(sqlite, now, days, Blank) \subseteq PostgresB!ListSearchRuns(postgres, now, days + 1, Blank)
    /\ SQLiteB!GetSearchOpsStats(sqlite, now, days).total <= PostgresB!GetSearchOpsStats(postgres, now, days + 1).total

\* Reports add up: what two of them say of the same rows is the same. The
\* points of the revenue chart sum to the overview's figure, every run has one
\* status and one country, every subscription has one line, the usage of the
\* users and of the anonymous analyses, which no user's report shows, sums to
\* the total, and no funnel step is wider than the one it starts from.
ReportsAddUp ==
  \A days \in 1..2 :
    LET o == SQLiteB!GetBusinessOverview(sqlite, now, days)
        funnel == SQLiteB!GetBusinessFunnel(sqlite, now, days)
        runs == SQLiteB!GetSearchOpsStats(sqlite, now, days)
    IN /\ SumOf({<<p, SQLiteB!amountToEUR(p.amount, p.currency)>> : p \in SQLiteB!GetBusinessRevenue(sqlite, now, days)}) = o.recent
       /\ o.recent + o.previous = SQLiteB!sumPaidRevenueInWindow(sqlite, now, 2 * days)
       /\ o.accounts <= o.active
       /\ Cardinality(SQLiteB!ListBusinessSubscriptions(sqlite, Blank)) = o.subscriptions
       /\ SumOf(runs.byStatus) = runs.total /\ SumOf(runs.byCountry) = runs.total
       /\ runs.success + runs.failed <= runs.total
       /\ SumOf({<<u, SQLiteB!GetUserAIUsageStats(sqlite, now, u, days).tokens>> : u \in Users \cup {Blank}})
            = SQLiteB!GetAIUsageStats(sqlite, now, days).tokens
       /\ funnel.activated <= funnel.signups /\ funnel.paid <= funnel.signups
=============================================================================
