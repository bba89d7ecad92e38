SPECIFICATION TablesSpec
CONSTANTS
  Users = {u, v}
  Items = {1, 2}
  Finds <- MCFinds
  Samples <- MCSamples
  Enough = 2
  SessionDrafts = {"none", "draft"}
  Emails <- MCEmails
  Subscriptions <- MCSubscriptions
  Invoices <- MCInvoices
  MaxWrites = 3
  MaxEntries = 2
  Threads = {a}
  Drafts = {d1, d2}
  Replies = {r1, r2}
  Callers = {p, q}
  Cutoff = 1
CHECK_DEADLOCK FALSE
INVARIANTS StoresTypeOK StoresAgree PagesCover BooksAgree ReportsAddUp OutreachTypeOK
PROPERTIES UsersApart UserChoicesKept DeletedMissionEmptied ImplementsLifecycle ReplyIsFinal
