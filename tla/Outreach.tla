------------------------------ MODULE Outreach ------------------------------
(***************************************************************************)
(* Outreach threads (internal/api/outreach.go, internal/outreach and        *)
(* internal/store/outreach_threads.go): the two handlers that write a       *)
(* thread, the four reads that show it, and the hourly job that lets it go  *)
(* stale, over the store's two implementations.  A request issues its    *)
(* database calls one by one and others come in between; Postgres upserts   *)
(* in one statement, SQLite reads first and then updates or inserts.        *)
(*                                                                         *)
(* A draft stands for its text, shape, language and mission.                *)
(***************************************************************************)
EXTENDS Naturals, FiniteSets

CONSTANTS
  Threads,        \* (user, listing, marketplace) triples
  Drafts,
  Replies,        \* reply texts
  Callers,        \* requests being served at once
  Cutoff          \* units of time after which a thread is stale (7 days)

ASSUME CutoffAssumption == Cutoff \in Nat

VARIABLES
  backend,        \* which store the process was started with
  thread,         \* the table outreach_threads
  call,           \* what each request is doing
  read            \* the state each thread was in when last read for its user

outreachVars == <<backend, thread, call, read>>

NoThread == [state |-> "none"]
NoCall == [at |-> "idle"]

OutreachInit ==
  /\ backend \in {"postgres", "sqlite"}
  /\ thread = [t \in Threads |-> NoThread]
  /\ call = [r \in Callers |-> NoCall]
  /\ read = [t \in Threads |-> "none"]

\* age: time since last_state_transition_at.
NewThread(draft) == [state |-> "awaiting_reply", draft |-> draft, age |-> 0, reply |-> "none"]

\* A row as a request answers it.
AnswerThread(r, t, row) ==
  /\ call' = [call EXCEPT ![r] = NoCall]
  /\ read' = [read EXCEPT ![t] = row.state]

GoOn(r, at) == call' = [call EXCEPT ![r].at = at] /\ UNCHANGED read

-----------------------------------------------------------------------------
(* POST /outreach/sent.                                                     *)

\* The body is valid: every field present and from its list.
handleOutreachSent(r, t, draft) ==
  /\ call[r] = NoCall
  /\ call' = [call EXCEPT ![r] = [at |-> "sent", thread |-> t, draft |-> draft]]
  /\ UNCHANGED <<backend, thread, read>>

\* Fault: sending again opens the thread again.
ReopenedRow(row, draft) == [row EXCEPT !.draft = draft, !.state = "awaiting_reply", !.age = 0]
\* Neither the state nor the time of its last change follow a new draft.
ResentRow(row, draft) == [row EXCEPT !.draft = draft]

\* Fault: the statement's CASE on the state is gone.
PostgresRowUnguarded(row, draft) ==
  IF row = NoThread THEN NewThread(draft) ELSE ResentRow(row, draft)
PostgresRow(row, draft) ==
  CASE row = NoThread -> NewThread(draft)
    [] row.state = "replied" -> row
    [] OTHER -> ResentRow(row, draft)

PostgresUpsertThreadOnSent(r) ==
  /\ backend = "postgres" /\ call[r].at = "sent"
  /\ LET t == call[r].thread
         row == PostgresRow(thread[t], call[r].draft)
     IN thread' = [thread EXCEPT ![t] = row] /\ AnswerThread(r, t, row)
  /\ UNCHANGED backend

\* SQLite looks at the thread first ...
SQLiteLookUp(r) ==
  /\ backend = "sqlite" /\ call[r].at = "sent"
  /\ LET row == thread[call[r].thread]
     IN CASE row = NoThread -> GoOn(r, "insert")
          [] row.state = "replied" -> AnswerThread(r, call[r].thread, row)
          [] OTHER -> GoOn(r, "update")
  /\ UNCHANGED <<backend, thread>>

\* ... and then writes what it saw fit.  A second insert hits the unique index:
\* the request ends with 500.
SQLiteUpsertThreadOnSent(r) ==
  /\ LET t == call[r].thread
         draft == call[r].draft
     IN \/ /\ call[r].at = "insert" /\ thread[t] = NoThread
           /\ thread' = [thread EXCEPT ![t] = NewThread(draft)]
           /\ GoOn(r, "reread")
        \/ /\ call[r].at = "insert" /\ thread[t] # NoThread
           /\ call' = [call EXCEPT ![r] = NoCall]
           /\ UNCHANGED <<thread, read>>
        \/ /\ call[r].at = "update"
           /\ thread' = [thread EXCEPT ![t] = ResentRow(thread[t], draft)]
           /\ GoOn(r, "reread")
  /\ UNCHANGED backend

\* Its writes end with a read of the row.
SQLiteReread(r) ==
  /\ call[r].at = "reread"
  /\ AnswerThread(r, call[r].thread, thread[call[r].thread])
  /\ UNCHANGED <<backend, thread>>

-----------------------------------------------------------------------------
(* POST /outreach/replied.                                                  *)

\* Fault: only a replied thread is refused.
RepliedUnlessConflict(r, t, reply) ==
  /\ call[r] = NoCall /\ thread[t].state # "replied"
  /\ call' = [call EXCEPT ![r] = [at |-> "reply", thread |-> t, reply |-> reply]]
  /\ UNCHANGED <<backend, thread, read>>

\* 404 without a thread, 409 when it is replied; otherwise the handler goes on
\* with what it has just read.
handleOutreachReplied(r, t, reply) ==
  /\ call[r] = NoCall
  /\ thread[t].state \in {"awaiting_reply", "stale"}
  /\ call' = [call EXCEPT ![r] = [at |-> "reply", thread |-> t, reply |-> reply]]
  /\ UNCHANGED <<backend, thread, read>>

\* The update itself does not look at the state.
RepliedRow(row, reply) == [row EXCEPT !.state = "replied", !.reply = reply, !.age = 0]

PostgresMarkReplied(r) ==
  /\ backend = "postgres" /\ call[r].at = "reply"
  /\ LET t == call[r].thread
         row == RepliedRow(thread[t], call[r].reply)
     IN thread' = [thread EXCEPT ![t] = row] /\ AnswerThread(r, t, row)
  /\ UNCHANGED backend

SQLiteMarkReplied(r) ==
  /\ backend = "sqlite" /\ call[r].at = "reply"
  /\ LET t == call[r].thread
     IN thread' = [thread EXCEPT ![t] = RepliedRow(thread[t], call[r].reply)]
  /\ GoOn(r, "reread")
  /\ UNCHANGED backend

-----------------------------------------------------------------------------
(* The reads: one thread, the threads of a user (or of one mission), and    *)
(* the states the listings feed is decorated with.  Each is one query, and  *)
(* what it does not find it does not show.                                  *)

ReadThreads(some) ==
  /\ some # {}
  /\ read' = [t \in Threads |-> IF t \in some THEN thread[t].state ELSE read[t]]
  /\ UNCHANGED <<backend, thread, call>>

ExistingThreads == {t \in Threads : thread[t] # NoThread}

handleOutreachThreadByListing(t) == t \in ExistingThreads /\ ReadThreads({t})
handleOutreachThreads == ReadThreads(ExistingThreads)
ListThreadStatesForListings(keys) == ReadThreads(keys \cap ExistingThreads)

-----------------------------------------------------------------------------
(* Time.                                                                    *)

OldThread(t) == thread[t].state = "awaiting_reply" /\ thread[t].age > Cutoff

\* Time passes; past the cutoff it no longer matters how much.
ThreadsAge ==
  /\ \E t \in ExistingThreads : thread[t].age <= Cutoff
  /\ thread' = [t \in Threads |->
       IF t \in ExistingThreads /\ thread[t].age <= Cutoff
         THEN [thread[t] EXCEPT !.age = @ + 1] ELSE thread[t]]
  /\ UNCHANGED <<backend, call, read>>

\* Every run of the job lets all old threads lapse, in one statement; a run
\* that fails leaves them to the next.
TransitionStaleThreads ==
  /\ \E t \in Threads : OldThread(t)
  /\ thread' = [t \in Threads |->
       IF OldThread(t) THEN [thread[t] EXCEPT !.state = "stale", !.age = 0] ELSE thread[t]]
  /\ UNCHANGED <<backend, call, read>>

ServeThread(r) ==
  \/ PostgresUpsertThreadOnSent(r) \/ PostgresMarkReplied(r)
  \/ SQLiteLookUp(r) \/ SQLiteUpsertThreadOnSent(r) \/ SQLiteMarkReplied(r) \/ SQLiteReread(r)

OutreachNext ==
  \/ \E r \in Callers, t \in Threads :
       \/ \E draft \in Drafts : handleOutreachSent(r, t, draft)
       \/ \E reply \in Replies : handleOutreachReplied(r, t, reply)
  \/ \E r \in Callers : ServeThread(r)
  \/ \E t \in Threads : handleOutreachThreadByListing(t)
  \/ \E keys \in SUBSET Threads : ListThreadStatesForListings(keys)
  \/ handleOutreachThreads
  \/ ThreadsAge
  \/ TransitionStaleThreads

\* Time passes, and the scheduler's ticker runs as long as the server does.
OutreachFairness == WF_outreachVars(ThreadsAge) /\ WF_outreachVars(TransitionStaleThreads)

OutreachSpec == OutreachInit /\ [][OutreachNext]_outreachVars /\ OutreachFairness

-----------------------------------------------------------------------------
(* Properties.                                                              *)

ThreadRow == [state : {"awaiting_reply", "stale", "replied"}, draft : Drafts,
        age : 0..(Cutoff + 1), reply : Replies \cup {"none"}]

OutreachTypeOK ==
  /\ backend \in {"postgres", "sqlite"}
  /\ thread \in [Threads -> ThreadRow \cup {NoThread}]
  /\ call \in [Callers ->
       {NoCall}
       \cup [at : {"sent", "insert", "update", "reread"}, thread : Threads, draft : Drafts]
       \cup [at : {"reply", "reread"}, thread : Threads, reply : Replies]]
  /\ read \in [Threads -> {"none", "awaiting_reply", "stale", "replied"}]
  /\ \A r \in Callers :
       call[r].at \in {"update", "reply", "reread"} => thread[call[r].thread] # NoThread

\* The table implements the lifecycle whatever requests overlap and whichever
\* store serves them: sending again never reopens a thread, the job never
\* takes a reply back, and a thread that nobody answers goes stale in the end.
ThreadStates == [t \in Threads |-> thread[t].state]
Lifecycle == INSTANCE OutreachLifecycle WITH state <- ThreadStates
ImplementsLifecycle == Lifecycle!Spec

\* A reply is final.  Once a thread was read as replied, by any of the
\* endpoints, no later read by any other finds it waiting; and on Postgres no
\* resend, however late it lands, changes the draft that was answered.  (On
\* SQLite one that looked at the thread before the reply does.)
ReplyIsFinal ==
  [][\A t \in Threads :
       /\ read[t] = "replied" => read'[t] = "replied"
       /\ backend = "postgres" /\ thread[t].state = "replied" => thread'[t].draft = thread[t].draft
    ]_outreachVars

=============================================================================
