------------------------ MODULE InterleavingProofs -------------------------
(***************************************************************************)
(* Proofs about the two parts whose steps interleave call by call.          *)
(* Outreach keeps its types, implements OutreachLifecycle step by step, and *)
(* never takes a reply back, for any threads, drafts, texts, requests and   *)
(* cutoff, over either store.  SearchDispatch keeps its semaphores and its  *)
(* announcements in order for any searches, owners, marketplaces, capacities *)
(* and number of overlapping passes.                                        *)
(***************************************************************************)
EXTENDS Outreach, SearchDispatch, FiniteSetTheorems, TLAPS

-----------------------------------------------------------------------------
(* The outreach threads.                                                    *)

SentCall == [at : {"sent", "insert", "update", "reread"}, thread : Threads, draft : Drafts]
ReplyCall == [at : {"reply", "reread"}, thread : Threads, reply : Replies]

\* A thread exists exactly when its state is one of the three.
LEMMA RowStates ==
  ASSUME OutreachTypeOK, NEW t \in Threads
  PROVE  /\ thread[t] = NoThread <=> thread[t].state = "none"
         /\ thread[t] # NoThread => thread[t] \in ThreadRow
         /\ thread[t].state \in {"none", "awaiting_reply", "stale", "replied"}
<1>1. thread[t] \in ThreadRow \cup {NoThread}
  BY DEF OutreachTypeOK
<1>2. CASE thread[t] \in ThreadRow
  BY <1>2 DEF ThreadRow, NoThread
<1>3. CASE thread[t] = NoThread
  BY <1>3 DEF NoThread, ThreadRow
<1> QED
  BY <1>1, <1>2, <1>3

\* What a request holds follows from the step it is at.
LEMMA CallKinds ==
  ASSUME OutreachTypeOK, NEW r \in Callers
  PROVE  /\ call[r].at \in {"sent", "insert", "update"} => call[r] \in SentCall
         /\ call[r].at = "reply" => call[r] \in ReplyCall
         /\ call[r].at # "idle" => call[r] \in SentCall \cup ReplyCall /\ call[r].thread \in Threads
<1>1. call[r] \in {NoCall} \cup SentCall \cup ReplyCall
  BY DEF OutreachTypeOK, SentCall, ReplyCall
<1>2. CASE call[r] = NoCall
  BY <1>2 DEF NoCall
<1>3. CASE call[r] \in SentCall
  BY <1>3 DEF SentCall
<1>4. CASE call[r] \in ReplyCall
  BY <1>4 DEF ReplyCall
<1> QED
  BY <1>1, <1>2, <1>3, <1>4

-----------------------------------------------------------------------------
(* Type correctness.  A step that gives a thread another row keeps the types *)
(* if the row is a row; one that takes a request on keeps them if what the   *)
(* request then holds is one of the kinds.                                   *)

LEMMA RowWritten ==
  ASSUME OutreachTypeOK, NEW t \in Threads, NEW row \in ThreadRow,
         thread' = [thread EXCEPT ![t] = row]
  PROVE  /\ thread' \in [Threads -> ThreadRow \cup {NoThread}]
         /\ \A u \in Threads : thread[u] # NoThread => thread'[u] # NoThread
         /\ thread'[t] = row /\ thread'[t] # NoThread
<1>1. row # NoThread
  BY DEF ThreadRow, NoThread
<1> QED
  BY <1>1 DEF OutreachTypeOK

\* The requests that do not move keep what they hold as long as no thread goes.
LEMMA CallMoved ==
  ASSUME OutreachTypeOK, backend' = backend,
         thread' \in [Threads -> ThreadRow \cup {NoThread}],
         \A u \in Threads : thread[u] # NoThread => thread'[u] # NoThread,
         read' \in [Threads -> {"none", "awaiting_reply", "stale", "replied"}],
         NEW r \in Callers, NEW c \in {NoCall} \cup SentCall \cup ReplyCall,
         call' = [call EXCEPT ![r] = c],
         c.at \in {"update", "reply", "reread"} => thread'[c.thread] # NoThread
  PROVE  OutreachTypeOK'
<1>1. call' \in [Callers -> {NoCall} \cup SentCall \cup ReplyCall]
  BY DEF OutreachTypeOK, SentCall, ReplyCall
<1>2. ASSUME NEW q \in Callers, call'[q].at \in {"update", "reply", "reread"}
      PROVE  thread'[call'[q].thread] # NoThread
  <2>1. CASE q = r
    BY <1>2, <2>1 DEF OutreachTypeOK
  <2>2. CASE q # r
    <3>1. call'[q] = call[q]
      BY <2>2 DEF OutreachTypeOK
    <3>2. call[q].thread \in Threads
      BY <1>2, <3>1, CallKinds
    <3> QED
      BY <1>2, <3>1, <3>2 DEF OutreachTypeOK
  <2> QED
    BY <2>1, <2>2
<1> QED
  BY <1>1, <1>2 DEF OutreachTypeOK, SentCall, ReplyCall

LEMMA InitTyped == OutreachInit => OutreachTypeOK
<1> SUFFICES ASSUME OutreachInit PROVE OutreachTypeOK
  OBVIOUS
<1>1. call \in [Callers -> {NoCall}] /\ \A r \in Callers : call[r].at = "idle"
  BY DEF OutreachInit, NoCall
<1> QED
  BY <1>1 DEF OutreachInit, OutreachTypeOK

\* What a resend makes of a row is a row.
LEMMA PostgresRowTyped ==
  ASSUME NEW row \in ThreadRow \cup {NoThread}, NEW draft \in Drafts
  PROVE  /\ PostgresRow(row, draft) \in ThreadRow
         /\ row \in ThreadRow => ResentRow(row, draft) \in ThreadRow
         /\ NewThread(draft) \in ThreadRow
<1>1. NewThread(draft) \in ThreadRow
  BY CutoffAssumption DEF NewThread, ThreadRow
<1>2. row \in ThreadRow => ResentRow(row, draft) \in ThreadRow
  BY DEF ResentRow, ThreadRow
<1>3. CASE row = NoThread
  <2>1. row.state # "replied"
    BY <1>3 DEF NoThread
  <2> QED
    BY <1>1, <1>2, <1>3, <2>1 DEF PostgresRow
<1>4. CASE row \in ThreadRow
  <2>1. row # NoThread
    BY <1>4 DEF ThreadRow, NoThread
  <2> QED
    BY <1>1, <1>2, <1>4, <2>1 DEF PostgresRow
<1> QED
  BY <1>3, <1>4

LEMMA RepliedRowTyped ==
  ASSUME NEW row \in ThreadRow, NEW reply \in Replies
  PROVE  RepliedRow(row, reply) \in ThreadRow
<1>1. 0 \in 0..(Cutoff + 1)
  BY CutoffAssumption
<1> DEFINE replied == [row EXCEPT !.state = "replied"]
           answered == [replied EXCEPT !.reply = reply]
<1>2. answered \in ThreadRow
  BY DEF ThreadRow
<1>3. RepliedRow(row, reply) = [answered EXCEPT !.age = 0]
  BY DEF RepliedRow, ThreadRow
<1> HIDE DEF answered
<1> QED
  BY <1>1, <1>2, <1>3 DEF ThreadRow

LEMMA ServeTyped ==
  ASSUME OutreachTypeOK, NEW r \in Callers, ServeThread(r)
  PROVE  OutreachTypeOK'
<1> DEFINE t == call[r].thread
<1>0. \A u \in Threads : thread[u].state \in {"none", "awaiting_reply", "stale", "replied"}
  BY RowStates
<1>1. CASE PostgresUpsertThreadOnSent(r)
  <2> DEFINE row == PostgresRow(thread[t], call[r].draft)
  <2>1. t \in Threads /\ call[r].draft \in Drafts
    BY <1>1, CallKinds DEF PostgresUpsertThreadOnSent, SentCall
  <2>2. row \in ThreadRow
    BY <2>1, PostgresRowTyped DEF OutreachTypeOK
  <2>3. thread' = [thread EXCEPT ![t] = row] /\ call' = [call EXCEPT ![r] = NoCall]
        /\ read' = [read EXCEPT ![t] = row.state] /\ backend' = backend
    BY <1>1 DEF PostgresUpsertThreadOnSent, AnswerThread
  <2>4. read' \in [Threads -> {"none", "awaiting_reply", "stale", "replied"}]
    BY <2>1, <2>2, <2>3 DEF OutreachTypeOK, ThreadRow
  <2> HIDE DEF t, row
  <2>5. /\ thread' \in [Threads -> ThreadRow \cup {NoThread}]
        /\ \A u \in Threads : thread[u] # NoThread => thread'[u] # NoThread
    BY <2>1, <2>2, <2>3, RowWritten
  <2> QED
    BY <2>3, <2>4, <2>5, CallMoved DEF NoCall
<1>2. CASE PostgresMarkReplied(r) \/ SQLiteMarkReplied(r)
  <2> DEFINE row == RepliedRow(thread[t], call[r].reply)
  <2>1. t \in Threads /\ call[r].reply \in Replies /\ thread[t] # NoThread
    BY <1>2, CallKinds DEF PostgresMarkReplied, SQLiteMarkReplied, ReplyCall, OutreachTypeOK
  <2>2. row \in ThreadRow
    BY <2>1, RepliedRowTyped DEF OutreachTypeOK
  <2>3. thread' = [thread EXCEPT ![t] = row] /\ backend' = backend
    BY <1>2 DEF PostgresMarkReplied, SQLiteMarkReplied
  <2>4. /\ thread' \in [Threads -> ThreadRow \cup {NoThread}]
        /\ \A u \in Threads : thread[u] # NoThread => thread'[u] # NoThread
    <3> HIDE DEF t, row
    <3> QED
      BY <2>1, <2>2, <2>3, RowWritten
  <2>5. CASE PostgresMarkReplied(r)
    <3>1. call' = [call EXCEPT ![r] = NoCall] /\ read' = [read EXCEPT ![t] = row.state]
      BY <2>5 DEF PostgresMarkReplied, AnswerThread
    <3>2. read' \in [Threads -> {"none", "awaiting_reply", "stale", "replied"}]
      BY <2>1, <2>2, <3>1 DEF OutreachTypeOK, ThreadRow
    <3> QED
      BY <2>3, <2>4, <3>1, <3>2, CallMoved DEF NoCall
  <2>6. CASE SQLiteMarkReplied(r)
    <3> DEFINE c == [call[r] EXCEPT !.at = "reread"]
    <3>1. call' = [call EXCEPT ![r] = c] /\ read' = read
      BY <2>6 DEF SQLiteMarkReplied, GoOn
    <3>2. c \in ReplyCall /\ c.thread = t
      BY <2>6, CallKinds DEF SQLiteMarkReplied, ReplyCall
    <3> HIDE DEF c
    <3> QED
      BY <2>1, <2>3, <2>4, <3>1, <3>2, CallMoved DEF OutreachTypeOK
  <2> QED
    BY <1>2, <2>5, <2>6
<1>3. CASE SQLiteLookUp(r)
  <2>1. t \in Threads /\ call[r] \in SentCall
    BY <1>3, CallKinds DEF SQLiteLookUp
  <2>2. /\ thread' = thread /\ backend' = backend
        /\ \/ thread[t] = NoThread /\ GoOn(r, "insert")
           \/ thread[t] # NoThread /\ GoOn(r, "update")
           \/ AnswerThread(r, t, thread[t])
    BY <1>3 DEF SQLiteLookUp
  <2>3. CASE AnswerThread(r, t, thread[t])
    <3>1. read' \in [Threads -> {"none", "awaiting_reply", "stale", "replied"}]
      BY <1>0, <2>1, <2>3 DEF AnswerThread, OutreachTypeOK
    <3> QED
      BY <2>2, <2>3, <3>1, CallMoved DEF AnswerThread, NoCall, OutreachTypeOK
  <2>4. ASSUME NEW go \in {"insert", "update"}, GoOn(r, go), go = "update" => thread[t] # NoThread
        PROVE  OutreachTypeOK'
    <3> DEFINE c == [call[r] EXCEPT !.at = go]
    <3>1. call' = [call EXCEPT ![r] = c] /\ read' = read
      BY <2>4 DEF GoOn
    <3>2. c \in SentCall /\ c.thread = t /\ c.at = go
      BY <2>1, <2>4 DEF SentCall
    <3> HIDE DEF c, t
    <3> QED
      BY <2>2, <2>4, <3>1, <3>2, CallMoved DEF OutreachTypeOK
  <2> HIDE DEF t
  <2> QED
    BY <2>2, <2>3, <2>4
<1>4. CASE SQLiteUpsertThreadOnSent(r)
  <2>1. t \in Threads /\ call[r] \in SentCall
    BY <1>4, CallKinds DEF SQLiteUpsertThreadOnSent
  <2>2. backend' = backend
    BY <1>4 DEF SQLiteUpsertThreadOnSent
  <2>3. ASSUME NEW row \in ThreadRow, thread' = [thread EXCEPT ![t] = row], GoOn(r, "reread")
        PROVE  OutreachTypeOK'
    <3> DEFINE c == [call[r] EXCEPT !.at = "reread"]
    <3>1. call' = [call EXCEPT ![r] = c] /\ read' = read
      BY <2>3 DEF GoOn
    <3>2. c \in SentCall /\ c.thread = t
      BY <2>1 DEF SentCall
    <3> HIDE DEF c, t
    <3>3. /\ thread' \in [Threads -> ThreadRow \cup {NoThread}]
          /\ \A u \in Threads : thread[u] # NoThread => thread'[u] # NoThread
          /\ thread'[t] # NoThread
      BY <2>1, <2>3, RowWritten
    <3> QED
      BY <2>2, <3>1, <3>2, <3>3, CallMoved DEF OutreachTypeOK
  <2>4. CASE call[r].at = "insert" /\ thread[t] # NoThread
    <3>1. thread' = thread /\ read' = read /\ call' = [call EXCEPT ![r] = NoCall]
      BY <1>4, <2>4 DEF SQLiteUpsertThreadOnSent
    <3> QED
      BY <2>2, <3>1, CallMoved DEF NoCall, OutreachTypeOK
  <2>5. CASE call[r].at = "insert" /\ thread[t] = NoThread
    <3>1. NewThread(call[r].draft) \in ThreadRow
      BY <2>1, PostgresRowTyped DEF SentCall, OutreachTypeOK
    <3> QED
      BY <1>4, <2>3, <2>5, <3>1 DEF SQLiteUpsertThreadOnSent
  <2>6. CASE call[r].at = "update"
    <3>1. thread[t] \in ThreadRow
      BY <2>1, <2>6 DEF OutreachTypeOK
    <3>2. ResentRow(thread[t], call[r].draft) \in ThreadRow
      BY <2>1, <3>1, PostgresRowTyped DEF SentCall
    <3> QED
      BY <1>4, <2>3, <2>6, <3>2 DEF SQLiteUpsertThreadOnSent
  <2> QED
    BY <1>4, <2>4, <2>5, <2>6 DEF SQLiteUpsertThreadOnSent
<1>5. CASE SQLiteReread(r)
  <2>1. t \in Threads
    BY <1>5, CallKinds DEF SQLiteReread
  <2>2. read' \in [Threads -> {"none", "awaiting_reply", "stale", "replied"}]
    BY <1>0, <1>5, <2>1 DEF SQLiteReread, AnswerThread, OutreachTypeOK
  <2> QED
    BY <1>5, <2>2, CallMoved DEF SQLiteReread, AnswerThread, NoCall, OutreachTypeOK
<1> QED
  BY <1>1, <1>2, <1>3, <1>4, <1>5 DEF ServeThread

LEMMA NextTyped ==
  ASSUME OutreachTypeOK, [OutreachNext]_outreachVars
  PROVE  OutreachTypeOK'
<1>0. \A t \in Threads : thread[t].state \in {"none", "awaiting_reply", "stale", "replied"}
  BY RowStates
<1>1. ASSUME NEW r \in Callers, NEW t \in Threads, NEW draft \in Drafts, handleOutreachSent(r, t, draft)
      PROVE  OutreachTypeOK'
  <2> DEFINE c == [at |-> "sent", thread |-> t, draft |-> draft]
  <2>1. call' = [call EXCEPT ![r] = c] /\ thread' = thread /\ read' = read /\ backend' = backend
    BY <1>1 DEF handleOutreachSent
  <2>2. c \in SentCall /\ c.at = "sent"
    BY DEF SentCall
  <2> HIDE DEF c
  <2> QED
    BY <2>1, <2>2, CallMoved DEF OutreachTypeOK
<1>2. ASSUME NEW r \in Callers, NEW t \in Threads, NEW reply \in Replies, handleOutreachReplied(r, t, reply)
      PROVE  OutreachTypeOK'
  <2> DEFINE c == [at |-> "reply", thread |-> t, reply |-> reply]
  <2>1. call' = [call EXCEPT ![r] = c] /\ thread' = thread /\ read' = read /\ backend' = backend
    BY <1>2 DEF handleOutreachReplied
  <2>2. c \in ReplyCall /\ c.thread = t
    BY DEF ReplyCall
  <2>3. thread[t] # NoThread
    BY <1>2, RowStates DEF handleOutreachReplied
  <2> HIDE DEF c
  <2> QED
    BY <2>1, <2>2, <2>3, CallMoved DEF OutreachTypeOK
<1>3. ASSUME NEW some \in SUBSET Threads, ReadThreads(some)
      PROVE  OutreachTypeOK'
  BY <1>0, <1>3 DEF ReadThreads, OutreachTypeOK
<1>4. CASE ThreadsAge
  <2>1. ASSUME NEW t \in Threads
        PROVE  /\ thread'[t] \in ThreadRow \cup {NoThread}
               /\ thread[t] # NoThread => thread'[t] # NoThread
    <3>1. CASE t \in ExistingThreads /\ thread[t].age <= Cutoff
      <4>1. thread[t] \in ThreadRow /\ thread'[t] = [thread[t] EXCEPT !.age = @ + 1]
        BY <1>4, <3>1, RowStates DEF ThreadsAge, ExistingThreads
      <4>2. thread[t].age + 1 \in 0..(Cutoff + 1)
        BY <3>1, <4>1, CutoffAssumption DEF ThreadRow
      <4> QED
        BY <4>1, <4>2 DEF ThreadRow, NoThread
    <3>2. CASE ~(t \in ExistingThreads /\ thread[t].age <= Cutoff)
      BY <1>4, <3>2 DEF ThreadsAge, OutreachTypeOK
    <3> QED
      BY <3>1, <3>2
  <2>2. thread' \in [Threads -> ThreadRow \cup {NoThread}]
    BY <1>4, <2>1 DEF ThreadsAge
  <2> QED
    BY <1>4, <2>1, <2>2, CallKinds DEF ThreadsAge, OutreachTypeOK
<1>5. CASE TransitionStaleThreads
  <2>1. ASSUME NEW t \in Threads
        PROVE  /\ thread'[t] \in ThreadRow \cup {NoThread}
               /\ thread[t] # NoThread => thread'[t] # NoThread
    <3>1. CASE OldThread(t)
      <4>1. thread[t] # NoThread
        BY <3>1 DEF OldThread, NoThread
      <4>2. thread[t] \in ThreadRow /\ thread'[t] = [thread[t] EXCEPT !.state = "stale", !.age = 0]
        BY <1>5, <3>1, <4>1, RowStates DEF TransitionStaleThreads
      <4>3. thread'[t] = [state |-> "stale", draft |-> thread[t].draft, age |-> 0, reply |-> thread[t].reply]
        BY <4>2 DEF ThreadRow
      <4>4. 0 \in 0..(Cutoff + 1)
        BY CutoffAssumption
      <4> QED
        BY <4>2, <4>3, <4>4 DEF ThreadRow, NoThread
    <3>2. CASE ~OldThread(t)
      BY <1>5, <3>2 DEF TransitionStaleThreads, OutreachTypeOK
    <3> QED
      BY <3>1, <3>2
  <2>2. thread' \in [Threads -> ThreadRow \cup {NoThread}]
    BY <1>5, <2>1 DEF TransitionStaleThreads
  <2> QED
    BY <1>5, <2>1, <2>2, CallKinds DEF TransitionStaleThreads, OutreachTypeOK
<1>6. ASSUME NEW t \in Threads, handleOutreachThreadByListing(t) PROVE OutreachTypeOK'
  BY <1>3, <1>6 DEF handleOutreachThreadByListing
<1>7. CASE handleOutreachThreads
  BY <1>3, <1>7 DEF handleOutreachThreads, ExistingThreads
<1>8. ASSUME NEW keys \in SUBSET Threads, ListThreadStatesForListings(keys) PROVE OutreachTypeOK'
  BY <1>3, <1>8 DEF ListThreadStatesForListings
<1>9. CASE UNCHANGED outreachVars
  BY <1>9 DEF outreachVars, OutreachTypeOK
<1> QED
  BY <1>1, <1>2, <1>4, <1>5, <1>6, <1>7, <1>8, <1>9, ServeTyped DEF OutreachNext

\* OutreachTypeOK for any instance: a row has the columns of a thread, and a
\* request that is to update, answer or read a thread again finds it there.
THEOREM OutreachTyping == OutreachSpec => []OutreachTypeOK
<1>1. OutreachTypeOK /\ [OutreachNext]_outreachVars => OutreachTypeOK'
  BY NextTyped
<1> QED
  BY <1>1, InitTyped, PTL DEF OutreachSpec

-----------------------------------------------------------------------------
(* The lifecycle.                                                           *)

LEMMA StateWritten ==
  ASSUME OutreachTypeOK, NEW t \in Threads, NEW row,
         thread' = [thread EXCEPT ![t] = row]
  PROVE  ThreadStates' = [ThreadStates EXCEPT ![t] = row.state]
BY DEF ThreadStates, OutreachTypeOK

\* A row written over another one keeps its state, opens the thread, or
\* answers it.
LEMMA RowWritesSimulate ==
  ASSUME OutreachTypeOK, NEW t \in Threads, NEW row,
         thread' = [thread EXCEPT ![t] = row],
         \/ row.state = thread[t].state
         \/ thread[t].state = "none" /\ row.state = "awaiting_reply"
         \/ thread[t].state # "none" /\ row.state = "replied"
  PROVE  [Lifecycle!Next]_ThreadStates
<1>1. ThreadStates' = [ThreadStates EXCEPT ![t] = row.state] /\ ThreadStates[t] = thread[t].state
  BY StateWritten DEF ThreadStates
<1>2. ThreadStates = [u \in Threads |-> ThreadStates[u]]
  BY DEF ThreadStates
<1>3. CASE row.state = thread[t].state
  BY <1>1, <1>2, <1>3
<1>4. CASE thread[t].state = "none" /\ row.state = "awaiting_reply"
  BY <1>1, <1>4 DEF Lifecycle!Next, Lifecycle!Send
<1>5. CASE thread[t].state # "none" /\ row.state = "replied" /\ row.state # thread[t].state
  <2>1. thread[t].state \in {"awaiting_reply", "stale"}
    BY <1>5, RowStates
  <2> QED
    BY <1>1, <1>5, <2>1 DEF Lifecycle!Next, Lifecycle!Reply
<1> QED
  BY <1>3, <1>4, <1>5

\* What a request writes to a thread is such a row.
LEMMA ServeWrites ==
  ASSUME OutreachTypeOK, NEW r \in Callers, ServeThread(r)
  PROVE  \/ thread' = thread
         \/ \E t \in Threads : \E row :
              /\ thread' = [thread EXCEPT ![t] = row]
              /\ \/ row.state = thread[t].state
                 \/ thread[t].state = "none" /\ row.state = "awaiting_reply"
                 \/ thread[t].state # "none" /\ row.state = "replied"
<1> DEFINE t == call[r].thread
<1>1. CASE PostgresUpsertThreadOnSent(r)
  <2>1. t \in Threads /\ thread' = [thread EXCEPT ![t] = PostgresRow(thread[t], call[r].draft)]
    BY <1>1, CallKinds DEF PostgresUpsertThreadOnSent
  <2>2. CASE thread[t] = NoThread
    <3>1. thread[t].state = "none" /\ PostgresRow(thread[t], call[r].draft).state = "awaiting_reply"
      BY <2>2 DEF PostgresRow, NewThread, NoThread
    <3> QED
      BY <2>1, <3>1
  <2>3. CASE thread[t] # NoThread
    <3>1. thread[t] \in ThreadRow
      BY <2>1, <2>3, RowStates
    <3>2. ResentRow(thread[t], call[r].draft).state = thread[t].state
      BY <3>1 DEF ResentRow, ThreadRow
    <3>3. PostgresRow(thread[t], call[r].draft).state = thread[t].state
      BY <2>3, <3>2 DEF PostgresRow
    <3> QED
      BY <2>1, <3>3
  <2> QED
    BY <2>2, <2>3
<1>2. CASE PostgresMarkReplied(r) \/ SQLiteMarkReplied(r)
  <2> DEFINE row == RepliedRow(thread[t], call[r].reply)
  <2>1. t \in Threads /\ thread' = [thread EXCEPT ![t] = row] /\ thread[t] # NoThread
    BY <1>2, CallKinds DEF PostgresMarkReplied, SQLiteMarkReplied, OutreachTypeOK
  <2>2. thread[t] \in ThreadRow /\ thread[t].state # "none"
    BY <2>1, RowStates
  <2>3. row.state = "replied"
    BY <2>2 DEF RepliedRow, ThreadRow
  <2> QED
    BY <2>1, <2>2, <2>3
<1>3. CASE SQLiteUpsertThreadOnSent(r)
  <2>1. t \in Threads
    BY <1>3, CallKinds DEF SQLiteUpsertThreadOnSent
  <2>2. CASE call[r].at = "insert" /\ thread[t] = NoThread
    <3> DEFINE row == NewThread(call[r].draft)
    <3>1. thread' = [thread EXCEPT ![t] = row]
      BY <1>3, <2>2 DEF SQLiteUpsertThreadOnSent
    <3>2. thread[t].state = "none" /\ row.state = "awaiting_reply"
      BY <2>2 DEF NewThread, NoThread
    <3> QED
      BY <2>1, <3>1, <3>2
  <2>3. CASE call[r].at = "update"
    <3> DEFINE row == ResentRow(thread[t], call[r].draft)
    <3>1. thread' = [thread EXCEPT ![t] = row]
      BY <1>3, <2>3 DEF SQLiteUpsertThreadOnSent
    <3>2. thread[t] \in ThreadRow
      BY <2>1, <2>3, RowStates DEF OutreachTypeOK
    <3>3. row.state = thread[t].state
      BY <3>2 DEF ResentRow, ThreadRow
    <3> QED
      BY <2>1, <3>1, <3>3
  <2> QED
    BY <1>3, <2>2, <2>3 DEF SQLiteUpsertThreadOnSent
<1>4. CASE SQLiteLookUp(r) \/ SQLiteReread(r)
  BY <1>4 DEF SQLiteLookUp, SQLiteReread
<1> QED
  BY <1>1, <1>2, <1>3, <1>4 DEF ServeThread

LEMMA NextSimulates ==
  ASSUME OutreachTypeOK, [OutreachNext]_outreachVars
  PROVE  [Lifecycle!Next]_ThreadStates
<1>1. CASE thread' = thread
  BY <1>1 DEF ThreadStates
<1>2. ASSUME NEW r \in Callers, ServeThread(r) PROVE [Lifecycle!Next]_ThreadStates
  BY <1>1, <1>2, ServeWrites, RowWritesSimulate
<1>3. CASE ThreadsAge
  <2>1. ASSUME NEW t \in Threads PROVE thread'[t].state = thread[t].state
    <3>1. CASE t \in ExistingThreads /\ thread[t].age <= Cutoff
      <4>1. thread[t] \in ThreadRow /\ thread'[t] = [thread[t] EXCEPT !.age = @ + 1]
        BY <1>3, <3>1, RowStates DEF ThreadsAge, ExistingThreads
      <4> QED
        BY <4>1 DEF ThreadRow
    <3>2. CASE ~(t \in ExistingThreads /\ thread[t].age <= Cutoff)
      BY <1>3, <3>2 DEF ThreadsAge
    <3> QED
      BY <3>1, <3>2
  <2> QED
    BY <2>1 DEF ThreadStates
<1>4. CASE TransitionStaleThreads
  <2> DEFINE late == {t \in Threads : OldThread(t)}
  <2>1. late # {} /\ \A t \in late : ThreadStates[t] = "awaiting_reply"
    BY <1>4 DEF TransitionStaleThreads, OldThread, ThreadStates
  <2>2. ASSUME NEW t \in Threads
        PROVE  thread'[t].state = IF t \in late THEN "stale" ELSE ThreadStates[t]
    <3>1. CASE OldThread(t)
      <4>1. thread[t] # NoThread
        BY <3>1 DEF OldThread, NoThread
      <4>2. thread[t] \in ThreadRow /\ thread'[t] = [thread[t] EXCEPT !.state = "stale", !.age = 0]
        BY <1>4, <3>1, <4>1, RowStates DEF TransitionStaleThreads
      <4>3. thread'[t].state = "stale"
        BY <4>2 DEF ThreadRow
      <4> QED
        BY <3>1, <4>3
    <3>2. CASE ~OldThread(t)
      BY <1>4, <3>2 DEF TransitionStaleThreads, ThreadStates
    <3> QED
      BY <3>1, <3>2
  <2> HIDE DEF late
  <2>3. ThreadStates' = [t \in Threads |-> IF t \in late THEN "stale" ELSE ThreadStates[t]]
    BY <2>2 DEF ThreadStates
  <2>4. late \in SUBSET Threads
    BY DEF late
  <2> QED
    BY <2>1, <2>3, <2>4 DEF Lifecycle!Next, Lifecycle!Expire
<1> QED
  BY <1>1, <1>2, <1>3, <1>4 DEF OutreachNext, outreachVars, handleOutreachSent, handleOutreachReplied,
     handleOutreachThreadByListing, handleOutreachThreads, ListThreadStatesForListings, ReadThreads

\* The table of threads implements the lifecycle's safety for any instance:
\* whatever sends, replies and runs of the job overlap on either store, each
\* thread opens once, may go stale while it waits, and ends with a reply.
THEOREM LifecycleImplemented == OutreachSpec => Lifecycle!Safety
<1>1. OutreachInit => Lifecycle!Init
  BY DEF OutreachInit, Lifecycle!Init, ThreadStates, NoThread
<1>2. OutreachTypeOK /\ [OutreachNext]_outreachVars => [Lifecycle!Next]_ThreadStates
  BY NextSimulates
<1> QED
  BY <1>1, <1>2, OutreachTyping, PTL DEF OutreachSpec, Lifecycle!Safety

-----------------------------------------------------------------------------
(* A reply is final.                                                        *)

\* In the lifecycle nothing leads out of "replied".
LEMMA RepliedStays ==
  ASSUME OutreachTypeOK, [OutreachNext]_outreachVars, NEW t \in Threads, thread[t].state = "replied"
  PROVE  thread'[t].state = "replied"
<1>1. ThreadStates[t] = "replied" /\ ThreadStates'[t] = thread'[t].state
  BY DEF ThreadStates
<1>2. [Lifecycle!Next]_ThreadStates
  BY NextSimulates
<1>3. ASSUME NEW u \in Threads, Lifecycle!Send(u) \/ Lifecycle!Reply(u) PROVE ThreadStates'[t] = "replied"
  BY <1>1, <1>3 DEF Lifecycle!Send, Lifecycle!Reply, ThreadStates
<1>4. ASSUME NEW late \in SUBSET Threads, Lifecycle!Expire(late) PROVE ThreadStates'[t] = "replied"
  BY <1>1, <1>4 DEF Lifecycle!Expire
<1> QED
  BY <1>1, <1>2, <1>3, <1>4 DEF Lifecycle!Next

\* A request answers "replied" only for a thread that is, and on Postgres no
\* request writes what it looked up before.
ReplyInv ==
  /\ \A t \in Threads : read[t] = "replied" => thread[t].state = "replied"
  /\ backend = "postgres" => \A r \in Callers : call[r].at \in {"idle", "sent", "reply"}

\* The answer of a request is the row as it is after the step.
LEMMA AnswersTrue ==
  ASSUME OutreachTypeOK, NEW r \in Callers, ServeThread(r)
  PROVE  \/ read' = read
         \/ \E t \in Threads : read' = [read EXCEPT ![t] = thread'[t].state]
<1> DEFINE t == call[r].thread
<1>1. CASE PostgresUpsertThreadOnSent(r) \/ PostgresMarkReplied(r)
  <2>1. t \in Threads
    BY <1>1, CallKinds DEF PostgresUpsertThreadOnSent, PostgresMarkReplied
  <2>2. \E row : thread' = [thread EXCEPT ![t] = row] /\ read' = [read EXCEPT ![t] = row.state]
    BY <1>1 DEF PostgresUpsertThreadOnSent, PostgresMarkReplied, AnswerThread
  <2> HIDE DEF t
  <2> QED
    BY <2>1, <2>2 DEF OutreachTypeOK
<1>2. CASE SQLiteLookUp(r) \/ SQLiteReread(r)
  <2>1. t \in Threads /\ thread' = thread
    BY <1>2, CallKinds DEF SQLiteLookUp, SQLiteReread
  <2>2. read' = read \/ read' = [read EXCEPT ![t] = thread[t].state]
    BY <1>2 DEF SQLiteLookUp, SQLiteReread, AnswerThread, GoOn
  <2> QED
    BY <2>1, <2>2
<1>3. CASE SQLiteUpsertThreadOnSent(r) \/ SQLiteMarkReplied(r)
  BY <1>3 DEF SQLiteUpsertThreadOnSent, SQLiteMarkReplied, GoOn
<1> QED
  BY <1>1, <1>2, <1>3 DEF ServeThread

LEMMA ReplyInvKept ==
  ASSUME OutreachTypeOK, ReplyInv, [OutreachNext]_outreachVars
  PROVE  ReplyInv'
<1>1. ASSUME NEW t \in Threads, read'[t] = "replied"
      PROVE  thread'[t].state = "replied"
  <2>1. CASE read[t] = "replied"
    BY <2>1, RepliedStays DEF ReplyInv
  <2>2. CASE read[t] # "replied" /\ \E r \in Callers : ServeThread(r)
    BY <1>1, <2>2, AnswersTrue DEF OutreachTypeOK
  <2>3. ASSUME read[t] # "replied", NEW some \in SUBSET Threads, ReadThreads(some)
        PROVE  thread'[t].state = "replied"
    BY <1>1, <2>3 DEF ReadThreads
  <2>4. CASE read' = read
    BY <1>1, <2>1, <2>4
  <2> QED
    BY <2>1, <2>2, <2>3, <2>4 DEF OutreachNext, outreachVars, handleOutreachSent, handleOutreachReplied,
       handleOutreachThreadByListing, handleOutreachThreads, ListThreadStatesForListings, ExistingThreads,
       ThreadsAge, TransitionStaleThreads
<1>2. ASSUME backend' = "postgres", NEW q \in Callers
      PROVE  call'[q].at \in {"idle", "sent", "reply"}
  <2>0. backend = "postgres" /\ call[q].at \in {"idle", "sent", "reply"}
    <3>1. backend' = backend
      BY DEF OutreachNext, outreachVars, ServeThread, PostgresUpsertThreadOnSent, PostgresMarkReplied, SQLiteLookUp,
         SQLiteUpsertThreadOnSent, SQLiteMarkReplied, SQLiteReread, handleOutreachSent, handleOutreachReplied,
         handleOutreachThreadByListing, handleOutreachThreads, ListThreadStatesForListings, ReadThreads,
         ThreadsAge, TransitionStaleThreads
    <3> QED
      BY <1>2, <3>1 DEF ReplyInv, OutreachTypeOK
  <2>1. ASSUME NEW r \in Callers, ServeThread(r) PROVE call'[q].at \in {"idle", "sent", "reply"}
    <3>1. call[r].at \in {"idle", "sent", "reply"}
      BY <2>0 DEF ReplyInv
    <3>2. call' = [call EXCEPT ![r] = NoCall]
      BY <2>0, <2>1, <3>1 DEF ServeThread, PostgresUpsertThreadOnSent, PostgresMarkReplied, AnswerThread, SQLiteLookUp,
         SQLiteUpsertThreadOnSent, SQLiteMarkReplied, SQLiteReread
    <3> QED
      BY <2>0, <3>2 DEF NoCall, OutreachTypeOK
  <2>2. ASSUME NEW r \in Callers, NEW t \in Threads, NEW draft \in Drafts, handleOutreachSent(r, t, draft)
        PROVE  call'[q].at \in {"idle", "sent", "reply"}
    BY <2>0, <2>2 DEF handleOutreachSent, OutreachTypeOK
  <2>3. ASSUME NEW r \in Callers, NEW t \in Threads, NEW reply \in Replies, handleOutreachReplied(r, t, reply)
        PROVE  call'[q].at \in {"idle", "sent", "reply"}
    BY <2>0, <2>3 DEF handleOutreachReplied, OutreachTypeOK
  <2>4. CASE call' = call
    BY <2>0, <2>4
  <2> QED
    BY <2>1, <2>2, <2>3, <2>4 DEF OutreachNext, outreachVars,
       handleOutreachThreadByListing, handleOutreachThreads, ListThreadStatesForListings, ReadThreads,
       ThreadsAge, TransitionStaleThreads
<1> QED
  BY <1>1, <1>2 DEF ReplyInv

\* On Postgres no step changes the draft of a thread that is replied.
LEMMA AnsweredDraftKept ==
  ASSUME OutreachTypeOK, ReplyInv, [OutreachNext]_outreachVars,
         backend = "postgres", NEW t \in Threads, thread[t].state = "replied"
  PROVE  thread'[t].draft = thread[t].draft
<1>0. thread[t] \in ThreadRow
  <2>1. thread[t] # NoThread
    BY DEF NoThread
  <2> QED
    BY <2>1, RowStates
<1>1. ASSUME NEW r \in Callers, ServeThread(r) PROVE thread'[t].draft = thread[t].draft
  <2>1. call[r].at \in {"idle", "sent", "reply"}
    BY DEF ReplyInv
  <2>2. PostgresUpsertThreadOnSent(r) \/ PostgresMarkReplied(r)
    BY <1>1, <2>1 DEF ServeThread, SQLiteLookUp, SQLiteUpsertThreadOnSent, SQLiteMarkReplied, SQLiteReread
  <2>3. CASE call[r].thread # t
    BY <2>2, <2>3 DEF PostgresUpsertThreadOnSent, PostgresMarkReplied, OutreachTypeOK
  <2>4. CASE call[r].thread = t /\ PostgresUpsertThreadOnSent(r)
    <3>1. thread[t] # NoThread
      BY <1>0 DEF ThreadRow, NoThread
    <3>2. PostgresRow(thread[t], call[r].draft) = thread[t]
      BY <3>1 DEF PostgresRow
    <3> QED
      BY <2>4, <3>2 DEF PostgresUpsertThreadOnSent, OutreachTypeOK
  <2>5. CASE call[r].thread = t /\ PostgresMarkReplied(r)
    <3>1. thread'[t] = RepliedRow(thread[t], call[r].reply)
      BY <2>5 DEF PostgresMarkReplied, OutreachTypeOK
    <3> QED
      BY <1>0, <3>1 DEF RepliedRow, ThreadRow
  <2> QED
    BY <2>2, <2>3, <2>4, <2>5
<1>2. CASE ThreadsAge
  <2>1. thread'[t] = thread[t] \/ thread'[t] = [thread[t] EXCEPT !.age = @ + 1]
    BY <1>2 DEF ThreadsAge
  <2> QED
    BY <1>0, <2>1 DEF ThreadRow
<1>3. CASE TransitionStaleThreads
  BY <1>3 DEF TransitionStaleThreads, OldThread
<1>4. CASE thread' = thread
  BY <1>4
<1> QED
  BY <1>1, <1>2, <1>3, <1>4 DEF OutreachNext, outreachVars, handleOutreachSent, handleOutreachReplied,
     handleOutreachThreadByListing, handleOutreachThreads, ListThreadStatesForListings, ReadThreads

\* ReplyIsFinal for any instance: a thread once shown as replied is never
\* shown as waiting, and on Postgres the draft that was answered stays.
THEOREM ReplyFinal == OutreachSpec => ReplyIsFinal
<1>1. OutreachInit => ReplyInv
  BY DEF OutreachInit, ReplyInv, NoCall
<1>2. OutreachTypeOK /\ ReplyInv /\ [OutreachNext]_outreachVars => ReplyInv'
  BY ReplyInvKept
<1>3. OutreachTypeOK /\ ReplyInv /\ ReplyInv' /\ [OutreachNext]_outreachVars =>
        [\A t \in Threads :
           /\ read[t] = "replied" => read'[t] = "replied"
           /\ backend = "postgres" /\ thread[t].state = "replied" => thread'[t].draft = thread[t].draft
        ]_outreachVars
  <2> SUFFICES ASSUME OutreachTypeOK, ReplyInv, OutreachNext, NEW t \in Threads
               PROVE  /\ read[t] = "replied" => read'[t] = "replied"
                      /\ backend = "postgres" /\ thread[t].state = "replied" => thread'[t].draft = thread[t].draft
    OBVIOUS
  <2>1. ASSUME read[t] = "replied" PROVE read'[t] = "replied"
    <3>1. thread[t].state = "replied" /\ thread'[t].state = "replied"
      BY <2>1, RepliedStays DEF ReplyInv
    <3>2. CASE \E r \in Callers : ServeThread(r)
      BY <2>1, <3>1, <3>2, AnswersTrue DEF OutreachTypeOK
    <3>3. ASSUME NEW some \in SUBSET Threads, ReadThreads(some) PROVE read'[t] = "replied"
      BY <2>1, <3>1, <3>3 DEF ReadThreads
    <3>4. CASE read' = read
      BY <2>1, <3>4
    <3> QED
      BY <3>2, <3>3, <3>4 DEF OutreachNext, handleOutreachSent, handleOutreachReplied,
         handleOutreachThreadByListing, handleOutreachThreads, ListThreadStatesForListings, ExistingThreads,
         ThreadsAge, TransitionStaleThreads
  <2> QED
    BY <2>1, AnsweredDraftKept
<1> QED
  BY <1>1, <1>2, <1>3, OutreachTyping, PTL DEF OutreachSpec, ReplyIsFinal

-----------------------------------------------------------------------------
(* The passes of the worker.                                                *)

\* The goroutines of pass p that hold a token of semaphore x.
Holders(p, x) == {s \in Searches : x \in Held(p, s)}

\* TypeOK without the bound on the tokens, which needs their meaning.
Typed ==
  /\ ctx \in [Passes -> {"open", "cancelled"}]
  /\ at \in [Passes -> [Searches -> {"none", "acquiring", "searching", "scoring", "done"}]]
  /\ held \in [Passes -> [Searches -> 0..3]]
  /\ used \in [Passes -> [Slots -> Nat]]
  /\ stored \in [Users -> {"absent", "low", "high"}]
  /\ prev \in [Passes -> [Searches -> {"absent", "low", "high"}]]
  /\ alerted \subseteq Users /\ excused \in BOOLEAN /\ doubled \in BOOLEAN

\* A goroutine works only with all three tokens in hand, waits with fewer, and
\* has none before it starts and after it ends.
InStep ==
  \A p \in Passes, s \in Searches :
    /\ at[p][s] \in {"none", "done"} => held[p][s] = 0
    /\ at[p][s] = "acquiring" => held[p][s] \in 0..2
    /\ at[p][s] \in {"searching", "scoring"} => held[p][s] = 3

\* The tokens in a channel are those of the goroutines that hold one.
Tokens ==
  \A p \in Passes, x \in Slots :
    used[p][x] = Cardinality(Holders(p, x)) /\ used[p][x] <= Limit[x]

DispatchInv == Typed /\ InStep /\ Tokens

-----------------------------------------------------------------------------
\* The three semaphores of a goroutine are different ones.
LEMMA NeedSlots ==
  ASSUME NEW s \in Searches
  PROVE  /\ Need(s)[1] = Global /\ Need(s)[2] = Owner[s] /\ Need(s)[3] = Market[s]
         /\ Owner[s] \in Users /\ Market[s] \in Markets
         /\ Global \in Slots /\ Owner[s] \in Slots /\ Market[s] \in Slots
         /\ Global # Owner[s] /\ Global # Market[s] /\ Owner[s] # Market[s]
BY SearchesAssumption, SlotsAssumption DEF Need, Slots

\* What a goroutine holds, by number.
LEMMA HeldByNumber ==
  ASSUME NEW p \in Passes, NEW s \in Searches
  PROVE  /\ held[p][s] = 0 => Held(p, s) = {}
         /\ held[p][s] = 1 => Held(p, s) = {Global}
         /\ held[p][s] = 2 => Held(p, s) = {Global, Owner[s]}
         /\ held[p][s] = 3 => Held(p, s) = {Global, Owner[s], Market[s]}
<1>1. CASE held[p][s] = 0
  <2>1. 1..held[p][s] = {}
    BY <1>1
  <2> QED
    BY <1>1, <2>1 DEF Held
<1>2. CASE held[p][s] = 1
  <2>1. 1..held[p][s] = {1}
    BY <1>2
  <2> QED
    BY <1>2, <2>1, NeedSlots DEF Held
<1>3. CASE held[p][s] = 2
  <2>1. 1..held[p][s] = {1, 2}
    BY <1>3
  <2> QED
    BY <1>3, <2>1, NeedSlots DEF Held
<1>4. CASE held[p][s] = 3
  <2>1. 1..held[p][s] = {1, 2, 3}
    BY <1>4
  <2> QED
    BY <1>4, <2>1, NeedSlots DEF Held
<1> QED
  BY <1>1, <1>2, <1>3, <1>4

LEMMA HoldersFinite ==
  ASSUME NEW p, NEW x
  PROVE  IsFiniteSet(Holders(p, x))
BY SearchesAssumption, FS_Subset DEF Holders

LEMMA DispatchInvInit == Init => DispatchInv
<1> SUFFICES ASSUME Init PROVE DispatchInv
  OBVIOUS
<1>1. Typed
  <2>1. /\ at \in [Passes -> [Searches -> {"none", "acquiring", "searching", "scoring", "done"}]]
        /\ prev \in [Passes -> [Searches -> {"absent", "low", "high"}]]
    BY DEF Init
  <2>2. held \in [Passes -> [Searches -> 0..3]] /\ used \in [Passes -> [Slots -> Nat]]
    BY DEF Init
  <2> QED
    BY <2>1, <2>2 DEF Init, Typed
<1>2. InStep
  BY DEF Init, InStep
<1>3. ASSUME NEW p \in Passes, NEW x \in Slots
      PROVE  used[p][x] = Cardinality(Holders(p, x)) /\ used[p][x] <= Limit[x]
  <2>1. Holders(p, x) = {}
    BY HeldByNumber DEF Init, Holders
  <2>2. used[p][x] = 0 /\ Limit[x] \in Nat
    BY SlotsAssumption DEF Init
  <2> QED
    BY <2>1, <2>2, FS_EmptySet
<1> QED
  BY <1>1, <1>2, <1>3 DEF DispatchInv, Tokens

-----------------------------------------------------------------------------
\* Taking a token adds one holder to one semaphore.
LEMMA AcquireTokens ==
  ASSUME DispatchInv, NEW p \in Passes, NEW s \in Searches, Acquire(p, s)
  PROVE  DispatchInv'
<1> DEFINE x == Need(s)[held[p][s] + 1]
<1>1. held[p][s] \in 0..2
  BY DEF DispatchInv, InStep, Acquire
<1>2. x \in Slots /\ x \notin Held(p, s) /\ Held(p, s)' = Held(p, s) \cup {x}
  <2>1. held'[p][s] = held[p][s] + 1
    BY DEF Acquire, DispatchInv, Typed
  <2>2. CASE held[p][s] = 0
    <3>1. 1..held[p][s] = {} /\ 1..held'[p][s] = {1}
      BY <2>1, <2>2
    <3> QED
      BY <2>2, <3>1, NeedSlots DEF Held
  <2>3. CASE held[p][s] = 1
    <3>1. 1..held[p][s] = {1} /\ 1..held'[p][s] = {1, 2}
      BY <2>1, <2>3
    <3> QED
      BY <2>3, <3>1, NeedSlots DEF Held
  <2>4. CASE held[p][s] = 2
    <3>1. 1..held[p][s] = {1, 2} /\ 1..held'[p][s] = {1, 2, 3}
      BY <2>1, <2>4
    <3> QED
      BY <2>4, <3>1, NeedSlots DEF Held
  <2> QED
    BY <1>1, <2>2, <2>3, <2>4
<1>3. \A q \in Passes, t \in Searches :
        <<q, t>> # <<p, s>> => held'[q][t] = held[q][t] /\ at'[q][t] = at[q][t]
  BY DEF Acquire, DispatchInv, Typed
<1>4. Typed'
  BY <1>1, <1>2 DEF Acquire, DispatchInv, Typed, listings
<1>5. InStep'
  <2>1. /\ held'[p][s] = held[p][s] + 1
        /\ at'[p][s] = IF held[p][s] = 2 THEN "searching" ELSE "acquiring"
    BY DEF Acquire, DispatchInv, Typed
  <2> QED
    BY <1>1, <1>3, <2>1 DEF DispatchInv, InStep
<1>6. ASSUME NEW q \in Passes, NEW y \in Slots
      PROVE  used'[q][y] = Cardinality(Holders(q, y)') /\ used'[q][y] <= Limit[y]
  <2>1. \A t \in Searches : <<q, t>> # <<p, s>> => Held(q, t)' = Held(q, t)
    BY <1>3 DEF Held
  <2>2. CASE q = p /\ y = x
    <3>1. Holders(q, y)' = Holders(q, y) \cup {s} /\ s \notin Holders(q, y)
      BY <1>2, <2>1, <2>2 DEF Holders
    <3>2. used'[q][y] = used[q][y] + 1 /\ used[q][y] < Limit[y]
      BY <1>2, <2>2 DEF Acquire, Room, DispatchInv, Typed
    <3>3. Cardinality(Holders(q, y)') = Cardinality(Holders(q, y)) + 1
      BY <3>1, HoldersFinite, FS_AddElement
    <3> QED
      BY <3>2, <3>3, SlotsAssumption DEF DispatchInv, Typed, Tokens
  <2>3. CASE ~(q = p /\ y = x)
    <3>1. Holders(q, y)' = Holders(q, y)
      BY <1>2, <2>1, <2>3 DEF Holders
    <3>2. used'[q][y] = used[q][y]
      BY <1>2, <2>3 DEF Acquire, DispatchInv, Typed
    <3> QED
      BY <3>1, <3>2 DEF DispatchInv, Tokens
  <2> QED
    BY <2>2, <2>3
<1> QED
  BY <1>4, <1>5, <1>6 DEF DispatchInv, Tokens

\* A goroutine that ends gives back exactly what it holds, so the select of
\* release never finds an empty channel.
LEMMA EndTokens ==
  ASSUME DispatchInv, NEW p \in Passes, NEW s \in Searches, End(p, s)
  PROVE  InStep' /\ Tokens' /\ held' \in [Passes -> [Searches -> 0..3]]
         /\ used' \in [Passes -> [Slots -> Nat]]
         /\ at' \in [Passes -> [Searches -> {"none", "acquiring", "searching", "scoring", "done"}]]
<1>1. /\ held'[p][s] = 0 /\ at'[p][s] = "done"
      /\ \A q \in Passes, t \in Searches :
           <<q, t>> # <<p, s>> => held'[q][t] = held[q][t] /\ at'[q][t] = at[q][t]
  BY DEF End, DispatchInv, Typed
<1>2. Held(p, s)' = {}
  <2>1. 1..held'[p][s] = {}
    BY <1>1
  <2> QED
    BY <2>1 DEF Held
<1>3. ASSUME NEW q \in Passes, NEW y \in Slots
      PROVE  /\ used'[q][y] = Cardinality(Holders(q, y)')
             /\ used'[q][y] <= Limit[y]
             /\ used'[q][y] \in Nat
  <2>1. \A t \in Searches : <<q, t>> # <<p, s>> => Held(q, t)' = Held(q, t)
    BY <1>1 DEF Held
  <2>2. CASE q = p /\ y \in Held(p, s)
    <3>1. Holders(q, y)' = Holders(q, y) \ {s} /\ s \in Holders(q, y)
      BY <1>2, <2>1, <2>2 DEF Holders
    <3>2. /\ Cardinality(Holders(q, y)') = Cardinality(Holders(q, y)) - 1
          /\ Cardinality(Holders(q, y)) \in Nat
          /\ Cardinality(Holders(q, y)') \in Nat
      <4>1. IsFiniteSet(Holders(q, y)')
        BY <3>1, HoldersFinite, FS_Subset
      <4> QED
        BY <3>1, <4>1, HoldersFinite, FS_RemoveElement, FS_CardinalityType
    <3>3. used[q][y] > 0
      BY <3>2 DEF DispatchInv, Tokens
    <3>4. used'[q][y] = used[q][y] - 1
      BY <2>2, <3>3 DEF End, Releases, DispatchInv, Typed
    <3> QED
      BY <3>2, <3>4, SlotsAssumption DEF DispatchInv, Tokens
  <2>3. CASE ~(q = p /\ y \in Held(p, s))
    <3>1. Holders(q, y)' = Holders(q, y)
      BY <1>2, <2>1, <2>3 DEF Holders
    <3>2. used'[q][y] = used[q][y]
      BY <2>3 DEF End, Releases, DispatchInv, Typed
    <3> QED
      BY <3>1, <3>2 DEF DispatchInv, Typed, Tokens
  <2> QED
    BY <2>2, <2>3
<1>4. InStep'
  BY <1>1 DEF DispatchInv, InStep
<1>5. held' \in [Passes -> [Searches -> 0..3]]
  BY DEF End, DispatchInv, Typed
<1>6. at' \in [Passes -> [Searches -> {"none", "acquiring", "searching", "scoring", "done"}]]
  BY DEF End, DispatchInv, Typed
<1>7. used' \in [Passes -> [Slots -> Nat]]
  BY <1>3 DEF End, DispatchInv, Typed
<1> QED
  BY <1>3, <1>4, <1>5, <1>6, <1>7 DEF Tokens

\* Steps that move neither tokens nor what goroutines hold.
LEMMA TokensKept ==
  ASSUME DispatchInv, UNCHANGED <<held, used>>
  PROVE  Tokens'
BY DEF DispatchInv, Tokens, Holders, Held

-----------------------------------------------------------------------------
LEMMA TaskStep ==
  ASSUME DispatchInv, NEW p \in Passes, NEW s \in Searches, Task(p, s)
  PROVE  DispatchInv'
<1>1. CASE Acquire(p, s)
  BY <1>1, AcquireTokens
<1>2. CASE GiveUp(p, s)
  <2>1. End(p, s) /\ UNCHANGED <<ctx, listings>>
    BY <1>2 DEF GiveUp, End
  <2>2. Typed'
    BY <2>1, EndTokens DEF DispatchInv, Typed, listings
  <2> QED
    BY <2>1, <2>2, EndTokens DEF DispatchInv
<1>3. CASE EndQuietly(p, s)
  <2>1. End(p, s) /\ UNCHANGED <<ctx, listings>>
    BY <1>3 DEF EndQuietly, End
  <2>2. Typed'
    BY <2>1, EndTokens DEF DispatchInv, Typed, listings
  <2> QED
    BY <2>1, <2>2, EndTokens DEF DispatchInv
<1>4. CASE Fetch(p, s)
  <2>1. Owner[s] \in Users
    BY NeedSlots
  <2>2. Typed'
    <3>1. /\ prev' \in [Passes -> [Searches -> {"absent", "low", "high"}]]
          /\ excused' \in BOOLEAN
      <4>1. stored[Owner[s]] \in {"absent", "low", "high"}
        BY <2>1 DEF DispatchInv, Typed
      <4>2. PICK v \in {"absent", "low", "high"} : prev' = [prev EXCEPT ![p][s] = v]
        BY <1>4, <4>1 DEF Fetch
      <4>3. prev' \in [Passes -> [Searches -> {"absent", "low", "high"}]]
        BY <4>2 DEF DispatchInv, Typed
      <4>4. excused' \in BOOLEAN
        BY <1>4, Zenon DEF Fetch, DispatchInv, Typed
      <4> QED
        BY <4>3, <4>4
    <3>2. at' \in [Passes -> [Searches -> {"none", "acquiring", "searching", "scoring", "done"}]]
      BY <1>4 DEF Fetch, DispatchInv, Typed
    <3> QED
      BY <1>4, <3>1, <3>2 DEF Fetch, DispatchInv, Typed
  <2>3. InStep'
    BY <1>4 DEF Fetch, DispatchInv, Typed, InStep
  <2>4. Tokens'
    BY <1>4, TokensKept DEF Fetch
  <2> QED
    BY <2>2, <2>3, <2>4 DEF DispatchInv
<1>5. CASE Judge(p, s)
  <2>1. Owner[s] \in Users
    BY NeedSlots
  <2>2. End(p, s) /\ prev' = [prev EXCEPT ![p][s] = "absent"] /\ UNCHANGED ctx
    BY <1>5 DEF Judge, End
  <2>3. /\ stored' \in [Users -> {"absent", "low", "high"}]
        /\ alerted' \subseteq Users /\ excused' \in BOOLEAN /\ doubled' \in BOOLEAN
    BY <1>5, <2>1 DEF Judge, DispatchInv, Typed
  <2>4. Typed'
    BY <2>2, <2>3, EndTokens DEF DispatchInv, Typed
  <2> QED
    BY <2>2, <2>4, EndTokens DEF DispatchInv
<1> QED
  BY <1>1, <1>2, <1>3, <1>4, <1>5 DEF Task

LEMMA DispatchInvStep == DispatchInv /\ [Next]_vars => DispatchInv'
<1> SUFFICES ASSUME DispatchInv, [Next]_vars PROVE DispatchInv'
  OBVIOUS
<1>1. ASSUME NEW p \in Passes, NEW S \in SUBSET Searches, Dispatch(p, S)
      PROVE  DispatchInv'
  <2>1. \A s \in Searches : at[p][s] = "none"
    BY <1>1 DEF Dispatch, Running
  <2>2. Typed'
    BY <1>1 DEF Dispatch, DispatchInv, Typed, listings
  <2>3. InStep'
    BY <1>1, <2>1 DEF Dispatch, DispatchInv, Typed, InStep
  <2>4. Tokens'
    BY <1>1, TokensKept DEF Dispatch
  <2> QED
    BY <2>2, <2>3, <2>4 DEF DispatchInv
<1>2. CASE RunAllNow
  <2>1. PICK S \in SUBSET Searches : Dispatch("loop", S)
    BY <1>2 DEF RunAllNow
  <2> QED
    BY <1>1, <2>1 DEF Passes
<1>3. CASE \E r \in Requests, u \in Users : RunUserNow(r, u)
  <2>1. PICK r \in Requests, u \in Users : Dispatch(r, {s \in Searches : Owner[s] = u})
    BY <1>3 DEF RunUserNow
  <2> QED
    BY <1>1, <2>1 DEF Passes
<1>4. ASSUME NEW p \in Passes, Cancel(p)
      PROVE  DispatchInv'
  <2>1. Typed' /\ InStep'
    BY <1>4 DEF Cancel, DispatchInv, Typed, InStep, listings
  <2>2. Tokens'
    BY <1>4, TokensKept DEF Cancel
  <2> QED
    BY <2>1, <2>2 DEF DispatchInv
<1>5. ASSUME NEW p \in Passes, Return(p)
      PROVE  DispatchInv'
  <2>1. Typed'
    BY <1>5 DEF Return, DispatchInv, Typed, listings
  <2>2. InStep'
    BY <1>5 DEF Return, DispatchInv, Typed, InStep
  <2>3. Tokens'
    BY <1>5, TokensKept DEF Return
  <2> QED
    BY <2>1, <2>2, <2>3 DEF DispatchInv
<1>6. ASSUME NEW p \in Passes, NEW s \in Searches, Task(p, s)
      PROVE  DispatchInv'
  BY <1>6, TaskStep
<1>7. CASE UNCHANGED vars
  <2>1. Typed' /\ InStep'
    BY <1>7 DEF vars, DispatchInv, Typed, InStep
  <2>2. Tokens'
    BY <1>7, TokensKept DEF vars
  <2> QED
    BY <2>1, <2>2 DEF DispatchInv
<1> QED
  BY <1>2, <1>3, <1>4, <1>5, <1>6, <1>7 DEF Next

LEMMA DispatchInvariant == Spec => []DispatchInv
BY DispatchInvInit, DispatchInvStep, PTL DEF Spec

\* dispatch's bookkeeping is well typed, and no channel holds more tokens than
\* it has room for, in every run of any number of overlapping passes.
THEOREM DispatchTyping == Spec => []TypeOK
<1>1. DispatchInv => TypeOK
  BY DEF DispatchInv, Typed, Tokens, TypeOK
<1> QED
  BY <1>1, DispatchInvariant, PTL

\* dispatch never works on more searches at once, for the pass, a user or a
\* marketplace, than the semaphore's capacity, cancellations included: every
\* goroutine at work holds a token of each of its semaphores.
THEOREM LimitsKept == Spec => []WithinLimits
<1>1. DispatchInv => WithinLimits
  <2> SUFFICES ASSUME DispatchInv, NEW p \in Passes, NEW x \in Slots
               PROVE  Cardinality(Busy(p, x)) <= Limit[x]
    BY DEF WithinLimits
  <2>1. Busy(p, x) \subseteq Holders(p, x)
    BY HeldByNumber DEF DispatchInv, InStep, Busy, Holders
  <2>2. /\ Cardinality(Busy(p, x)) <= Cardinality(Holders(p, x))
        /\ IsFiniteSet(Busy(p, x))
    BY <2>1, HoldersFinite, FS_Subset
  <2>3. Cardinality(Busy(p, x)) \in Nat /\ Cardinality(Holders(p, x)) \in Nat
    BY <2>2, HoldersFinite, FS_CardinalityType
  <2> QED
    BY <2>2, <2>3, SlotsAssumption DEF DispatchInv, Tokens
<1> QED
  BY <1>1, DispatchInvariant, PTL
-----------------------------------------------------------------------------
\* While nothing has been excused, what a task in the scorer has read is still
\* the row, and a user that was alerted has a row at or above the threshold.
AlertInv ==
  /\ ~doubled
  /\ ~excused =>
       /\ \A p \in Passes, s \in Searches :
            at[p][s] = "scoring" => prev[p][s] = stored[Owner[s]]
       /\ \A u \in alerted : stored[u] = "high"

\* Saving a judgement: nobody else of the owner was in the scorer, so no copy
\* goes stale, and an alert meets a row below the threshold.
LEMMA JudgeAlerts ==
  ASSUME DispatchInv, AlertInv, NEW p \in Passes, NEW s \in Searches, Judge(p, s)
  PROVE  AlertInv'
<1> DEFINE u == Owner[s]
           others == {q \in Passes \X Searches :
                        /\ q # <<p, s>> /\ Owner[q[2]] = u
                        /\ at[q[1]][q[2]] = "scoring"}
<1>1. u \in Users
  BY NeedSlots
<1>2. PICK outcome \in {"low", "high", "deal"}, saved \in BOOLEAN :
        /\ stored' = IF ~saved THEN stored
                     ELSE [stored EXCEPT ![u] = IF outcome = "low" THEN "low" ELSE "high"]
        /\ alerted' = IF Alertable(prev[p][s], outcome) THEN alerted \cup {u}
                      ELSE IF saved /\ outcome = "low" THEN alerted \ {u} ELSE alerted
        /\ excused' = (excused \/ ~saved \/ others # {})
        /\ doubled' = (doubled \/ (~excused' /\ Alertable(prev[p][s], outcome) /\ u \in alerted))
  BY Zenon DEF Judge
<1>3. CASE excused'
  BY <1>2, <1>3 DEF AlertInv
<1>4. CASE ~excused'
  <2>1. ~excused /\ saved /\ others = {}
    BY <1>2, <1>4
  <2>2. prev[p][s] = stored[u] /\ \A v \in alerted : stored[v] = "high"
    BY <2>1 DEF AlertInv, Judge
  <2>3. Alertable(prev[p][s], outcome) => u \notin alerted /\ outcome = "deal"
    BY <2>2 DEF Alertable
  <2>4. ~doubled'
    BY <1>2, <2>3 DEF AlertInv
  <2>5. /\ stored'[u] = IF outcome = "low" THEN "low" ELSE "high"
        /\ \A v \in Users : v # u => stored'[v] = stored[v]
    BY <1>1, <1>2, <2>1 DEF DispatchInv, Typed
  <2>6. \A v \in alerted' : stored'[v] = "high"
    BY <1>1, <1>2, <2>1, <2>2, <2>3, <2>5 DEF DispatchInv, Typed
  <2>7. ASSUME NEW q \in Passes, NEW t \in Searches, at'[q][t] = "scoring"
        PROVE  prev'[q][t] = stored'[Owner[t]]
    <3>1. at' = [at EXCEPT ![p][s] = "done"] /\ prev' = [prev EXCEPT ![p][s] = "absent"]
      BY DEF Judge, End
    <3>2. <<q, t>> # <<p, s>> /\ at[q][t] = "scoring" /\ prev'[q][t] = prev[q][t]
      BY <2>7, <3>1 DEF DispatchInv, Typed
    <3>3. Owner[t] # u
      <4>1. <<q, t>> \notin others
        BY <2>1
      <4> QED
        BY <3>2, <4>1
    <3>4. Owner[t] \in Users /\ prev[q][t] = stored[Owner[t]]
      BY <2>1, <3>2, NeedSlots DEF AlertInv
    <3> QED
      BY <2>5, <3>2, <3>3, <3>4
  <2> QED
    BY <2>4, <2>6, <2>7 DEF AlertInv
<1> QED
  BY <1>3, <1>4

\* Reading the row: an error that passes for an answer excuses what follows.
LEMMA FetchAlerts ==
  ASSUME DispatchInv, AlertInv, NEW p \in Passes, NEW s \in Searches, Fetch(p, s)
  PROVE  AlertInv'
<1>1. CASE excused'
  BY <1>1 DEF Fetch, AlertInv
<1>2. CASE ~excused'
  <2>1. prev' = [prev EXCEPT ![p][s] = stored[Owner[s]]] /\ ~excused
    BY <1>2 DEF Fetch
  <2>2. /\ prev'[p][s] = stored[Owner[s]]
        /\ \A q \in Passes, t \in Searches :
             <<q, t>> # <<p, s>> => prev'[q][t] = prev[q][t] /\ at'[q][t] = at[q][t]
    BY <2>1 DEF Fetch, DispatchInv, Typed
  <2> QED
    BY <2>1, <2>2 DEF Fetch, AlertInv
<1> QED
  BY <1>1, <1>2

LEMMA AlertInvStep == DispatchInv /\ AlertInv /\ [Next]_vars => AlertInv'
<1> SUFFICES ASSUME DispatchInv, AlertInv, [Next]_vars PROVE AlertInv'
  OBVIOUS
<1> USE DEF listings
<1>1. ASSUME NEW p \in Passes, NEW S \in SUBSET Searches, Dispatch(p, S)
      PROVE  AlertInv'
  BY <1>1 DEF Dispatch, AlertInv, DispatchInv, Typed
<1>2. CASE RunAllNow
  <2>1. PICK S \in SUBSET Searches : Dispatch("loop", S)
    BY <1>2 DEF RunAllNow
  <2> QED
    BY <1>1, <2>1 DEF Passes
<1>3. CASE \E r \in Requests, u \in Users : RunUserNow(r, u)
  <2>1. PICK r \in Requests, u \in Users : Dispatch(r, {s \in Searches : Owner[s] = u})
    BY <1>3 DEF RunUserNow
  <2> QED
    BY <1>1, <2>1 DEF Passes
<1>4. ASSUME NEW p \in Passes, Cancel(p)
      PROVE  AlertInv'
  BY <1>4 DEF Cancel, AlertInv
<1>5. ASSUME NEW p \in Passes, Return(p)
      PROVE  AlertInv'
  BY <1>5 DEF Return, AlertInv, DispatchInv, Typed
<1>6. ASSUME NEW p \in Passes, NEW s \in Searches, Task(p, s)
      PROVE  AlertInv'
  <2>1. CASE Acquire(p, s)
    BY <2>1 DEF Acquire, AlertInv, DispatchInv, Typed
  <2>2. CASE GiveUp(p, s)
    BY <2>2 DEF GiveUp, End, AlertInv, DispatchInv, Typed
  <2>3. CASE EndQuietly(p, s)
    BY <2>3 DEF EndQuietly, End, AlertInv, DispatchInv, Typed
  <2> QED
    BY <1>6, <2>1, <2>2, <2>3, FetchAlerts, JudgeAlerts DEF Task
<1>7. CASE UNCHANGED vars
  BY <1>7 DEF vars, AlertInv
<1> QED
  BY <1>2, <1>3, <1>4, <1>5, <1>6, <1>7 DEF Next

\* However many passes overlap, a user is alerted once for each time the stored
\* score rises to the threshold, unless a database error was swallowed or two
\* tasks of the user had the listing in hand at once.
THEOREM AlertedOncePerRise == Spec => []AlertsOncePerRise
<1>1. Init => AlertInv
  BY DEF Init, AlertInv
<1>2. AlertInv => AlertsOncePerRise
  BY DEF AlertInv, AlertsOncePerRise
<1> QED
  BY <1>1, <1>2, AlertInvStep, DispatchInvariant, PTL DEF Spec
=============================================================================
