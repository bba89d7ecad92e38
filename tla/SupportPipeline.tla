-------------------------- MODULE SupportPipeline --------------------------
(***************************************************************************)
(* Support threads (internal/api/support_handler.go,                        *)
(* internal/store/support_events.go, internal/support): Plain's webhook and *)
(* the contact form record a thread and push it on a channel that never     *)
(* waits; classifier workers read the thread again, ask a model, page the   *)
(* founder about incidents, open a Linear issue and record the result.      *)
(*                                                                         *)
(* Of a thread's text only matters whether it has an incident keyword, of a *)
(* severity whether it is "incident" (the others are "medium").  Labels,    *)
(* priority and the draft note are written to Plain and never read back.    *)
(***************************************************************************)
EXTENDS Naturals, Sequences, SequencesExt

CONSTANTS
  SupportThreads,
  Handlers,       \* requests being served at once
  Workers,        \* goroutines of the classifier
  QueueSize,      \* capacity of the event channel (64)
  maxRetries,     \* of an SMS (3)
  MaxContacts,    \* bound: messages written and deliveries of the webhook
  MaxTroubles     \* bound: failed database calls and ends of the process

ASSUME SupportAssumption == {QueueSize, maxRetries, MaxContacts, MaxTroubles} \subseteq Nat

VARIABLES
  engine,         \* which store the process was started with
  thread,         \* Plain: "none", or whether the text has a keyword
  event,          \* the table support_events
  channel,        \* supportEvents
  task,           \* what each request and each worker is at
  paged,          \* threads for which Twilio took an SMS
  reported,       \* threads whose SMS was reported to Sentry as failed
  issues,         \* threads with an issue in Linear
  lost,           \* history: threads an event of which was given up, with a log line
  contacts, troubles,
  ending          \* the process was told to stop and the context is cancelled

supportVars == <<engine, thread, event, channel, task, paged, reported, issues, lost,
                 contacts, troubles, ending>>

NoEvent == [severity |-> "no event"]
Resting == [at |-> "rest"]

SupportInit ==
  /\ engine \in {"postgres", "sqlite"}
  /\ thread = [t \in SupportThreads |-> "none"]
  /\ event = [t \in SupportThreads |-> NoEvent]
  /\ channel = <<>>
  /\ task = [p \in Handlers \cup Workers |-> Resting]
  /\ paged = {} /\ reported = {} /\ issues = {} /\ lost = {}
  /\ contacts = 0 /\ troubles = 0 /\ ending = FALSE

Contact == contacts < MaxContacts /\ contacts' = contacts + 1
Trouble == troubles < MaxTroubles /\ troubles' = troubles + 1
NoTrouble == UNCHANGED troubles

Moves(p, at) == task' = [task EXCEPT ![p].at = at]
Rests(p) == task' = [task EXCEPT ![p] = Resting]
GivenUp(p) == Rests(p) /\ lost' = lost \cup {task[p].thread}

-----------------------------------------------------------------------------
(* Plain, and the requests.                                                 *)

\* A customer writes by mail: a new thread, or another message on one.
Write(t) ==
  /\ Contact
  /\ \E text \in {"calm", "alarming"} :
       thread' = [thread EXCEPT ![t] = IF @ = "alarming" THEN @ ELSE text]
  /\ UNCHANGED <<engine, event, channel, task, paged, reported, issues, lost, troubles, ending>>

\* thread.created or thread.message.added, delivered whenever and as often as
\* Plain likes.
handleSupportWebhook(h, t) ==
  /\ task[h] = Resting /\ thread[t] # "none" /\ ~ending
  /\ Contact
  /\ task' = [task EXCEPT ![h] = [at |-> "upsert", thread |-> t, source |-> "email"]]
  /\ UNCHANGED <<engine, thread, event, channel, paged, reported, issues, lost, troubles, ending>>

\* The thread is made in Plain first, which may send its webhook from here on.
handleSupportReport(h, t) ==
  /\ task[h] = Resting /\ thread[t] = "none" /\ ~ending
  /\ Contact
  /\ \E text \in {"calm", "alarming"} : thread' = [thread EXCEPT ![t] = text]
  /\ task' = [task EXCEPT ![h] = [at |-> "upsert", thread |-> t, source |-> "dash_contact"]]
  /\ UNCHANGED <<engine, event, channel, paged, reported, issues, lost, troubles, ending>>

\* A row that is there keeps everything but its source.
EventRow(t, source) ==
  IF event[t] = NoEvent THEN [source |-> source, severity |-> "none", issue |-> FALSE]
  ELSE [event[t] EXCEPT !.source = source]

\* Postgres: one statement.  A failure is a 500, or, for a report, an answer
\* without an event.
UpsertEventFromWebhook(h) ==
  /\ task[h].at = "upsert"
  /\ \/ /\ engine = "postgres"
        /\ event' = [event EXCEPT ![task[h].thread] = EventRow(task[h].thread, task[h].source)]
        /\ Moves(h, "push") /\ NoTrouble /\ UNCHANGED lost
     \/ /\ engine = "sqlite"
        /\ Moves(h, IF event[task[h].thread] = NoEvent THEN "insert" ELSE "update")
        /\ NoTrouble /\ UNCHANGED <<event, lost>>
     \/ Trouble /\ GivenUp(h) /\ UNCHANGED event
  /\ UNCHANGED <<engine, thread, channel, paged, reported, issues, contacts, ending>>

\* SQLite: what was looked up decides; a row that came in between is a
\* violated constraint.
SqliteWriteEvent(h) ==
  /\ task[h].at \in {"insert", "update"}
  /\ IF task[h].at = "insert" /\ event[task[h].thread] # NoEvent
       THEN GivenUp(h) /\ UNCHANGED event
       ELSE /\ event' = [event EXCEPT ![task[h].thread] = EventRow(task[h].thread, task[h].source)]
            /\ Moves(h, "push") /\ UNCHANGED lost
  /\ UNCHANGED <<engine, thread, channel, paged, reported, issues, contacts, troubles, ending>>

\* A send that does not wait: a full channel drops the event, with a warning.
PushOrDrop(h) ==
  IF Len(channel) < QueueSize
    THEN channel' = Append(channel, task[h].thread) /\ UNCHANGED lost
    ELSE lost' = lost \cup {task[h].thread} /\ UNCHANGED channel

Push(h) ==
  /\ task[h].at = "push"
  /\ PushOrDrop(h)
  /\ Rests(h)
  /\ UNCHANGED <<engine, thread, event, paged, reported, issues, contacts, troubles, ending>>

-----------------------------------------------------------------------------
(* A worker: processEvent, call by call.                                    *)

\* With the context cancelled and events waiting, select takes either.
runWorker(w) ==
  /\ task[w] = Resting /\ channel # <<>>
  /\ task' = [task EXCEPT ![w] = [at |-> "read", thread |-> Head(channel)]]
  /\ channel' = Tail(channel)
  /\ UNCHANGED <<engine, thread, event, paged, reported, issues, lost, contacts, troubles, ending>>

\* If Plain does not answer, the id stands for the text.
GetThread(w) ==
  /\ task[w].at = "read"
  /\ \E keyword \in {FALSE} \cup (IF ending THEN {} ELSE {thread[task[w].thread] = "alarming"}) :
       task' = [task EXCEPT ![w] = [at |-> "ask", thread |-> @.thread, keyword |-> keyword]]
  /\ UNCHANGED <<engine, thread, event, channel, paged, reported, issues, lost, contacts, troubles, ending>>

\* What the model answers: well-formed values, or not ("bad JSON" or a value
\* outside its list).
Answers == [ok : {TRUE}, severity : {"medium", "incident"}, project : BOOLEAN]
           \cup {[ok |-> FALSE, severity |-> "medium", project |-> FALSE]}

\* Classify: the keyword overrides a severity that was validated; whatever was
\* not valid becomes the fallback.
Classified(answer, keyword) ==
  IF answer.ok /\ keyword THEN "incident" ELSE answer.severity

\* No model (budget, network, timeout): the event ends in the log.
Complete(w) ==
  /\ task[w].at = "ask"
  /\ \/ /\ ~ending
        /\ \E answer \in Answers :
             LET severity == Classified(answer, task[w].keyword)
             IN task' = [task EXCEPT ![w] =
                  [at |-> IF severity = "incident" THEN "page" ELSE "route", thread |-> @.thread,
                   keyword |-> @.keyword, severity |-> severity, project |-> answer.project, attempt |-> 0]]
        /\ UNCHANGED lost
     \/ GivenUp(w)
  /\ UNCHANGED <<engine, thread, event, channel, paged, reported, issues, contacts, troubles, ending>>

\* Sentry hears of the last failure.
Reported(w) == reported \cup {task[w].thread}

\* sendWithRetry: Twilio takes the SMS, refuses it for good, or fails in a way
\* that may pass, perhaps after it took it.
SendSMS(w) ==
  /\ task[w].at = "page"
  /\ \/ ~ending /\ paged' = paged \cup {task[w].thread} /\ Moves(w, "route") /\ UNCHANGED reported
     \/ ~ending /\ reported' = Reported(w) /\ Moves(w, "route") /\ UNCHANGED paged
     \/ /\ paged' \in {paged} \cup (IF ending THEN {} ELSE {paged \cup {task[w].thread}})
        /\ IF task[w].attempt = maxRetries
             THEN reported' = Reported(w) /\ Moves(w, "route")
             ELSE Moves(w, "wait") /\ UNCHANGED reported
  /\ UNCHANGED <<engine, thread, event, channel, issues, lost, contacts, troubles, ending>>

\* The pause before the next attempt; a cancelled context ends the attempts.
Backoff(w) ==
  /\ task[w].at = "wait"
  /\ \/ task' = [task EXCEPT ![w].at = "page", ![w].attempt = @ + 1]
     \/ ending /\ Moves(w, "route")
  /\ UNCHANGED <<engine, thread, event, channel, paged, reported, issues, lost, contacts, troubles, ending>>

\* An issue where the action has a project; Linear may fail.
CreateIssue(w) ==
  /\ task[w].at = "route"
  /\ \/ /\ task[w].project /\ ~ending
        /\ issues' = issues \cup {task[w].thread}
        /\ Moves(w, "attach")
     \/ Moves(w, "persist") /\ UNCHANGED issues
  /\ UNCHANGED <<engine, thread, event, channel, paged, reported, lost, contacts, troubles, ending>>

\* A failure is only logged.
AttachLinearIssue(w) ==
  /\ task[w].at = "attach"
  /\ \/ ~ending /\ event' = [event EXCEPT ![task[w].thread].issue = TRUE] /\ NoTrouble
     \/ ending /\ NoTrouble /\ UNCHANGED event
     \/ Trouble /\ UNCHANGED event
  /\ Moves(w, "persist")
  /\ UNCHANGED <<engine, thread, channel, paged, reported, issues, lost, contacts, ending>>

\* Fault: the result is saved with a context that was not cancelled.
Saves(w) == TRUE
\* Every call of a worker uses the worker's context.
CanSave(w) == ~ending

AttachClassification(w) ==
  /\ task[w].at = "persist"
  /\ \/ /\ CanSave(w)
        /\ event' = [event EXCEPT ![task[w].thread].severity = task[w].severity]
        /\ Rests(w) /\ NoTrouble /\ UNCHANGED lost
     \/ ending /\ GivenUp(w) /\ NoTrouble /\ UNCHANGED event
     \/ Trouble /\ GivenUp(w) /\ UNCHANGED event
  /\ UNCHANGED <<engine, thread, channel, paged, reported, issues, contacts, ending>>

-----------------------------------------------------------------------------
(* The end of the process.                                                  *)

\* The server takes no more requests and has waited for those it has, though
\* no longer than 15 seconds; then the classifier's context is cancelled.
Shutdown ==
  /\ ~ending
  /\ Trouble
  /\ ending' = TRUE
  /\ UNCHANGED <<engine, thread, event, channel, task, paged, reported, issues, lost, contacts>>

UnderWay == {task[p].thread : p \in {q \in Handlers \cup Workers : task[q] # Resting}}

\* The channel and the goroutines go; no start looks for rows without a result.
RestartSupport ==
  /\ ending \/ troubles < MaxTroubles
  /\ troubles' = IF ending THEN troubles ELSE troubles + 1
  /\ ending' = FALSE
  /\ channel' = <<>>
  /\ task' = [p \in Handlers \cup Workers |-> Resting]
  /\ lost' = lost \cup ToSet(channel) \cup UnderWay
  /\ UNCHANGED <<engine, thread, event, paged, reported, issues, contacts>>

SupportNext ==
  \/ \E t \in SupportThreads :
       \/ Write(t)
       \/ \E h \in Handlers : handleSupportWebhook(h, t) \/ handleSupportReport(h, t)
  \/ \E h \in Handlers : UpsertEventFromWebhook(h) \/ SqliteWriteEvent(h) \/ Push(h)
  \/ \E w \in Workers :
       \/ runWorker(w) \/ GetThread(w) \/ Complete(w) \/ SendSMS(w) \/ Backoff(w)
       \/ CreateIssue(w) \/ AttachLinearIssue(w) \/ AttachClassification(w)
  \/ Shutdown
  \/ RestartSupport

SupportSpec == SupportInit /\ [][SupportNext]_supportVars

-----------------------------------------------------------------------------
(* Properties.                                                              *)

\* No support event disappears without a trace, and no incident stays silent.
\* A row without a result is on its way to a worker, or one of its events was
\* given up with a log line (a full channel, a failed call, a restart).  A row
\* recorded as an incident was paged, or Sentry knows that it was not, also
\* when the process was told to stop between two attempts.  An issue on a row
\* is in Linear.
EventsAccounted ==
  \A t \in SupportThreads : event[t] # NoEvent =>
    /\ event[t].severity = "none" => t \in ToSet(channel) \cup UnderWay \cup lost
    /\ event[t].severity = "incident" => t \in paged \cup reported
    /\ event[t].issue => t \in issues

\* "If the combined body+subject text contains a keyword, severity is forced
\* to SeverityIncident regardless of llmResult.Severity": whatever the model
\* answered, a thread whose text was read and has a keyword is an incident.
KeywordForcesIncident ==
  \A w \in Workers :
    task[w].at \in {"page", "wait", "route", "attach", "persist"} /\ task[w].keyword =>
      task[w].severity = "incident"
=============================================================================
