------------------------- MODULE OutreachLifecycle -------------------------
(***************************************************************************)
(* What the outreach feature promises of each conversation with a seller    *)
(* (internal/outreach/state.go and the comments of                          *)
(* internal/store/outreach_threads.go): it starts awaiting a reply, may go  *)
(* stale, and a reply ends it whether it was stale or not.  Nothing brings  *)
(* it back.                                                                 *)
(***************************************************************************)
CONSTANT Threads  \* what a thread is about: a user and a listing

VARIABLE state

States == {"none", "awaiting_reply", "stale", "replied"}

Init == state = [t \in Threads |-> "none"]

Send(t) ==
  /\ state[t] = "none"
  /\ state' = [state EXCEPT ![t] = "awaiting_reply"]

\* Any number of threads lapse at once.
Expire(late) ==
  /\ late # {} /\ \A t \in late : state[t] = "awaiting_reply"
  /\ state' = [t \in Threads |-> IF t \in late THEN "stale" ELSE state[t]]

Reply(t) ==
  /\ state[t] \in {"awaiting_reply", "stale"}
  /\ state' = [state EXCEPT ![t] = "replied"]

Next ==
  \/ \E t \in Threads : Send(t) \/ Reply(t)
  \/ \E late \in SUBSET Threads : Expire(late)

\* A thread is not left waiting for ever.
Lapse(t) == \E late \in SUBSET Threads : t \in late /\ Expire(late)

\* What may happen, and that what must happen does.
Safety == Init /\ [][Next]_state
Spec == Safety /\ \A t \in Threads : WF_state(Lapse(t))
=============================================================================
