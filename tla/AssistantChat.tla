--------------------------- MODULE AssistantChat ---------------------------
(***************************************************************************)
(* The brief conversation of one user (internal/assistant/assistant.go:     *)
(* Converse and what it calls, behind POST /assistant/converse).            *)
(*                                                                         *)
(* A message starts a brief or answers the question the stored session      *)
(* asks.  A brief without gaps becomes a mission, and the session is        *)
(* cleared.  Every database call is a step: two tabs of one user share the  *)
(* session and nothing locks it.                                            *)
(***************************************************************************)
EXTENDS Naturals

CONSTANTS
  Chats,        \* messages being handled at once
  Briefs,       \* 1..n: bound on the briefs ever parsed
  MaxMishaps    \* bound on failed database calls and exhausted quotas

ASSUME BriefsAssumption == Briefs \subseteq Nat \ {0}
ASSUME MaxMishapsAssumption == MaxMishaps \in Nat

VARIABLES
  session,      \* assistant_sessions: the draft brief and what it lacks
  chat,         \* what each message being handled is at
  made,         \* missions inserted for each brief (2 stands for more)
  tangled,      \* history: briefs answered twice at once, or not cleared
  mishaps

chatVars == <<session, chat, made, tangled, mishaps>>

Slots == {"target_query", "budget_max", "condition"}
NoSession == [brief |-> 0]
Quiet == [at |-> "quiet"]
Unparsed == 3

ChatInit ==
  /\ session = NoSession
  /\ chat = [c \in Chats |-> Quiet]
  /\ made = [b \in Briefs |-> Unparsed]
  /\ tangled = {}
  /\ mishaps = 0

\* The session once draft b lacks these slots.
Draft(b, missing) == [brief |-> b, missing |-> missing]

\* The question asked first is about the first slot that is missing.
nextProfileQuestion(missing) ==
  IF "target_query" \in missing THEN "target_query"
  ELSE IF "budget_max" \in missing THEN "budget_max"
  ELSE "condition"

\* A session with a draft takes every message as an answer.
PendingBrief(s) == s # NoSession

\* What is left once the pending question is answered: no number, no budget;
\* any words are a target, and a condition has a default.
applyAnswerToProfile(missing, understood) ==
  missing \ (IF nextProfileQuestion(missing) = "budget_max" /\ ~understood
               THEN {} ELSE {nextProfileQuestion(missing)})

Elsewhere(c, b) == \E d \in Chats \ {c} : chat[d] # Quiet /\ chat[d].at # "parse" /\ chat[d].brief = b

To(c, at) == chat' = [chat EXCEPT ![c].at = at]
End(c) == chat' = [chat EXCEPT ![c] = Quiet]
Mishap == mishaps < MaxMishaps /\ mishaps' = mishaps + 1

\* handleConverse has let the user through; the session is read once.
Converse(c) ==
  /\ chat[c] = Quiet
  /\ IF PendingBrief(session)
       THEN /\ chat' = [chat EXCEPT ![c] =
                 [at |-> "answer", brief |-> session.brief, missing |-> session.missing]]
            /\ tangled' = tangled \cup {b \in {session.brief} : Elsewhere(c, b)}
       ELSE \* "help", "show matches" and "compare" change nothing
            /\ chat' = [chat EXCEPT ![c] = [at |-> "parse"]]
            /\ UNCHANGED tangled
  /\ UNCHANGED <<session, made, mishaps>>

\* A brief from the model or from the words alone, which may lack anything;
\* only a spent AI budget ends the request (503).
parseBrief(c) ==
  /\ chat[c].at = "parse"
  /\ \/ \E b \in Briefs, missing \in SUBSET Slots :
          /\ made[b] = Unparsed /\ \A e \in Briefs : e < b => made[e] # Unparsed
          /\ made' = [made EXCEPT ![b] = 0]
          /\ chat' = [chat EXCEPT ![c] =
               [at |-> IF missing = {} THEN "start" ELSE "ask", brief |-> b, missing |-> missing]]
          /\ UNCHANGED mishaps
     \/ Mishap /\ End(c) /\ UNCHANGED made
  /\ UNCHANGED <<session, tangled>>

Answer(c) ==
  /\ chat[c].at = "answer"
  /\ \E understood \in BOOLEAN :
       LET missing == applyAnswerToProfile(chat[c].missing, understood)
       IN chat' = [chat EXCEPT ![c] =
            [at |-> IF missing = {} THEN "continue" ELSE "ask", brief |-> @.brief, missing |-> missing]]
  /\ UNCHANGED <<session, made, tangled, mishaps>>

\* SaveAssistantSession replaces whatever the row holds.
Ask(c) ==
  /\ chat[c].at = "ask"
  /\ \/ session' = Draft(chat[c].brief, chat[c].missing) /\ UNCHANGED mishaps
     \/ Mishap /\ UNCHANGED session
  /\ End(c)
  /\ UNCHANGED <<made, tangled>>

\* Fault: continueBriefConversation returns without clearing the session.
DoneWithoutClear(c) == IF chat[c].at = "continue" THEN End(c) ELSE To(c, "clear")
\* Both ways of making a mission clear the session afterwards.
ThenClear(c) == To(c, "clear")

\* The mission row; a failure leaves the session as it is.  No limit on
\* missions is looked at on this path.
MakeMission(c) ==
  /\ chat[c].at \in {"start", "continue"}
  /\ \/ /\ made' = [made EXCEPT ![chat[c].brief] = IF @ < 2 THEN @ + 1 ELSE @]
        /\ ThenClear(c)
        /\ UNCHANGED mishaps
     \/ Mishap /\ End(c) /\ UNCHANGED made
  /\ UNCHANGED <<session, tangled>>

\* The error of ClearAssistantSession is ignored.
ClearSession(c) ==
  /\ chat[c].at = "clear"
  /\ \/ session' = NoSession /\ UNCHANGED <<mishaps, tangled>>
     \/ /\ Mishap
        /\ tangled' = tangled \cup {b \in {session.brief} : session # NoSession}
        /\ UNCHANGED session
  /\ End(c)
  /\ UNCHANGED made

Conversing(c) == parseBrief(c) \/ Answer(c) \/ Ask(c) \/ MakeMission(c) \/ ClearSession(c)
ChatNext == \E c \in Chats : Converse(c) \/ Conversing(c)
ChatSpec == ChatInit /\ [][ChatNext]_chatVars

-----------------------------------------------------------------------------
\* A brief makes one mission, and its session asks nothing once it has:
\* a message can only make a second one if two answers to the brief were in
\* flight together, or if the session could not be cleared.
BriefMakesOneMission ==
  \A b \in Briefs \ tangled :
    /\ made[b] # 2
    /\ made[b] = 1 /\ session.brief = b => \E c \in Chats : chat[c].at = "clear" /\ chat[c].brief = b
=============================================================================
