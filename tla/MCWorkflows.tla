---------------------------- MODULE MCWorkflows ----------------------------
(* What requests set going, beside the worker and the books: missions with  *)
(* their searches, the conversation that briefs the assistant, support      *)
(* threads, the public analysis, accounts, and the hourly limits.  They     *)
(* share no state that one of them looks back at, so a behaviour runs one   *)
(* of them.                                                                 *)
EXTENDS Missions, AssistantChat, SupportPipeline, AnonymousAnalyze, Accounts, CallLimits

VARIABLE part
vars == <<part, missionVars, chatVars, supportVars, anonymousVars, accountVars, limitVars>>

WorkflowsInit ==
  /\ part \in {"missions", "chat", "support", "anonymous", "accounts", "limits"}
  /\ MissionsInit /\ ChatInit /\ SupportInit /\ AnonymousInit /\ AccountsInit /\ LimitsInit
  /\ part # "support" => engine = "postgres"

WorkflowsNext ==
  /\ UNCHANGED part
  /\ \/ part = "missions" /\ MissionsNext
        /\ UNCHANGED <<chatVars, supportVars, anonymousVars, accountVars, limitVars>>
     \/ part = "chat" /\ ChatNext
        /\ UNCHANGED <<missionVars, supportVars, anonymousVars, accountVars, limitVars>>
     \/ part = "support" /\ SupportNext
        /\ UNCHANGED <<missionVars, chatVars, anonymousVars, accountVars, limitVars>>
     \/ part = "anonymous" /\ AnonymousNext
        /\ UNCHANGED <<missionVars, chatVars, supportVars, accountVars, limitVars>>
     \/ part = "accounts" /\ AccountsNext
        /\ UNCHANGED <<missionVars, chatVars, supportVars, anonymousVars, limitVars>>
     \/ part = "limits" /\ LimitsNext
        /\ UNCHANGED <<missionVars, chatVars, supportVars, anonymousVars, accountVars>>

WorkflowsSpec ==
  /\ WorkflowsInit /\ [][WorkflowsNext]_vars
  /\ \A m \in Ids : WF_missionVars(part = "missions" /\ Goroutine(m))
=============================================================================
