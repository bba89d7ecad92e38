----------------------------- MODULE MCAIBudget -----------------------------
(* Instances of AIBudget small enough for TLC.                              *)
EXTENDS AIBudget, TLC

CONSTANTS scorer, reply, owner1

MCScorerSites == {scorer}
MCCallSites == {scorer, reply}
MCOwners == {owner1}
MCActuals == {0, 1, 3}
MCCapRequests == {0, 3, 6, 11}
=============================================================================
