-------------------------- MODULE MCSearchSchedule --------------------------
(* Two instances: alice, a paid user with two searches and one slot, alone    *)
(* (her two due searches overload the pool); and alice with bob, a free user *)
(* with one search and one slot, for deferral across users.                 *)
EXTENDS SearchSchedule, TLC

CONSTANTS alice, bob, r1

MCSearchesOne == {1, 2}
MCSearchesTwo == {1, 2, 3}
MCUsersOne == {alice}
MCUsersTwo == {alice, bob}
MCOwnerOne == 1 :> alice @@ 2 :> alice
MCOwnerTwo == 1 :> alice @@ 2 :> alice @@ 3 :> bob
MCPaidUsers == {alice}
MCOneSlotEach == [u \in Users |-> 1]
MCWeightOne == 1 :> 2 @@ 2 :> 1
MCWeightTwo == 1 :> 2 @@ 2 :> 2 @@ 3 :> 0
MCEveryTick == [s \in Searches |-> 1]
=============================================================================
