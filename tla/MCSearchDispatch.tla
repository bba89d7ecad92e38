-------------------------- MODULE MCSearchDispatch --------------------------
(* Alice has two searches on two marketplaces and one slot, bob has one on   *)
(* the first; the pass has two.  The loop and one run-now request overlap.   *)
EXTENDS SearchDispatch, TLC

CONSTANTS alice, bob, mp1, mp2, r1

MCUsers == {alice, bob}
MCMarkets == {mp1, mp2}
MCOwner == 1 :> alice @@ 2 :> alice @@ 3 :> bob
MCMarket == 1 :> mp1 @@ 2 :> mp2 @@ 3 :> mp1
MCFinders == {alice}
MCNone == {}
MCLimit == [x \in Slots |-> IF x = Global THEN 2 ELSE 1]
=============================================================================
