--------------------------- MODULE MCStripeBilling ---------------------------
(* A customer with up to two subscriptions, two requests at a time and the   *)
(* hourly reconciliation.                                                   *)
EXTENDS StripeBilling

CONSTANTS h1, h2

MCSubs == {1, 2}
MCPaidTiers == {"pro", "power"}
MCReconcilers == {"hourly"}
=============================================================================
