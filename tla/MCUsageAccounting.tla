-------------------------- MODULE MCUsageAccounting --------------------------
(***************************************************************************)
(* Two nodes, one with a ledger and one that reports only what is now      *)
(* connected.                                                              *)
(***************************************************************************)
EXTENDS UsageAccounting

CONSTANTS ledger, legacy

Nodes == {ledger, legacy}
Ledgers == {ledger}
==============================================================================
