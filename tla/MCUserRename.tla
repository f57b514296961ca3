---------------------------- MODULE MCUserRename ----------------------------
(***************************************************************************)
(* Two nodes are enough for a loop that stops half-way: one node before    *)
(* and one after the failure, the crash or the deletion.                   *)
(***************************************************************************)
EXTENDS UserRename

TwoNodes == {1, 2}
NoNode == {}
LastNode == {2}
=============================================================================
