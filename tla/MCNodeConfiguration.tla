-------------------------- MODULE MCNodeConfiguration --------------------------
(***************************************************************************)
(* NodeConfiguration for TLC: two edits that may overlap, each asking for  *)
(* another port or another address; the second may ask for what is there.  *)
(***************************************************************************)
EXTENDS NodeConfiguration

MCInstalled == [host |-> "a", port |-> 1]
MCWanted == {[host |-> "a", port |-> 2], [host |-> "b", port |-> 1]}
===============================================================================
