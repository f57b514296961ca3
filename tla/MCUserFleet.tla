---- MODULE MCUserFleet ----
(* Instances of UserFleet for TLC: node 2 can be switched off or held. *)
EXTENDS UserFleet, TLC
====
