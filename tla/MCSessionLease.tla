---------------------------- MODULE MCSessionLease ----------------------------
(***************************************************************************)
(* Two connections on one node: enough for a limit of one device to be     *)
(* met, exceeded and lowered to, and for rows to outlive connections.      *)
(***************************************************************************)
EXTENDS SessionLease

CONSTANTS n1, a, b

OneNode == {n1}
Conns == {a, b}
Homes == [c \in Conns |-> n1]
OneOrTwo == {1, 2}
One == {1}
==============================================================================
