--------------------------- MODULE MCLifecycleLock ---------------------------
(***************************************************************************)
(* Two parts of the panel that hold something for a limited time, checked  *)
(* side by side: a behaviour is one of the lock rows of a user's routes or *)
(* one of the bandwidth policy and its leases, and the other stays as it   *)
(* began.                                                                  *)
(*                                                                         *)
(* Of the lock, three requests: one that overstays, one that takes over    *)
(* from it and one that comes in afterwards; times are in units of which a *)
(* lock lasts few. Of the policy, two requests that overlap on two nodes.  *)
(***************************************************************************)
EXTENDS LifecycleLock

CONSTANTS Node, User, Requests, MaxAsked

VARIABLES part, policy, nodes, group, members, slowed, req, rec, asked

bandwidth == <<policy, nodes, group, members, slowed, req, rec, asked>>

Bandwidth == INSTANCE BandwidthControl WITH row <- policy

Begins ==
  /\ LockInit /\ Bandwidth!Init
  /\ part \in {"lock", "bandwidth"}
  /\ part = "lock" => policy = Bandwidth!NoPolicy /\ members = {}

LockSteps      == part = "lock" /\ LockNext /\ UNCHANGED <<part, bandwidth>>
BandwidthSteps == part = "bandwidth" /\ Bandwidth!Next /\ UNCHANGED <<part, lockVars>>

\* The fairness of BandwidthControl, asked only where the policy is looked at.
Fairness ==
  /\ WF_bandwidth(part = "bandwidth" /\ Bandwidth!ReconcileStep)
  /\ WF_bandwidth(part = "bandwidth" /\ Bandwidth!RequestStep)
  /\ \A n \in Node : /\ WF_bandwidth(part = "bandwidth" /\ Bandwidth!LeaseEnds(n))
                     /\ SF_bandwidth(part = "bandwidth" /\ Bandwidth!Renew(n))

Leases ==
  /\ Begins
  /\ [][LockSteps \/ BandwidthSteps]_<<part, lockVars, bandwidth>>
  /\ Fairness

(* BandwidthControl: the nodes follow the policy of the row in the end.       *)
PolicyReigns == Bandwidth!PolicyReigns
==============================================================================
