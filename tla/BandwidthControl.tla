--------------------------- MODULE BandwidthControl ---------------------------
(* The emergency bandwidth policy: one row of the panel's database, requests  *)
(* that apply a policy node by node before they write it, a timer's process   *)
(* that renews it on the nodes every minute, and nodes that slow down the     *)
(* users they are told until their lease of three minutes runs out.           *)
(*                                                                            *)
(* The node's side is not in this repository; it is taken to do what it is    *)
(* told.  Rates and revisions are left out: nothing here reads a revision but *)
(* to write a greater one.  Foreign keys are enforced, as PostgreSQL does.    *)
EXTENDS Naturals

CONSTANTS
  Node, User,
  Requests,      \* requests of the administrator that can be under way at once
  MaxAsked       \* bound on the requests that change something

VARIABLES
  row,        \* bandwidth_settings
  nodes,      \* node rows
  group,      \* whether the group exists
  members,    \* user_bandwidth_groups
  slowed,     \* whom each node slows down
  req,        \* activate and disable, between their awaits
  rec,        \* the reconciler's process
  asked

vars == <<row, nodes, group, members, slowed, req, rec, asked>>

Policies == [target : {"all", "group"}, nodes : SUBSET Node \ {{}}]
Idle == [at |-> "idle", policy |-> [target |-> "all", nodes |-> {}],
         users |-> {}, todo |-> {}, applied |-> {}]
Work == [at : {"idle", "apply", "persist", "expire", "disable"},
         policy : [target : {"all", "group"}, nodes : SUBSET Node],
         users : SUBSET User, todo : SUBSET Node, applied : SUBSET Node]

TypeOK ==
  /\ row \in [enabled : BOOLEAN, target : {"all", "group"}, nodes : SUBSET Node,
              over : BOOLEAN]
  /\ nodes \in SUBSET Node /\ nodes # {}
  /\ group \in BOOLEAN /\ members \in SUBSET User
  /\ slowed \in [Node -> SUBSET User]
  /\ req \in [Requests -> Work] /\ rec \in Work
  /\ asked \in 0..MaxAsked

(* The row that ensure_settings makes, or the last policy of an earlier time. *)
NoPolicy == [enabled |-> FALSE, target |-> "all", nodes |-> {}, over |-> FALSE]
Init ==
  /\ row \in {NoPolicy, [NoPolicy EXCEPT !.enabled = TRUE, !.nodes = Node]}
  /\ nodes = Node
  /\ group = TRUE /\ members \in SUBSET User
  /\ slowed = [n \in Node |-> {}]
  /\ req = [r \in Requests |-> Idle]
  /\ rec = Idle
  /\ asked = 0

-----------------------------------------------------------------------------
Targets(policy)  == IF policy.target = "all" THEN User ELSE members
PlansFor(policy) == policy.nodes \subseteq nodes
ValidFor(policy) == policy.target = "group" => group

Apply(policy) == [Idle EXCEPT !.at = "apply", !.users = Targets(policy), !.todo = policy.nodes]
DisableOn(ns) == [Idle EXCEPT !.at = "disable", !.todo = ns]

(* A call to a node, heard or not; its answer is another matter.              *)
Told(n, users)  == slowed' = [slowed EXCEPT ![n] = users]
Call(n, users)  == Told(n, users) \/ slowed' = slowed

Asks == asked < MaxAsked /\ asked' = asked + 1

Activate(r, policy) ==
  /\ req[r].at = "idle" /\ Asks
  /\ ValidFor(policy) /\ PlansFor(policy)
  /\ req' = [req EXCEPT ![r] = [Apply(policy) EXCEPT !.policy = policy]]
  /\ UNCHANGED <<row, nodes, group, members, slowed, rec>>

(* The canary comes first, then the others; the first that does not confirm   *)
(* ends it, and the nodes that did are told to stop.                          *)
ApplyNext(r) ==
  \E n \in req[r].todo :
    /\ req[r].at = "apply"
    /\ \/ /\ Told(n, req[r].users)
          /\ req' = [req EXCEPT ![r].todo = @ \ {n}, ![r].applied = @ \cup {n}]
       \/ /\ Call(n, req[r].users)
          /\ req' = [req EXCEPT ![r] = DisableOn(req[r].applied)]
    /\ UNCHANGED <<row, nodes, group, members, rec, asked>>

(* The row is written when all have confirmed; a group that is gone by then   *)
(* fails the commit, and what was applied is taken back.                      *)
Persist(r) ==
  /\ req[r].at = "apply" /\ req[r].todo = {}
  /\ LET policy == req[r].policy
     IN  IF ValidFor(policy)
         THEN /\ row' = [enabled |-> TRUE, target |-> policy.target,
                          nodes |-> policy.nodes, over |-> FALSE]
              /\ req' = [req EXCEPT ![r] = Idle]
         ELSE /\ req' = [req EXCEPT ![r] = DisableOn(req[r].applied)]
              /\ UNCHANGED row
  /\ UNCHANGED <<nodes, group, members, slowed, rec, asked>>

(* The row first, then every node, whatever each of them answers.             *)
Disable(r) ==
  /\ req[r].at = "idle" /\ Asks
  /\ row' = [row EXCEPT !.enabled = FALSE, !.over = FALSE]
  /\ req' = [req EXCEPT ![r] = DisableOn(nodes)]
  /\ UNCHANGED <<nodes, group, members, slowed, rec>>

DisableNext(r) ==
  /\ req[r].at = "disable"
  /\ \/ \E n \in req[r].todo :
          /\ Call(n, {})
          /\ req' = [req EXCEPT ![r].todo = @ \ {n}]
     \/ /\ req[r].todo = {}
        /\ req' = [req EXCEPT ![r] = Idle]
        /\ UNCHANGED slowed
  /\ UNCHANGED <<row, nodes, group, members, rec, asked>>

(* Looking at the configuration switches an expired policy off, in the row.   *)
GetConfiguration ==
  /\ row.enabled /\ row.over
  /\ row' = [row EXCEPT !.enabled = FALSE]
  /\ UNCHANGED <<nodes, group, members, slowed, req, rec, asked>>

ReplaceMembers(us) ==
  /\ group /\ us # members /\ Asks
  /\ members' = us
  /\ UNCHANGED <<row, nodes, group, slowed, req, rec>>

DeleteGroup ==
  /\ group /\ ~(row.enabled /\ row.target = "group") /\ Asks
  /\ group' = FALSE /\ members' = {}
  /\ UNCHANGED <<row, nodes, slowed, req, rec>>

DeleteNode(n) ==
  /\ n \in nodes /\ nodes # {n} /\ Asks
  /\ nodes' = nodes \ {n}
  /\ UNCHANGED <<row, group, members, slowed, req, rec>>

-----------------------------------------------------------------------------
(* The reconciler: started by its timer, it reads the row once.               *)
Reconciles ==
  \/ /\ row.over
     /\ rec' = [Idle EXCEPT !.at = "expire"]
  \/ /\ ~row.over /\ PlansFor(row)
     /\ rec' = Apply(row)

\* Wrong: a policy that was switched off is renewed.
ReconcileUnasked ==
  /\ rec.at = "idle" /\ row.nodes # {}
  /\ Reconciles
  /\ UNCHANGED <<row, nodes, group, members, slowed, req, asked>>

(* A node of the policy that is not known any more fails it before it calls   *)
(* any node.                                                                  *)
Reconcile ==
  /\ rec.at = "idle" /\ row.enabled
  /\ Reconciles
  /\ UNCHANGED <<row, nodes, group, members, slowed, req, asked>>

(* What it writes is what it read, off: an activation that was written in     *)
(* between is switched off with it.                                           *)
ReconcileExpires ==
  /\ rec.at = "expire"
  /\ row' = [row EXCEPT !.enabled = FALSE]
  /\ rec' = DisableOn(nodes)
  /\ UNCHANGED <<nodes, group, members, slowed, req, asked>>

Renew(n) ==
  /\ rec.at = "apply" /\ n \in rec.todo
  /\ Told(n, rec.users)
  /\ rec' = [rec EXCEPT !.todo = @ \ {n}]
  /\ UNCHANGED <<row, nodes, group, members, req, asked>>

(* One node that does not answer does not keep the others from their lease.   *)
NotRenewed(n) ==
  /\ rec.at = "apply" /\ n \in rec.todo
  /\ rec' = [rec EXCEPT !.todo = @ \ {n}]
  /\ UNCHANGED <<row, nodes, group, members, slowed, req, asked>>

ReconcileDisables(n) ==
  /\ rec.at = "disable" /\ n \in rec.todo
  /\ Call(n, {})
  /\ rec' = [rec EXCEPT !.todo = @ \ {n}]
  /\ UNCHANGED <<row, nodes, group, members, req, asked>>

ReconcileEnds ==
  /\ rec.at \in {"apply", "disable"} /\ rec.todo = {}
  /\ rec' = Idle
  /\ UNCHANGED <<row, nodes, group, members, slowed, req, asked>>

ReconcileStep ==
  \/ Reconcile \/ ReconcileExpires \/ ReconcileEnds
  \/ \E n \in Node : Renew(n) \/ NotRenewed(n) \/ ReconcileDisables(n)

-----------------------------------------------------------------------------
(* A node that was not told again in three minutes goes back to what it was.  *)
(* It can happen between two runs of the reconciler: each node that does not  *)
(* answer holds it up.                                                        *)
LeaseEnds(n) ==
  /\ slowed[n] # {}
  /\ Told(n, {})
  /\ UNCHANGED <<row, nodes, group, members, req, rec, asked>>

(* The end of a policy comes while it is in force, or never.                  *)
PolicyElapses ==
  /\ row.enabled /\ ~row.over
  /\ row' = [row EXCEPT !.over = TRUE]
  /\ UNCHANGED <<nodes, group, members, slowed, req, rec, asked>>

PanelCrash ==
  /\ \E r \in Requests : req[r].at # "idle"
  /\ req' = [r \in Requests |-> Idle]
  /\ UNCHANGED <<row, nodes, group, members, slowed, rec, asked>>

ReconcilerKilled ==
  /\ rec.at # "idle"
  /\ rec' = Idle
  /\ UNCHANGED <<row, nodes, group, members, slowed, req, asked>>

RequestStep == \E r \in Requests : ApplyNext(r) \/ Persist(r) \/ DisableNext(r)

Next ==
  \/ RequestStep \/ ReconcileStep
  \/ GetConfiguration \/ DeleteGroup \/ PolicyElapses \/ PanelCrash \/ ReconcilerKilled
  \/ \E r \in Requests : Disable(r) \/ \E p \in Policies : Activate(r, p)
  \/ \E us \in SUBSET User : ReplaceMembers(us)
  \/ \E n \in Node : DeleteNode(n) \/ LeaseEnds(n)

Spec == Init /\ [][Next]_vars

\* The timer runs, a request goes on, a lease ends, and a node that is called
\* again and again hears one of the calls.
FairSpec ==
  /\ Spec
  /\ WF_vars(ReconcileStep) /\ WF_vars(RequestStep)
  /\ \A n \in Node : WF_vars(LeaseEnds(n)) /\ SF_vars(Renew(n))

-----------------------------------------------------------------------------
(* Whom a node is to slow down.  A policy that names a node that is gone is   *)
(* renewed on none.                                                           *)
Wanted(n) ==
  IF row.enabled /\ ~row.over /\ PlansFor(row) /\ n \in row.nodes
  THEN Targets(row) ELSE {}

(* When the administrator has done, a node slows down no one whom the policy  *)
(* of the row does not name, however requests, renewals, lost answers and     *)
(* crashes overlapped, and it slows down again and again all whom it names.   *)
PolicyReigns ==
  \A n \in Node : /\ <>[](slowed[n] \subseteq Wanted(n))
                  /\ []<>(slowed[n] = Wanted(n))
=============================================================================
