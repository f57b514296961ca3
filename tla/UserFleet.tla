------------------------------ MODULE UserFleet ------------------------------
(***************************************************************************)
(* One username, its row in the panel's database and its identities on the *)
(* nodes, under everybody who changes them: the panel's user routes (one   *)
(* at a time, LifecycleLock), the integration routes and the enforcement   *)
(* job, which take no lock, the reconciler, and subscription downloads.    *)
(*                                                                         *)
(* Every one of them reads the row, then awaits one node after the other,  *)
(* and only then writes or answers. A call may be lost, and a build may go *)
(* on after the panel has stopped waiting for it; the node's operation     *)
(* lock refuses everything else meanwhile.                                 *)
(*                                                                         *)
(* Abstracted: what decides about a user's access (expiry, total, used),   *)
(* so an edit may find either and the job may find any active user due;    *)
(* the job's list, which UsageAccounting has; owners, credit, router and   *)
(* AnyConnect credentials.                                                 *)
(***************************************************************************)
EXTENDS Naturals, FiniteSets

CONSTANTS Node, None,
          MaxRequests,  \* requests to the panel
          Movable,      \* nodes whose control state may change,
          MaxMoves      \* so many times

ASSUME FleetAssumption == Node \subseteq Nat \ {0} /\ IsFiniteSet(Node) /\ Movable \subseteq Node
                            /\ MaxRequests \in Nat /\ MaxMoves \in Nat

VARIABLES
    row,      \* None, or [id, active, nodes]; nodes = {}: a legacy user
    ident,    \* ident[n]: [profile, ccd] on the node
    late,     \* late[n]: a build runs that nobody waits for
    control,  \* control[n]: "open", "held" (drain, maintenance) or "off"
    walk,     \* walk[a]: the request that actor a works on
    repair,   \* the reconciler's pass
    company,  \* actors whose request has had another one beside it
    requests, moves

vars == <<row, ident, late, control, walk, repair, company, requests, moves>>

Actor == {"panel", "integration", "enforcer"}

Absent == [profile |-> FALSE, ccd |-> FALSE]
Built == [profile |-> TRUE, ccd |-> TRUE]

Idle == [op |-> "idle", id |-> 0, phase |-> "idle", left |-> {}, done |-> {}, ok |-> TRUE,
         on |-> FALSE, goal |-> {}, added |-> {}, tells |-> FALSE]
Resting == [phase |-> "idle", id |-> 0, left |-> {}]

Open == {n \in Node : control[n] = "open"}

\* Nodes of the fleet that are not followed here; calls to them are left out.
Elsewhere == 0
NodeSets == ((SUBSET Node) \ {{}}) \cup {{Elsewhere}}

\* get_user_nodes; a user without rows is a legacy user and has them all.
Assigned(r) == IF r.nodes = {} THEN Node ELSE r.nodes \cap Node
MyRow(a) == row # None /\ row.id = walk[a].id

(***************************************************************************)
(* What a call can make of an identity `id` on a node that is busy with a  *)
(* build nobody waits for, or not, and what the panel sees of it.          *)
(***************************************************************************)
Lost(id, busy) == [to |-> id, ok |-> FALSE, late |-> busy]
Served(id, ok) == [to |-> id, ok |-> ok, late |-> FALSE]

BuildReplies(id, busy) ==
  {Lost(id, busy)} \cup
  (IF busy THEN {} ELSE {Served(Built, TRUE), Served(Built, FALSE), Lost(id, TRUE)})

\* Wrong: without the operation lock, a status change beside a build.
StatusRepliesUnlocked(id, busy, on) ==
  {Lost(id, busy)} \cup {[to |-> [id EXCEPT !.ccd = on], ok |-> ok, late |-> busy] : ok \in BOOLEAN}

StatusReplies(id, busy, on) ==
  {Lost(id, busy)} \cup
  (IF busy THEN {} ELSE {Served([id EXCEPT !.ccd = on], ok) : ok \in BOOLEAN})

\* The CCD entry goes first; the profile goes even if the revocation fails.
DeleteReplies(id, busy) ==
  {Lost(id, busy)} \cup (IF busy THEN {} ELSE {Served(Absent, ok) : ok \in BOOLEAN})

\* Newly assigned: a failed build falls back to the status; the identity of
\* an inactive user is switched off, or deleted when that fails.
ProvisionReplies(id, busy, on) ==
  {Lost(id, busy)} \cup UNION
    {IF ~b.ok THEN StatusReplies(b.to, b.late, on)
     ELSE IF on THEN {b}
     ELSE UNION {IF r.ok THEN {r}
                 ELSE {[d EXCEPT !.ok = FALSE] : d \in DeleteReplies(r.to, r.late)}
                 : r \in StatusReplies(b.to, b.late, FALSE)}
     : b \in BuildReplies(id, busy)}

Took(n, reply) ==
  /\ ident' = [ident EXCEPT ![n] = reply.to]
  /\ late' = [late EXCEPT ![n] = reply.late]

-----------------------------------------------------------------------------
(***************************************************************************)
(* Beginning and ending a request.                                         *)
(***************************************************************************)
Running == {a \in Actor : walk[a] # Idle}

Begins(a, w) ==
  /\ walk[a] = Idle
  /\ requests < MaxRequests
  /\ requests' = requests + 1
  /\ walk' = [walk EXCEPT ![a] = w]
  /\ company' = IF Running = {} /\ repair = Resting THEN {}
                ELSE company \cup Running \cup {a}

Ends(a) ==
  /\ walk' = [walk EXCEPT ![a] = Idle]
  /\ company' = company \ {a}
  /\ UNCHANGED <<ident, late, control, repair, requests, moves>>

Goes(a, n, ok) == \* the walk has passed node n
  walk' = [walk EXCEPT ![a].left = @ \ {n}, ![a].ok = @ /\ ok,
                       ![a].done = IF ok /\ walk[a].op # "status" THEN @ \cup {n} ELSE @]

\* Nodes are taken by id, but the panel's deletion asks all at once.
Turn(a, op, phase, n) ==
  /\ walk[a].op = op /\ walk[a].phase = phase /\ n \in walk[a].left
  /\ <<a, op>> = <<"panel", "delete">> \/ \A m \in walk[a].left : n <= m
  /\ UNCHANGED <<row, control, repair, requests, moves, company>>

AllPassed(a, op, phase) == walk[a].op = op /\ walk[a].phase = phase /\ walk[a].left = {}

-----------------------------------------------------------------------------
(***************************************************************************)
(* change_user_status_on_assigned_nodes: the nodes one by one, then the    *)
(* row. A status request does only that; a renewal and an edit commit the  *)
(* row first; the enforcement job disables. Only a renewal tells its       *)
(* caller what the nodes said (node_sync); the others answer success.      *)
(***************************************************************************)
StatusWalk(r, on, tells) ==
  [Idle EXCEPT !.op = "status", !.id = r.id, !.phase = "nodes", !.left = Assigned(r), !.on = on,
               !.tells = tells]

SetStatus(a, on) ==
  /\ a \in {"panel", "integration"} /\ row # None
  /\ Begins(a, StatusWalk(row, on, FALSE))
  /\ UNCHANGED <<row, ident, late, control, repair, moves>>

Renew(a) ==
  /\ a \in {"panel", "integration"} /\ row # None
  /\ Begins(a, StatusWalk(row, TRUE, TRUE))
  /\ row' = [row EXCEPT !.active = TRUE]
  /\ UNCHANGED <<ident, late, control, repair, moves>>

\* The new limits, and the integration's wish, decide about `on`.
Edit(a, on) ==
  /\ a \in {"panel", "integration"} /\ row # None
  /\ Begins(a, StatusWalk(row, on, FALSE))
  /\ row' = [row EXCEPT !.active = on]
  /\ UNCHANGED <<ident, late, control, repair, moves>>

Enforce ==
  /\ row # None /\ row.active
  /\ Begins("enforcer", StatusWalk(row, FALSE, FALSE))
  /\ UNCHANGED <<row, ident, late, control, repair, moves>>

StatusSkipped(a, n) ==
  /\ Turn(a, "status", "nodes", n) /\ control[n] = "off"
  /\ Goes(a, n, FALSE)
  /\ UNCHANGED <<ident, late>>

StatusCall(a, n) ==
  /\ Turn(a, "status", "nodes", n) /\ control[n] # "off"
  /\ \E reply \in StatusReplies(ident[n], late[n], walk[a].on) : Took(n, reply) /\ Goes(a, n, reply.ok)

\* A row that has been deleted meanwhile makes the route fail.
StatusDone(a) ==
  /\ AllPassed(a, "status", "nodes")
  /\ row' = IF MyRow(a) THEN [row EXCEPT !.active = walk[a].on] ELSE row
  /\ Ends(a)

-----------------------------------------------------------------------------
(***************************************************************************)
(* Creating. The panel's route inserts the user and its nodes in one       *)
(* commit; the integration's route needs two, and other processes may read *)
(* in between. The nodes are provisioned as far as they answer.            *)
(***************************************************************************)
NewRow(nodes) == [id |-> requests + 1, active |-> TRUE, nodes |-> nodes]

CreateWalk(phase, S) ==
  [Idle EXCEPT !.op = "create", !.id = requests + 1, !.phase = phase, !.left = S \cap Node, !.goal = S, !.on = TRUE]

Create(S) ==
  /\ row = None /\ S \in NodeSets /\ S \cap Node \subseteq Open
  /\ Begins("panel", CreateWalk("nodes", S))
  /\ row' = NewRow(S)
  /\ UNCHANGED <<ident, late, control, repair, moves>>

CreateBare(S) ==
  /\ row = None /\ S \in NodeSets /\ S \cap Node \subseteq Open
  /\ Begins("integration", CreateWalk("assign", S))
  /\ row' = NewRow({})
  /\ UNCHANGED <<ident, late, control, repair, moves>>

\* No await lies between: the panel's own routes cannot intervene.
BetweenCommits == walk["integration"].phase = "assign"

SetUserNodes ==
  /\ BetweenCommits
  /\ row' = [row EXCEPT !.nodes = walk["integration"].goal]
  /\ walk' = [walk EXCEPT !["integration"].phase = "nodes"]
  /\ UNCHANGED <<ident, late, control, repair, requests, moves, company>>

CreateSkipped(a, n) ==
  /\ Turn(a, "create", "nodes", n) /\ control[n] # "open"
  /\ Goes(a, n, FALSE)
  /\ UNCHANGED <<ident, late>>

CreateCall(a, n) ==
  /\ Turn(a, "create", "nodes", n) /\ control[n] = "open"
  /\ \E reply \in BuildReplies(ident[n], late[n]) : Took(n, reply) /\ Goes(a, n, reply.ok)

CreateDone(a) ==
  /\ AllPassed(a, "create", "nodes")
  /\ UNCHANGED row
  /\ Ends(a)

\* An exception on the way, such as no node left to provision: the panel keeps
\* the user for the reconciler, the integration deletes it by its name.
CreateRaises(a) ==
  /\ walk[a].op = "create" /\ walk[a].phase = "nodes"
  /\ row' = IF a = "integration" THEN None ELSE row
  /\ Ends(a)

-----------------------------------------------------------------------------
(***************************************************************************)
(* replace_user_node_assignments: switch the user off on every node that   *)
(* goes, or give up and switch it on again there; then the rows; then      *)
(* provision the nodes that come. `on` is is_active as read at the start.  *)
(***************************************************************************)
Move(S) ==
  /\ row # None /\ S \in NodeSets /\ (S \cap Node) \ Assigned(row) \subseteq Open
  /\ Begins("panel", [Idle EXCEPT !.op = "nodes", !.id = row.id, !.phase = "disable", !.on = row.active,
                                  !.goal = S, !.left = Assigned(row) \ S, !.added = (S \cap Node) \ Assigned(row),
                                  !.tells = TRUE])
  /\ UNCHANGED <<row, ident, late, control, repair, moves>>

\* Wrong: nothing is given back.
GivesUpBare ==
  walk' = [walk EXCEPT !["panel"].phase = "restore", !["panel"].left = {}]

\* What is left when the gate fails: the nodes to switch on again.
GivesUp ==
  walk' = [walk EXCEPT !["panel"].phase = "restore",
                       !["panel"].left = IF walk["panel"].on THEN walk["panel"].done ELSE {},
                       !["panel"].done = IF walk["panel"].on THEN @ ELSE {}]

DisableRefused(n) ==
  /\ Turn("panel", "nodes", "disable", n) /\ control[n] = "off"
  /\ GivesUp
  /\ UNCHANGED <<ident, late>>

DisableCall(n) ==
  /\ Turn("panel", "nodes", "disable", n) /\ control[n] # "off"
  /\ \E reply \in StatusReplies(ident[n], late[n], FALSE) :
       Took(n, reply) /\ IF reply.ok THEN Goes("panel", n, TRUE) ELSE GivesUp

RestoreCall(n) ==
  /\ Turn("panel", "nodes", "restore", n)
  /\ \E reply \in StatusReplies(ident[n], late[n], TRUE) :
       /\ Took(n, reply)
       /\ walk' = [walk EXCEPT !["panel"].left = @ \ {n},
                               !["panel"].done = IF reply.ok THEN @ ELSE @ \ {n}]

MoveFailed ==
  /\ AllPassed("panel", "nodes", "restore")
  /\ UNCHANGED row
  /\ Ends("panel")

CommitNodes ==
  /\ AllPassed("panel", "nodes", "disable")
  /\ row' = IF MyRow("panel") THEN [row EXCEPT !.nodes = walk["panel"].goal] ELSE row
  /\ walk' = [walk EXCEPT !["panel"].phase = "provision", !["panel"].done = {},
                          !["panel"].goal = walk["panel"].done,
                          !["panel"].left = walk["panel"].added]
  /\ UNCHANGED <<ident, late, control, repair, requests, moves, company>>

Provision(n) ==
  /\ Turn("panel", "nodes", "provision", n)
  /\ \E reply \in ProvisionReplies(ident[n], late[n], walk["panel"].on) :
       Took(n, reply) /\ Goes("panel", n, reply.ok)

MoveDone ==
  /\ AllPassed("panel", "nodes", "provision")
  /\ UNCHANGED row
  /\ Ends("panel")

-----------------------------------------------------------------------------
(***************************************************************************)
(* Deleting: the panel's route asks every node, the integration's those    *)
(* the user has and that are not switched off; the row goes in any case.   *)
(* The panel's route lists the nodes that failed.                          *)
(***************************************************************************)
Delete(a) ==
  /\ a \in {"panel", "integration"} /\ row # None
  /\ Begins(a, [Idle EXCEPT !.op = "delete", !.id = row.id, !.phase = "nodes",
                            !.left = IF a = "panel" THEN Node ELSE Assigned(row),
                            !.tells = a = "panel"])
  /\ UNCHANGED <<row, ident, late, control, repair, moves>>

DeleteCall(a, n) ==
  /\ Turn(a, "delete", "nodes", n)
  /\ \E reply \in DeleteReplies(ident[n], late[n]) :
       /\ a = "integration" /\ control[n] = "off" => reply = Lost(ident[n], late[n])
       /\ Took(n, reply) /\ Goes(a, n, reply.ok)

\* The row goes by its name: also one that was created again meanwhile.
DeleteDone(a) ==
  /\ AllPassed(a, "delete", "nodes")
  /\ row' = None
  /\ Ends(a)

-----------------------------------------------------------------------------
(***************************************************************************)
(* The reconciler reads the active users, then the nodes and assignments,  *)
(* then sees to one node after the other. A user it finds no assignments   *)
(* of is taken for a legacy user. Its timer covers the open nodes; an      *)
(* operator may also send it to one node, whatever its control state.      *)
(***************************************************************************)
RepairStarts ==
  /\ repair = Resting
  /\ row # None /\ row.active
  /\ repair' = [phase |-> "read", id |-> row.id, left |-> {}]
  /\ company' = company \cup Running
  /\ UNCHANGED <<row, ident, late, control, walk, requests, moves>>

Desired == IF row # None /\ row.id = repair.id THEN Assigned(row) ELSE Node

RepairReads(targets) ==
  /\ repair.phase = "read"
  /\ repair' = [repair EXCEPT !.phase = "nodes", !.left = targets \cap Desired]
  /\ UNCHANGED <<row, ident, late, control, walk, requests, moves, company>>

\* Wrong: the pass looks at the nodes the user has an identity on.
RepairServed == RepairReads({n \in Open : ident[n].profile \/ ident[n].ccd})

RepairOpen == RepairReads(Open)

RepairOne == \E n \in Node : RepairReads({n})

Repairs(n, reply) ==
  /\ repair.phase = "nodes" /\ n \in repair.left /\ \A m \in repair.left : n <= m
  /\ Took(n, reply)
  /\ repair' = [repair EXCEPT !.left = @ \ {n}]
  /\ UNCHANGED <<row, control, walk, requests, moves, company>>

RepairBuilds(n) == ~ident[n].profile /\ ~late[n] /\ Repairs(n, Served(Built, TRUE))

RepairFails(n) ==
  /\ ~ident[n].profile
  /\ \E reply \in BuildReplies(ident[n], late[n]) : ~reply.ok /\ Repairs(n, reply)

RepairFinds(n) == ident[n].profile /\ Repairs(n, Lost(ident[n], late[n]))

RepairEnds ==
  /\ repair.phase = "nodes" /\ repair.left = {}
  /\ repair' = Resting
  /\ UNCHANGED <<row, ident, late, control, walk, requests, moves, company>>

-----------------------------------------------------------------------------
(***************************************************************************)
(* A download builds a profile that is missing, an inactive user's too.    *)
(***************************************************************************)
Download(n) ==
  /\ row # None /\ n \in Assigned(row) /\ control[n] # "off" /\ ~ident[n].profile
  /\ \E reply \in BuildReplies(ident[n], late[n]) : Took(n, reply)
  /\ company' = company \cup Running
  /\ UNCHANGED <<row, control, walk, repair, requests, moves>>

\* The build the panel has given up.
LateBuild(n) ==
  /\ late[n]
  /\ late' = [late EXCEPT ![n] = FALSE]
  /\ ident' = [ident EXCEPT ![n] = Built]
  /\ UNCHANGED <<row, control, walk, repair, requests, moves, company>>

SetControl(n, c) ==
  /\ n \in Movable /\ moves < MaxMoves /\ control[n] # c
  /\ moves' = moves + 1
  /\ control' = [control EXCEPT ![n] = c]
  /\ UNCHANGED <<row, ident, late, walk, repair, requests, company>>

\* The panel dies: its requests are forgotten where they stand.
PanelDies ==
  /\ Running \ {"enforcer"} # {}
  /\ walk' = [walk EXCEPT !["panel"] = Idle, !["integration"] = Idle]
  /\ company' = company \cap {"enforcer"}
  /\ UNCHANGED <<row, ident, late, control, repair, requests, moves>>

-----------------------------------------------------------------------------
Init ==
  /\ \/ row = None /\ ident = [n \in Node |-> Absent]
     \/ /\ row = [id |-> 0, active |-> TRUE, nodes |-> {}]
        /\ ident = [n \in Node |-> Built]
  /\ late = [n \in Node |-> FALSE]
  /\ control = [n \in Node |-> "open"]
  /\ walk = [a \in Actor |-> Idle]
  /\ repair = Resting
  /\ company = {}
  /\ requests = 0 /\ moves = 0

NodeAnswers(a) ==
  \E n \in Node : \/ StatusSkipped(a, n) \/ StatusCall(a, n)
                  \/ CreateSkipped(a, n) \/ CreateCall(a, n)
                  \/ DeleteCall(a, n)

PanelStep ==
  \/ \E on \in BOOLEAN : SetStatus("panel", on) \/ Edit("panel", on)
  \/ Renew("panel") \/ Delete("panel")
  \/ \E S \in NodeSets : Create(S) \/ Move(S)
  \/ NodeAnswers("panel")
  \/ StatusDone("panel") \/ CreateDone("panel") \/ CreateRaises("panel") \/ DeleteDone("panel")
  \/ \E n \in Node : DisableRefused(n) \/ DisableCall(n) \/ RestoreCall(n) \/ Provision(n)
  \/ MoveFailed \/ CommitNodes \/ MoveDone

IntegrationStep ==
  \/ \E on \in BOOLEAN : SetStatus("integration", on) \/ Edit("integration", on)
  \/ Renew("integration") \/ Delete("integration")
  \/ \E S \in NodeSets : CreateBare(S)
  \/ NodeAnswers("integration")
  \/ StatusDone("integration") \/ CreateDone("integration") \/ CreateRaises("integration") \/ DeleteDone("integration")

EnforcerStep ==
  \/ Enforce \/ StatusDone("enforcer")
  \/ \E n \in Node : StatusSkipped("enforcer", n) \/ StatusCall("enforcer", n)

ReconcilerRuns ==
  RepairStarts \/ RepairEnds \/ \E n \in Node : RepairBuilds(n) \/ RepairFails(n) \/ RepairFinds(n)

Next ==
  \/ ~BetweenCommits /\ (PanelStep \/ IntegrationStep)
  \/ SetUserNodes
  \/ EnforcerStep
  \/ ReconcilerRuns \/ RepairOpen \/ RepairOne
  \/ \E n \in Node : Download(n) \/ LateBuild(n) \/ \E c \in {"open", "held", "off"} : SetControl(n, c)
  \/ PanelDies

Spec == Init /\ [][Next]_vars

(***************************************************************************)
(* The reconciler's timer starts it again half an hour after each pass,    *)
(* and sends it to all nodes: an operator's pass to one is a process of    *)
(* its own. A node that is asked again and again serves a build in the     *)
(* end. Nobody has to make a request.                                      *)
(***************************************************************************)
Fairness ==
  /\ WF_vars(ReconcilerRuns) /\ SF_vars(RepairOpen)
  /\ \A n \in Node : SF_vars(RepairBuilds(n)) /\ WF_vars(LateBuild(n))

FairSpec == Spec /\ Fairness

-----------------------------------------------------------------------------
(***************************************************************************)
(* Whatever earlier requests, failures and overlaps have left behind: a    *)
(* request that ran alone and tells its caller what the nodes said has     *)
(* told the truth of every node it names. A renewal's node_sync: the user  *)
(* is on at all assigned nodes; a move's lists: a node taken away cannot   *)
(* serve the user, a provisioned one does as the row says; a deletion's    *)
(* list: on a node that did not fail the identity is gone. A status        *)
(* request, an edit, a creation and the integration's deletion answer      *)
(* success whatever the nodes said, and nothing is claimed of them.        *)
(***************************************************************************)
ReportIsTrue ==
  \A a \in Actor \ company : walk[a].tells =>
    /\ AllPassed(a, "status", "nodes") /\ walk[a].ok =>
         \A n \in Assigned(row) : ident[n].ccd = walk[a].on
    /\ AllPassed(a, "nodes", "provision") =>
         /\ \A n \in walk[a].goal : ~ident[n].ccd /\ n \notin Assigned(row)
         /\ \A n \in walk[a].done : ident[n].ccd = walk[a].on
    /\ AllPassed(a, "delete", "nodes") => \A n \in walk[a].done : ident[n] = Absent

(***************************************************************************)
(* A change of assignments that cannot switch the user off everywhere and  *)
(* gives up leaves an active user served where it was: on every node it    *)
(* had switched off, unless that node missed the compensation too.         *)
(***************************************************************************)
MoveUndone ==
  "panel" \notin company /\ AllPassed("panel", "nodes", "restore") =>
    \A n \in walk["panel"].done : n \in Assigned(row) /\ ident[n].ccd

(***************************************************************************)
(* A node that missed the creation of a user is caught up with: an active  *)
(* user has a profile, in the end, on every open node it is assigned to,   *)
(* whichever call was lost and whoever created or moved the user.          *)
(***************************************************************************)
AssignedServed ==
  \A n \in Node :
    <>[](row # None /\ row.active /\ n \in Assigned(row) /\ control[n] = "open") => <>[](ident[n].profile)
=============================================================================
