----------------------------- MODULE UserRename -----------------------------
(***************************************************************************)
(* The durable username-rename job of backend/user_rename: the route that  *)
(* queues it, the worker that drives it through its stages over every      *)
(* assigned node, its compensation before the central commit and its       *)
(* retried clean-up after it.                                              *)
(*                                                                         *)
(* One user, one job. The job's columns, the user's name and the lifecycle *)
(* lock are durable; the worker's program counter and loop variables are   *)
(* not: a crash (a killed process, the unit's ten-minute limit, or any     *)
(* exception that is not a RenameStageError, such as a database error)     *)
(* loses them and the next run resumes from the job's columns alone.       *)
(*                                                                         *)
(* Every remote call and every commit is a step of its own. Reads of a     *)
(* node that nothing else writes in between are merged with the commit     *)
(* that follows them.                                                      *)
(***************************************************************************)
EXTENDS Naturals, FiniteSets, NodeAgent

CONSTANTS
  Node,       \* ids of the nodes assigned to the user
  Deletable,  \* the nodes an administrator may delete while the job runs
  CanCrash    \* whether the worker process may die between two steps

ASSUME NodeAssumption == Node \subseteq Nat /\ IsFiniteSet(Node) /\ Node # {}
ASSUME FaultAssumption == Deletable \subseteq Node /\ CanCrash \in BOOLEAN

VARIABLES
  state,      \* UserRenameJob.state; "none" before the job is queued
  snap,       \* snapshot["node_ids"]
  wasActive,  \* snapshot["original_active"]
  staged,     \* evidence["staged_node_ids"]
  disabled,   \* evidence["disabled_old_node_ids"]
  revoked,    \* evidence["revoked_old_node_ids"]
  name,       \* User.name
  active,     \* User.is_active
  taken,      \* another user owns the new name
  lock,       \* the operation of the user's UserLifecycleLock row
  rows,       \* the assigned nodes that still have a Node row
  oldId,      \* on each node, the identity of the old Common Name
  newId,      \* on each node, the identity of the new Common Name
  listed,     \* the nodes whose status file lists the old Common Name
  building,   \* the nodes still running a build the panel gave up on
  revived,    \* history: the nodes on which others gave the old identity
              \* back since the job last took it away
  pc,         \* what the worker does next
  todo,       \* the nodes its current loop has not reached
  bad,        \* the loop's list of failed nodes
  handling    \* it is in the except clause of run_rename_job

facts == <<snap, wasActive>>
evidence == <<staged, disabled, revoked>>
job   == <<state, snap, wasActive, staged, disabled, revoked>>
panel == <<name, active, taken, lock, rows>>
nodes == <<oldId, newId, listed, building, revived>>
loop  == <<pc, todo, bad, handling>>
vars  == <<state, snap, wasActive, staged, disabled, revoked,
           name, active, taken, lock, rows,
           oldId, newId, listed, building, revived,
           pc, todo, bad, handling>>

\* RenameState; rolling_back is read by the engine but never written by it.
Terminal == {"rolled_back", "completed", "failed"}
Running  == {"queued", "preflight", "staging", "cutover", "revoking_old",
             "cleanup_pending"}
State == {"none"} \cup Running \cup Terminal

Control == {"idle", "loop", "create", "record", "verify", "preserve",
            "unstage", "disable", "confirm", "restore", "discard",
            "revoke", "inspect", "handler", "release"}

TypeOK ==
  /\ state \in State
  /\ snap \subseteq Node
  /\ wasActive \in BOOLEAN
  /\ staged \subseteq snap
  /\ disabled \subseteq snap
  /\ revoked \subseteq snap
  /\ name \in {"old", "new"}
  /\ active \in BOOLEAN
  /\ taken \in BOOLEAN
  /\ lock \in {"none", "rename"}
  /\ rows \subseteq Node
  /\ oldId \in [Node -> Identity]
  /\ newId \in [Node -> Identity]
  /\ listed \subseteq Node
  /\ building \subseteq Node
  /\ revived \subseteq Node
  /\ pc \in Control
  /\ todo \subseteq snap
  /\ bad \subseteq snap
  /\ handling \in BOOLEAN

\* The user is provisioned everywhere as is_active says; no job exists yet.
Init ==
  /\ state = "none"
  /\ snap = {} /\ wasActive = FALSE
  /\ staged = {} /\ disabled = {} /\ revoked = {}
  /\ name = "old" /\ active \in BOOLEAN /\ taken \in BOOLEAN
  /\ lock = "none" /\ rows = Node
  /\ oldId = [n \in Node |-> [cert |-> "valid", ccd |-> active]]
  /\ newId \in [Node -> {Absent, Built(Absent)}]
  /\ listed = {} /\ building = {} /\ revived = {}
  /\ pc = "idle" /\ todo = {} /\ bad = {} /\ handling = FALSE

\* The loops visit nodes in id order (snapshot_assigned_nodes orders by id).
First(S, n) == n \in S /\ \A m \in S : n <= m

\* A node builds under its operation lock; a second mutation is refused.
Served(n, replies, id) == IF n \in building THEN Unserved(id) ELSE replies

Goto(p, nodeset) == pc' = p /\ todo' = nodeset /\ bad' = {}

-----------------------------------------------------------------------------
(***************************************************************************)
(* The route and the start of a worker run.                                *)
(***************************************************************************)

\* POST /{uuid}/rename: the job and a lock without expiry, one transaction.
Queue ==
  /\ state = "none" /\ lock = "none" /\ ~taken
  /\ state' = "queued" /\ lock' = "rename"
  /\ UNCHANGED <<facts, evidence, name, active, taken, rows, nodes, loop>>

\* The timer starts a run: claim a job that is not terminal, make sure of its
\* lock (_ensure_job_lock) and enter the loop of run_rename_job.
Claim ==
  /\ pc = "idle" /\ state \in Running
  /\ pc' = "loop" /\ lock' = "rename"
  /\ UNCHANGED <<job, name, active, taken, rows, nodes, todo, bad, handling>>

\* preflight_job, queued -> preflight: nothing but reads before its commit.
PreflightPass ==
  /\ pc = "loop" /\ state = "queued"
  /\ name = "old" /\ ~taken /\ rows # {}
  /\ \A n \in rows : ~Exists(newId[n])
  /\ state' = "preflight" /\ snap' = rows /\ wasActive' = active
  /\ UNCHANGED <<evidence, panel, nodes, loop>>

\* Any of its checks fails; a node may also be unreachable, drained, in
\* maintenance or without the capability.
PreflightRaise ==
  /\ pc = "loop" /\ state = "queued"
  /\ pc' = "handler"
  /\ UNCHANGED <<job, panel, nodes, todo, bad, handling>>

\* stage_new_identities commits the state staging and skips what is recorded.
StartStaging ==
  /\ pc = "loop" /\ state \in {"preflight", "staging"}
  /\ state' = "staging" /\ Goto("create", snap \ staged)
  /\ UNCHANGED <<facts, evidence, panel, nodes, handling>>

-----------------------------------------------------------------------------
(***************************************************************************)
(* stage_new_identities: create, record, verify and, for an inactive user, *)
(* deactivate the new identity, one node after the other.                  *)
(***************************************************************************)

StageRaise == Goto("unstage", staged)

CreateNew(n) ==
  /\ pc = "create" /\ First(todo, n) /\ n \in rows
  /\ \E r \in Served(n, BuildReplies(newId[n]), newId[n]) :
       /\ newId' = [newId EXCEPT ![n] = r.to]
       /\ IF r.ok THEN pc' = "record" /\ UNCHANGED <<todo, bad>> ELSE StageRaise
  /\ UNCHANGED <<job, panel, oldId, listed, building, revived, handling>>

\* The panel's ten seconds are over and the node is still building.
CreateTimeout(n) ==
  /\ pc = "create" /\ First(todo, n) /\ n \in rows \ building
  /\ building' = building \cup {n} /\ StageRaise
  /\ UNCHANGED <<job, panel, oldId, newId, listed, revived, handling>>

RecordStaged(n) ==
  /\ pc = "record" /\ First(todo, n)
  /\ staged' = staged \cup {n} /\ pc' = "verify"
  /\ UNCHANGED <<state, facts, disabled, revoked, panel, nodes, todo, bad,
                 handling>>

\* get_user_identity and download_ovpn_client of the node just recorded.
VerifyStaged(n) ==
  /\ pc = "verify" /\ First(todo, n) /\ newId[n].cert = "valid"
  /\ IF wasActive THEN pc' = "create" /\ todo' = todo \ {n}
                  ELSE pc' = "preserve" /\ UNCHANGED todo
  /\ UNCHANGED <<job, panel, nodes, bad, handling>>

VerifyRaise ==
  /\ pc = "verify" /\ StageRaise
  /\ UNCHANGED <<job, panel, nodes, handling>>

PreserveInactive(n) ==
  /\ pc = "preserve" /\ First(todo, n)
  /\ \E r \in Served(n, StatusReplies(newId[n], FALSE), newId[n]) :
       /\ newId' = [newId EXCEPT ![n] = r.to]
       /\ IF r.ok THEN pc' = "create" /\ todo' = todo \ {n} /\ UNCHANGED bad
                  ELSE StageRaise
  /\ UNCHANGED <<job, panel, oldId, listed, building, revived, handling>>

\* _node_by_id finds no row: the loop of pc raises.
StageMissing(n) ==
  /\ pc = "create" /\ First(todo, n) /\ n \notin rows /\ StageRaise
  /\ UNCHANGED <<job, panel, nodes, handling>>

\* Every node is staged. The second pass that run_rename_job makes over
\* stage_new_identities finds nothing to do and goes on to the old identities.
StagingDone ==
  /\ pc = "create" /\ todo = {}
  /\ Goto("disable", snap \ disabled)
  /\ UNCHANGED <<job, panel, nodes, handling>>

\* _cleanup_staged: delete the new identity on every node recorded so far.
Unstage(n) ==
  /\ pc = "unstage" /\ First(todo, n) /\ n \in rows
  /\ \E r \in Served(n, DeleteReplies(newId[n]), newId[n]) :
       /\ newId' = [newId EXCEPT ![n] = r.to]
       /\ bad' = IF r.ok THEN bad ELSE bad \cup {n}
  /\ todo' = todo \ {n}
  /\ UNCHANGED <<job, panel, oldId, listed, building, revived, pc, handling>>

UnstageMissing(n) ==
  /\ pc = "unstage" /\ First(todo, n) /\ n \notin rows
  /\ Goto("handler", {})
  /\ UNCHANGED <<job, panel, nodes, handling>>

UnstageDone ==
  /\ pc = "unstage" /\ todo = {}
  /\ state' = IF bad = {} THEN "rolled_back" ELSE "failed"
  /\ Goto("handler", {})
  /\ UNCHANGED <<facts, evidence, panel, nodes, handling>>

-----------------------------------------------------------------------------
(***************************************************************************)
(* disable_old_identities and its compensation, rollback_precommit.        *)
(***************************************************************************)

StartRollback == Goto("restore", IF wasActive THEN disabled ELSE {})

\* Deactivation kills the client; the status file may still list it.
DisableOld(n) ==
  /\ pc = "disable" /\ First(todo, n) /\ n \in rows
  /\ \E r \in Served(n, StatusReplies(oldId[n], FALSE), oldId[n]) :
       /\ oldId' = [oldId EXCEPT ![n] = r.to]
       /\ revived' = IF r.ok THEN revived \ {n} ELSE revived
       /\ IF r.ok THEN pc' = "confirm" /\ UNCHANGED <<todo, bad>>
                  ELSE StartRollback
  /\ listed' \in {listed, IF oldId'[n].ccd THEN listed ELSE listed \ {n}}
  /\ UNCHANGED <<job, panel, newId, building, handling>>

DisableMissing(n) ==
  /\ pc = "disable" /\ First(todo, n) /\ n \notin rows /\ StartRollback
  /\ UNCHANGED <<job, panel, nodes, handling>>

\* Wrong: records the node while its client is still connected.
ConfirmConnected(n) ==
  /\ pc = "confirm" /\ First(todo, n)
  /\ disabled' = disabled \cup {n} /\ state' = "cutover"
  /\ pc' = "disable" /\ todo' = todo \ {n}
  /\ UNCHANGED <<facts, staged, revoked, panel, nodes, bad, handling>>

\* The old name is not listed as connected: record it, and with the first
\* node recorded the job is in the state cutover.
ConfirmDisabled(n) ==
  /\ pc = "confirm" /\ First(todo, n) /\ n \notin listed
  /\ disabled' = disabled \cup {n} /\ state' = "cutover"
  /\ pc' = "disable" /\ todo' = todo \ {n}
  /\ UNCHANGED <<facts, staged, revoked, panel, nodes, bad, handling>>

\* Still listed, or no answer.
ConfirmRaise ==
  /\ pc = "confirm" /\ StartRollback
  /\ UNCHANGED <<job, panel, nodes, handling>>

DisablingDone ==
  /\ pc = "disable" /\ todo = {}
  /\ Goto("loop", {})
  /\ UNCHANGED <<job, panel, nodes, handling>>

RestoreOld(n) ==
  /\ pc = "restore" /\ First(todo, n) /\ n \in rows
  /\ \E r \in Served(n, StatusReplies(oldId[n], TRUE), oldId[n]) :
       /\ oldId' = [oldId EXCEPT ![n] = r.to]
       /\ bad' = IF r.ok THEN bad ELSE bad \cup {n}
  /\ todo' = todo \ {n}
  /\ UNCHANGED <<job, panel, newId, listed, building, revived, pc, handling>>

RestoreDone ==
  /\ pc = "restore" /\ todo = {}
  /\ pc' = "discard" /\ todo' = staged
  /\ UNCHANGED <<job, panel, nodes, bad, handling>>

DiscardNew(n) ==
  /\ pc = "discard" /\ First(todo, n) /\ n \in rows
  /\ \E r \in Served(n, DeleteReplies(newId[n]), newId[n]) :
       /\ newId' = [newId EXCEPT ![n] = r.to]
       /\ bad' = IF r.ok THEN bad ELSE bad \cup {n}
  /\ todo' = todo \ {n}
  /\ UNCHANGED <<job, panel, oldId, listed, building, revived, pc, handling>>

RollbackDone ==
  /\ pc = "discard" /\ todo = {}
  /\ state' = IF bad = {} THEN "rolled_back" ELSE "failed"
  /\ Goto("handler", {})
  /\ UNCHANGED <<facts, evidence, panel, nodes, handling>>

\* A missing Node row aborts the rollback; run_rename_job's handler then
\* tries it once more, and a second abort leaves the job failed.
RollbackMissing(n) ==
  /\ pc \in {"restore", "discard"} /\ First(todo, n) /\ n \notin rows
  /\ IF handling THEN state' = "failed" /\ Goto("release", {})
                 ELSE UNCHANGED state /\ Goto("handler", {})
  /\ UNCHANGED <<facts, evidence, panel, nodes, handling>>

-----------------------------------------------------------------------------
(***************************************************************************)
(* commit_central_rename: the one transaction that moves the name.         *)
(***************************************************************************)
Commit ==
  /\ pc = "loop" /\ state = "cutover" /\ ~taken
  /\ name' = "new" /\ state' = "revoking_old"
  /\ UNCHANGED <<facts, evidence, active, taken, lock, rows, nodes, loop>>

CommitRaise ==
  /\ pc = "loop" /\ state = "cutover" /\ taken
  /\ pc' = "handler"
  /\ UNCHANGED <<job, panel, nodes, todo, bad, handling>>

-----------------------------------------------------------------------------
(***************************************************************************)
(* _attempt_cleanup and revoke_old_identities.                             *)
(***************************************************************************)
StartRevoking ==
  /\ pc = "loop" /\ state \in {"revoking_old", "cleanup_pending"}
  /\ Goto("revoke", snap \ revoked)
  /\ UNCHANGED <<job, panel, nodes, handling>>

RevokeOld(n) ==
  /\ pc = "revoke" /\ First(todo, n) /\ n \in rows
  /\ \E r \in Served(n, DeleteReplies(oldId[n]), oldId[n]) :
       /\ oldId' = [oldId EXCEPT ![n] = r.to]
       /\ revived' = IF r.ok THEN revived \ {n} ELSE revived
       /\ IF r.ok THEN pc' = "inspect" /\ UNCHANGED <<todo, bad>>
                  ELSE pc' = "revoke" /\ todo' = todo \ {n} /\ bad' = bad \cup {n}
  /\ listed' \in {listed, IF oldId'[n].ccd THEN listed ELSE listed \ {n}}
  /\ UNCHANGED <<job, panel, newId, building, handling>>

\* Wrong: accepts the delete without looking for a connected client.
InspectUnlisted(n) ==
  /\ pc = "inspect" /\ First(todo, n)
  /\ oldId[n].cert # "valid"
  /\ revoked' = revoked \cup {n}
  /\ pc' = "revoke" /\ todo' = todo \ {n}
  /\ UNCHANGED <<state, facts, staged, disabled, panel, nodes, bad, handling>>

\* Verified: no valid certificate and not listed as connected.
InspectRevoked(n) ==
  /\ pc = "inspect" /\ First(todo, n)
  /\ oldId[n].cert # "valid" /\ n \notin listed
  /\ revoked' = revoked \cup {n}
  /\ pc' = "revoke" /\ todo' = todo \ {n}
  /\ UNCHANGED <<state, facts, staged, disabled, panel, nodes, bad, handling>>

\* Not verified, or no answer.
InspectFail(n) ==
  /\ pc = "inspect" /\ First(todo, n)
  /\ pc' = "revoke" /\ todo' = todo \ {n} /\ bad' = bad \cup {n}
  /\ UNCHANGED <<job, panel, nodes, handling>>

RevokeMissing(n) ==
  /\ pc = "revoke" /\ First(todo, n) /\ n \notin rows
  /\ Goto("handler", {})
  /\ UNCHANGED <<job, panel, nodes, handling>>

\* Wrong: completes although a node failed.
CompleteAnyway ==
  /\ pc = "revoke" /\ todo = {}
  /\ state' = "completed" /\ lock' = "none" /\ Goto("idle", {})
  /\ UNCHANGED <<facts, evidence, name, active, taken, rows, nodes, handling>>

\* _complete_job commits the state and the release of the lock together.
Complete ==
  /\ pc = "revoke" /\ todo = {} /\ bad = {}
  /\ state' = "completed" /\ lock' = "none" /\ Goto("idle", {})
  /\ UNCHANGED <<facts, evidence, name, active, taken, rows, nodes, handling>>

CleanupPending ==
  /\ pc = "revoke" /\ todo = {} /\ bad # {}
  /\ state' = "cleanup_pending" /\ Goto("idle", {})
  /\ UNCHANGED <<facts, evidence, panel, nodes, handling>>

-----------------------------------------------------------------------------
(***************************************************************************)
(* except RenameStageError in run_rename_job.                              *)
(***************************************************************************)

\* Wrong: compensates a failure after the commit as well.
RollbackAlways ==
  /\ pc = "handler" /\ state \in {"staging", "cutover", "revoking_old"}
  /\ StartRollback /\ handling' = TRUE
  /\ UNCHANGED <<job, panel, nodes>>

HandlerRollback ==
  /\ pc = "handler" /\ state \in {"staging", "cutover"}
  /\ StartRollback /\ handling' = TRUE
  /\ UNCHANGED <<job, panel, nodes>>

HandlerFail ==
  /\ pc = "handler"
  /\ state \in Running \ {"staging", "cutover", "cleanup_pending"}
  /\ state' = "failed" /\ Goto("release", {})
  /\ UNCHANGED <<facts, evidence, panel, nodes, handling>>

\* Wrong: returns without giving the lock back.
HandlerKeepsLock ==
  /\ pc = "handler" /\ state \in Terminal
  /\ Goto("idle", {}) /\ handling' = FALSE
  /\ UNCHANGED <<job, panel, nodes>>

HandlerPass ==
  /\ pc = "handler" /\ state \in Terminal
  /\ Goto("release", {})
  /\ UNCHANGED <<job, panel, nodes, handling>>

\* Wrong: gives the lock back although the job goes on.
HandlerUnlocks ==
  /\ pc = "handler" /\ state = "cleanup_pending"
  /\ lock' = "none" /\ Goto("idle", {}) /\ handling' = FALSE
  /\ UNCHANGED <<job, name, active, taken, rows, nodes>>

\* A clean-up that raised keeps its state and its lock.
HandlerKeep ==
  /\ pc = "handler" /\ state = "cleanup_pending"
  /\ Goto("idle", {}) /\ handling' = FALSE
  /\ UNCHANGED <<job, panel, nodes>>

\* A commit of its own, after the one that made the job terminal.
Release ==
  /\ pc = "release"
  /\ lock' = "none" /\ Goto("idle", {}) /\ handling' = FALSE
  /\ UNCHANGED <<job, name, active, taken, rows, nodes>>

-----------------------------------------------------------------------------
(***************************************************************************)
(* The environment.                                                        *)
(***************************************************************************)

\* A client opens a tunnel with the old profile and appears in the status
\* file; a listed client leaves it when it goes or the file is rewritten.
Connect(n) ==
  /\ n \notin listed /\ MayConnect(oldId[n])
  /\ listed' = listed \cup {n}
  /\ UNCHANGED <<job, panel, oldId, newId, building, revived, loop>>

Leave(n) ==
  /\ n \in listed
  /\ listed' = listed \ {n}
  /\ UNCHANGED <<job, panel, oldId, newId, building, revived, loop>>

\* A build the panel gave up on ends: it lands late, or it fails.
BuildLands(n) ==
  /\ n \in building
  /\ building' = building \ {n}
  /\ newId' = [newId EXCEPT ![n] = Built(newId[n])]
  /\ UNCHANGED <<job, panel, oldId, listed, revived, loop>>

BuildFails(n) ==
  /\ n \in building
  /\ building' = building \ {n}
  /\ UNCHANGED <<job, panel, oldId, newId, listed, revived, loop>>

\* Somebody who read the old name and takes no lifecycle lock gives the old
\* identity back, however late: a pass of the reconciler over its list of
\* users, or a download, builds the profile; the integration switches it on.
\* A node that is building for the panel refuses.
Revive(n) ==
  /\ n \notin building
  /\ oldId' \in {[oldId EXCEPT ![n] = id] : id \in {Built(oldId[n]), Switched(oldId[n], TRUE),
                                                   [cert |-> "valid", ccd |-> oldId[n].ccd]}}
  /\ revived' = revived \cup {n}
  /\ UNCHANGED <<job, panel, newId, listed, building, loop>>

\* Another account is created under the new name, which nothing reserves.
TakeName ==
  /\ name = "old" /\ ~taken
  /\ taken' = TRUE
  /\ UNCHANGED <<job, name, active, lock, rows, nodes, loop>>

\* delete_node_handler: the row goes, the node itself is left as it is.
DeleteNode(n) ==
  /\ n \in Deletable /\ n \in rows
  /\ rows' = rows \ {n}
  /\ UNCHANGED <<job, name, active, taken, lock, nodes, loop>>

Crash ==
  /\ CanCrash /\ pc # "idle"
  /\ Goto("idle", {}) /\ handling' = FALSE
  /\ UNCHANGED <<job, panel, nodes>>

-----------------------------------------------------------------------------
Stage(n) ==
  \/ CreateNew(n) \/ CreateTimeout(n) \/ RecordStaged(n) \/ VerifyStaged(n)
  \/ PreserveInactive(n) \/ StageMissing(n) \/ Unstage(n) \/ UnstageMissing(n)

Cutover(n) ==
  \/ DisableOld(n) \/ DisableMissing(n) \/ ConfirmDisabled(n)
  \/ RestoreOld(n) \/ DiscardNew(n) \/ RollbackMissing(n)

Cleanup(n) ==
  \/ RevokeOld(n) \/ InspectRevoked(n) \/ InspectFail(n) \/ RevokeMissing(n)

NodeStep(n) == Stage(n) \/ Cutover(n) \/ Cleanup(n)

JobStep ==
  \/ Claim \/ PreflightPass \/ PreflightRaise \/ StartStaging \/ VerifyRaise
  \/ StagingDone \/ UnstageDone \/ ConfirmRaise \/ DisablingDone
  \/ RestoreDone \/ RollbackDone \/ Commit \/ CommitRaise \/ StartRevoking
  \/ Complete \/ CleanupPending \/ HandlerRollback \/ HandlerFail
  \/ HandlerPass \/ HandlerKeep \/ Release

Worker == JobStep \/ \E n \in Node : NodeStep(n)

Outside(n) ==
  Connect(n) \/ Leave(n) \/ BuildLands(n) \/ BuildFails(n) \/ Revive(n) \/ DeleteNode(n)

Next ==
  \/ Queue \/ Worker \/ TakeName \/ Crash
  \/ \E n \in Node : Outside(n)

Spec == Init /\ [][Next]_vars

(***************************************************************************)
(* The timer starts the worker again three seconds after a run, and every  *)
(* remote call has a timeout, so the worker never stops inside a run. A    *)
(* build ends within its own time limit, a killed client leaves the status *)
(* file. NodesReturn is the assumption under which clean-up ends: a node   *)
(* that is asked again and again eventually deletes the identity and says  *)
(* so. LateReadersEnd: nobody reads the old name after it has moved, and   *)
(* whoever read it before makes a limited number of calls.                 *)
(***************************************************************************)
WorkerRuns == WF_vars(Worker)

NodesSettle ==
  \A n \in Node : WF_vars(BuildLands(n) \/ BuildFails(n)) /\ WF_vars(Leave(n))

NodesReturn ==
  \A n \in Node : /\ SF_vars(RevokeOld(n) /\ pc' = "inspect")
                  /\ SF_vars(InspectRevoked(n))

LateReadersEnd == <>[][name = "new" => \A n \in Node : ~Revive(n)]_vars

FairSpec == Spec /\ WorkerRuns /\ NodesSettle /\ NodesReturn /\ LateReadersEnd

-----------------------------------------------------------------------------
(***************************************************************************)
(* Properties.                                                             *)
(***************************************************************************)
OldGone(n) == oldId[n].cert = "none" /\ n \notin listed

\* While a job is not terminal its user's lifecycle lock belongs to it, so no
\* other mutation of the user starts (acquire and release around the job's
\* commits, across crashes).
LiveJobHoldsLock == state \in Running => lock = "rename"

\* A completed job leaves no certificate of the old identity that the server
\* accepts and no client of it, on any node of its snapshot except where
\* somebody without the lock has built it again since the job deleted it there.
CompletedMeansRevoked ==
  state = "completed" => \A n \in snap : OldGone(n) \/ n \in revived

\* The name has moved only with every node of the snapshot staged.
NameFollowsStaging == name = "new" => staged = snap /\ disabled # {}

\* Once the name has moved the job never gives the old identity back, whatever
\* it retries or undoes: a CCD entry or a certificate that reappears is the work
\* of somebody who read the old name before, without the lock.
OldOnlyShrinks ==
  name = "new" => \A n \in snap :
    \/ Revive(n)
    \/ /\ oldId[n]'.ccd => oldId[n].ccd
       /\ MayConnect(oldId[n])' => MayConnect(oldId[n])

OldNeverReturns == [][OldOnlyShrinks]_vars

\* At the instant the name moves, the user can connect under the new name on
\* every node exactly if the account was active, and nowhere under the old
\* except where somebody without the lock has given it back.
NewReady(n) == newId[n] = [cert |-> "valid", ccd |-> wasActive]
OldOff(n) == n \in revived \/ (~oldId[n].ccd /\ n \notin listed)

CutoverIsClean ==
  [][name' # name => \A n \in snap : NewReady(n) /\ OldOff(n)]_vars

\* Every queued job ends, a pending clean-up is retried until it does, and its
\* user's lock is given back.
EveryJobEnds == (state = "queued") ~> (state \in Terminal /\ lock = "none")

-----------------------------------------------------------------------------
(***************************************************************************)
(* Why they hold: an invariant of every step, crashes and deletions        *)
(* included.                                                               *)
(***************************************************************************)

\* The columns alone say whether the name has moved.
NameInv ==
  /\ name = "old" => state \notin {"revoking_old", "cleanup_pending", "completed"}
  /\ name = "new" => state \in {"revoking_old", "cleanup_pending", "completed",
                                "failed"}
  /\ name = "old" => revoked = {}

\* Where the worker is bounds the state of its job.
ControlInv ==
  /\ pc \in {"create", "record", "verify", "preserve", "unstage"} =>
       state = "staging"
  /\ pc \in {"disable", "confirm", "restore", "discard"} =>
       state \in {"staging", "cutover"}
  /\ pc \in {"revoke", "inspect"} => state \in {"revoking_old", "cleanup_pending"}
  /\ pc = "loop" => state \in Running
  /\ pc = "release" => state \in Terminal
  /\ pc = "handler" => state \notin {"none", "completed"}

\* No node is forgotten between the staging loop and the cutover.
StagedInv ==
  /\ pc \in {"create", "record", "verify", "preserve"} => snap \ staged \subseteq todo
  /\ pc \in {"verify", "preserve"} => \A n \in todo : First(todo, n) => n \in staged
  /\ pc \in {"disable", "confirm"} => staged = snap
  /\ state = "cutover" \/ name = "new" => staged = snap /\ disabled # {}

\* What is recorded as revoked is gone, and a clean-up loop has tried the rest.
RevokedInv ==
  /\ \A n \in revoked : OldGone(n) \/ n \in revived
  /\ pc = "inspect" => \A n \in todo : First(todo, n) => oldId[n].cert = "none" \/ n \in revived
  /\ pc \in {"revoke", "inspect"} => snap \subseteq revoked \cup todo \cup bad
  /\ pc \in {"revoke", "inspect"} => revoked \cap todo = {}
  /\ state = "completed" => revoked = snap

\* A job starts without evidence, and a run without nodes on its list.
FreshInv ==
  /\ state \in {"none", "queued"} => staged = {} /\ disabled = {}
  /\ pc \in {"idle", "loop"} => todo = {} /\ bad = {}

IInv ==
  /\ TypeOK /\ LiveJobHoldsLock
  /\ NameInv /\ ControlInv /\ FreshInv /\ StagedInv /\ RevokedInv

-----------------------------------------------------------------------------
(***************************************************************************)
(* The job implements the contract of RenameContract.                      *)
(***************************************************************************)
phaseBar ==
  CASE state = "completed"                    -> "done"
    [] state = "rolled_back"                  -> "aborted"
    [] state = "failed" /\ name = "old"       -> "aborted"
    [] state = "failed" /\ name = "new"       -> "abandoned"
    [] state \notin Terminal /\ name = "old"  -> "open"
    [] state \notin Terminal /\ name = "new"  -> "switched"

usableBar == {n \in snap \ revived : oldId[n].cert # "none"}

Contract == INSTANCE RenameContract WITH phase <- phaseBar, usable <- usableBar

\* Whatever fails, crashes or is retried on the way, what the job leaves of the
\* old identity only shrinks after the switch, and the rename is done only when
\* none is left.
ImplementsContract == Contract!Spec

=============================================================================
