# PVNetwork: a verification project

PVNetwork is a panel that sells and administers OpenVPN accounts on a fleet of
nodes. This directory holds TLA+ models of the parts of it that decide
something over time, the TLC runs that check them, and TLAPS proofs of what
matters most. Paths below are relative to the repository.

Contents: [the system](#1-the-system), [hard behaviours](#2-what-is-hard),
[the plan](#3-plan), [modules and code](#4-modules-and-code),
[runs](#5-runs), [fairness](#6-fairness), [proofs](#7-proofs),
[findings and divergences](#8-findings-and-known-divergences),
[limits](#9-what-is-not-modelled).

## 1. The system

| Process | Where | State it owns |
|---|---|---|
| Panel (FastAPI, one event loop, job threads) | `backend/app.py`, `backend/routers/` | the database: users, nodes, assignments, usage, sessions, rename jobs, locks, credentials, bandwidth policy; private job files and archives |
| Usage job (timer, 60 s) | `scripts/pvnetwork-usage-sync` | nothing; works on the database |
| Rename worker (timer, 3 s after a run) | `scripts/pvnetwork-user-rename-worker.py` | nothing; resumes from a job's columns |
| Reconcilers (timers: users 30 min, bandwidth 60 s) | `scripts/pvnetwork-node-user-reconcile.py`, `scripts/pvnetwork-bandwidth-reconcile` | nothing |
| Host commands of the panel | `scripts/pvnetwork_lifecycle.py`, `scripts/pvnetwork-panel-settings-apply.py` | releases, `.env`, proxy, journals of updates, restores and settings changes |
| Node agent, one per node | `node-agent/core/` | easy-rsa index, CRL, client-config-dir, usage ledger; OpenVPN's connections |
| Host commands of a node | `scripts/pvnetwork_node_{install,configure,lifecycle,backup,restore}.py`, `scripts/pvnetwork-router-openvpn` | VPN files, firewall, units, releases, `transaction.json` and its kin |

Panel, jobs and worker call the agents over HTTP (`backend/node/requests.py`,
where every failure, refusal and lost answer becomes `False`) and, to deploy and
archive, a host over SSH; agents and OpenVPN's hooks call the panel's session
endpoints; host commands are started by an operator, by the agent or by the
panel and exclude each other by an operation lock. Nothing else connects the
processes but the database and the journals on disk.

### Components, what they keep and what makes them right

**Username rename** (`backend/user_rename/`). A durable job: state, a snapshot
of the user's nodes, evidence per node (staged, disabled, revoked). Right if the
name moves only when every node is ready, an old identity never comes back
after the switch, a job that says *completed* speaks the truth, and a job
always ends and frees its user.

**Node agent, identities** (`node-agent/core/service/user_managment.py`). A
certificate and a CCD file per Common Name: create, change status, delete.

**Users on their nodes** (`routers/users.py`, `routers/mirza.py`,
`node/assignment.py`, the reconciler). A user's row, its assignments and its
identities on the nodes, changed by routes that take the lifecycle lock, by
integration routes and enforcement that do not, by the reconciler and by
downloads. Right if what a request reports is so on every node, a failed move
is undone, and what a node missed is provisioned in the end.

**Lifecycle lock** (`user_rename/repository.py`, decorator in
`routers/users.py`). One row per user, expiring for a route, permanent for a
rename. Right if lifecycle mutations of one user exclude each other.

**Usage accounting** (`operations/daily_checks.py`). Right if traffic is charged
once, a reset forgives what came before it, and the exhausted are disabled.

**Session leases** (`routers/mirza.py` from line 560, `sessions.py`, two hooks).
Right if no call tracks more devices than the limit, a live device keeps its
row, and dead rows go.

**Reseller entitlements** (`routers/users.py:120`, admin routes). Right if what
is allocated has been paid or given, while integration routes that pay nothing
edit and delete the same users.

**Bandwidth control** (`operations/bandwidth_control.py`, `routers/bandwidth.py`).
Right if the nodes follow the policy of the row in the end.

**Router OpenVPN** (`backend/router_openvpn/`, `scripts/pvnetwork-router-openvpn`)
and **AnyConnect credentials** (`routers/anyconnect.py`). Right if what the
panel shows as a credential is accepted, and what it has closed is not.

**Node configuration** (`backend/node/configuration.py`,
`scripts/pvnetwork_node_configure.py`). A two-phase edit of a node's settings
with a durable decision on the panel and a journal on the node. Right if row
and node change both or neither, and a node is never left half-changed.

**Node deployment** (`routers/node.py`, `node/native_deploy.py`,
`scripts/pvnetwork_node_install.py`). Install or adopt a host over SSH, prove
it, register it, finalize it. Right if a registered node is never rolled back
and every transaction ends.

**Node maintenance** (`scripts/pvnetwork_node_lifecycle.py`, `..._backup.py`,
`..._restore.py`). Right if traffic counters survive and nothing stays
half-switched.

**Node archives** (`backend/node/archive_*.py`, `routers/node_archives.py`). A
private store of backups and the jobs that fill and restore them. Right if a
node gets back only what was received whole for it.

**Panel host** (`scripts/pvnetwork_lifecycle.py`,
`scripts/pvnetwork-panel-settings-apply.py`). Updates, rollbacks, restores and
settings changes. Right if, when every journal is final, the panel is of one
piece, and no row is lost.

**Panel backups** (`scripts/pvnetwork_lifecycle.py`, `routers/backups.py`).
Made, rehearsed in a database of their own, pinned, pruned and read back by the
host commands; listed and expired by the panel. Right if the recovery of a
transaction finds the backups its journal names, and every rehearsal database
is written down somewhere.

**Presence, notifications, authentication, migrations, frontend**: not
modelled; `PROJECT.json` and section 9 give the reasons.

## 2. What is hard

`PROJECT.json` lists 40 hazards at their lines. They fall into seven groups.

- *A process dies between two commits or two files*: the rename worker, the
  usage job, every host command, the panel during a deployment or an archive.
- *An answer is lost, or late*: a build of four minutes under a timeout of ten
  seconds; an enable command that goes on when nobody waits; a hook's call
  served after the hook gave up; a commit that raises although it happened.
- *State read before an await and used after it*: the list of users to disable,
  a user's total, a status file, the credentials to revoke, a reseller's refund.
- *Two actors on one thing*: routes, jobs and reconcilers on one user; two edits
  of one node; requests and a timer on one policy; clean-ups and jobs on one
  archive.
- *Two systems that must change together*: a node's row and its files, a
  release and its database, a password and its hash.
- *Something that must end*: a rename, a stale row, a user over quota, an
  interrupted transaction, a listener that is down.
- *One step of several failing*: one of the nodes out of reach, one of the
  compensations too.

## 3. Plan

By weight: identities and names first, then money and devices, then the
operations on whole nodes and on the panel itself, then the services beside.

| # | Module | State | About |
|---|---|---|---|
| 1 | `NodeAgent`, `UserRename`, `RenameContract` | checked, proved | the rename over its nodes, and the contract it implements |
| 2 | `LifecycleLock` | checked, proved | the lock under overruns, restarts and renames |
| 3 | `UsageAccounting` | checked, proved | charging, resets, enforcement |
| 4 | `SessionLease` | checked, proved | leases, hooks and the agent's cycle |
| 5 | `NodeConfiguration`, `SettingsEdit` | checked, proved | the two-phase edit, and the atomic change it implements |
| 6 | `UserFleet` | checked, proved | everybody who changes a user's identities |
| 7 | `NodeMaintenance` | checked, proved | update, archive, restores and recoveries of a node |
| 8 | `NodeDeployment` | checked, proved | the deployment transaction and the registration |
| 9 | `PanelHost` | checked, proved; one finding | updates, rollbacks, restores and settings of the panel |
| 10 | `RouterOpenVpn` | checked, proved | the listener for routers and its credentials |
| 11 | `NodeArchives` | checked, proved | the archive store and its jobs |
| 12 | `AnyConnect`, `ResellerCredit` | checked, proved | credentials, entitlements |
| 13 | `BandwidthControl` | checked | the policy's leases |
| 14 | `PanelBackups` | checked, proved | the panel's backups, their rehearsals and two retentions |

"Proved" speaks of safety; liveness is checked only (section 7).

What the plan has left: a proof of `EndsWhole` of `PanelHost` (its invariant
says nothing yet of the rows in the backups that a journal names); the durable
usage ledger's spool as a module; and a composition of `UserRename` with
`UserFleet`. Until then each has of the other only what it needs. `UserRename`
has whoever still reads the old name (`Revive`), and nobody who works with the
new one; `UserFleet` has one name, and no job that changes it.

## 4. Modules and code

A component has a module and an instance `MC...` that the `.cfg` of the same
name gives to TLC. Three instances check parts that share no state side by
side, as one behaviour or another: `MCLifecycleLock` (lock, bandwidth policy),
`MCNodeDeployment` (deployments, archives) and `MCPanelServices` (router,
AnyConnect, reseller, backups).

What is proved stands in eight modules: `UserRenameProofs` (with the lemmas
about `NodeAgent`), `UserFleetProofs` (with `LifecycleLock`, whose lock is why
the panel's requests of `UserFleet` take turns), `UsageAccountingProofs` (with
`SessionLease`), `NodeConfigurationProofs` (with the refinement of
`SettingsEdit`), `NodeMaintenanceProofs`, `NodeDeploymentProofs` (with the
archives), `PanelServicesProofs` (the four services of `MCPanelServices`) and
`PanelHostProofs`.

Definitions that begin with the comment *Wrong* are faulty variants of the
definition after them; each is the way one property is known to notice a fault
of that kind.

### NodeAgent

An identity is `[cert, ccd]`. `BuildReplies`, `StatusReplies` and
`DeleteReplies` give the set of (identity left behind, success seen) that a
call may end with, partial effects and lost answers included. The profile file
lives and dies with the certificate and is not a state of its own. A CCD entry
whose removal fails in a deletion is left in place (`Left`), as the agent
swallows that error; in a deactivation the same failure is left out
(section 9).

### UserRename

One user, one job. Columns of the job, name and lock are durable; `pc`,
`todo`, `bad`, `handling` are the worker's locals and a `Crash` loses them.

| Code | Model |
|---|---|
| `queue_user_rename` | `Queue` |
| `claim_runnable_job`, `run_once` | `Claim` |
| `preflight_job` | `PreflightPass`, `PreflightRaise` |
| `stage_new_identities` (both passes are one loop) | `StartStaging`, `CreateNew`, `RecordStaged`, `VerifyStaged`, `PreserveInactive`, `StagingDone` |
| `disable_old_identities` | `DisableOld`, `ConfirmConnected`, `ConfirmDisabled`, `DisablingDone` |
| `commit_central_rename` | `Commit`, `CommitRaise` |
| `revoke_old_identities`, `_attempt_cleanup` | `RevokeOld`, `InspectRevoked`, `Complete`, `CleanupPending` |
| `rollback_precommit`, the `except` of `run_rename_job` | `Handler...`, `Unstage`, `RestoreOld`, `DiscardNew`, `RollbackDone`, `Release` |

Around it: clients connect and leave, abandoned builds finish late, an
administrator deletes a node, another account takes the new name. And the
reconciler, which works from users it has listed before
(`pvnetwork-node-user-reconcile.py:71-75`, `:144-151`), a download
(`node/task.py:328-338`) and an integration request that switches the user on
may put the old identity back at any time, before the switch of the name and
after it: `Revive`. `revived` remembers the nodes where they did.
Abstractions: exceptions other than `RenameStageError` are crashes; reads of a
node that nothing writes in between are merged with the commit after them; the
resume branch of the commit for a name that is already new cannot be reached;
`rolling_back` is read by the engine and never written; the deletion of the
session rows at the commit is not tracked here.

### LifecycleLock

`Enter` and `Leave` have no await inside and are one step each; bodies
interleave and take up to `MaxBody`. `Leave` removes whatever row there is,
because the token check compares the route's own object with itself
(`expire_on_commit=False`); `LeaveFailed`, after a rollback, reads the row
again. Nothing ends a body when its lock is up, and routes await node after
node: in the run bodies are longer than the lock. `overrun`, a history variable, is
true from when a body outlives its lock until nobody is inside and a live job
has its row, and the properties speak of the rest of the time: an overrun
breaks the exclusion, and what it has broken does not last longer than that.

### UsageAccounting

One user with a row for every node. The job is `StartSync`, per node `Fetch`,
`ReadLast`, `Settle`, then `EnforceLoad` and `Disable`; the route is
`StartRenewal`, per node `ReadCounter` or `KeepBaseline`, `ResetUsage`,
`Refresh`, `Activate`. Both hold stale copies exactly where the ORM does, and
an attribute is written only if it differs from the copy. Nodes with a ledger
keep their counter; others report what is connected now. Left out: expiry
dates, other renewal actions, the node calls of a disable, history points.

A renewal and the job may run together, and a node may be out of reach during
a reset; both spoil the accounts (section 8). `Reckon` keeps the history that
says when: `clean` is a renewal that has run alone and missed no counter so
far, `exact` the time from a clean reset until a renewal runs beside the job or
resets what it has not read. `ChargedOnce` speaks of that time, so it also says
that a clean renewal repairs whatever it finds. That enforcement disables a
user who was renewed after being listed is in the model and no property.

### SessionLease

`leased`, `seen` and `held` are `active_sessions` with the ages of
`last_seen` and `acquired_at`; `up` is what OpenVPN serves; `busy`, `status`,
`todo` and `lag` are one cycle of `synchronize` on each node, with the age of
the status it works from; `late` are hooks' calls that were given up and may
still be served.

| Code | Model |
|---|---|
| `global_session_acquire` and the connect hook | `Acquire`, `Deny`, `FailOpen`, `LateAcquire` |
| `global_session_release` and the disconnect hook | `Release`, `ReleaseLost`, `LateRelease` |
| `global_session_heartbeat` | `Touch`, `Recover`, `Ignore`; 403: `Terminate`, `TerminateFails`; `BeatLost` |
| `global_session_snapshot` | `Snapshot`, `SnapshotLost` |
| `session_sampler`, a restart of the agent | `ReadStatus`, `AgentRestarts` |
| `update_user`, `replace_user_node_assignments` | `SetLimit`, `Reassign` (its effect on access) |

An endpoint has no await and is one step. An acquire that is refused because
the user is inactive, expired or exhausted changes nothing and is not a step.
`own`, a history variable, are the connections that have been up since their
row was inserted. Renaming, deleting or disabling the user, and the deletion
of a node, are not in this module.

### UserFleet

One username: its row, its identities on the nodes, and whoever changes them.
`walk[a]` is the request an actor works on, node by node: the panel (one at a
time, by the lock), the integration and the enforcement job, which take no
lock. `tells` marks the requests that report what the nodes said. `repair` is the reconciler's pass with the users and assignments it read
at its beginning; `late[n]` a build that nobody waits for; `company` the actors
whose request has had another one beside it.

| Code | Model |
|---|---|
| `change_user_status`, `renew_user`, `update_user`, `enforce_user_limits`, the Mirza status routes | `SetStatus`, `Renew`, `Edit`, `Enforce`, then `StatusSkipped`, `StatusCall`, `StatusDone` |
| `create_user`, `create_mirza_user` (two commits) | `Create`, `CreateBare`, `SetUserNodes`, `CreateSkipped`, `CreateCall`, `CreateDone`, `CreateRaises` |
| `replace_user_node_assignments` | `Move`, `DisableCall`, `DisableRefused`, `GivesUp`, `RestoreCall`, `MoveFailed`, `CommitNodes`, `Provision`, `MoveDone` |
| `delete_user` | `Delete`, `DeleteCall`, `DeleteDone` |
| `pvnetwork-node-user-reconcile.py` | `RepairStarts`, `RepairOpen`, `RepairOne`, `RepairFinds`, `RepairBuilds`, `RepairFails`, `RepairEnds` |
| `download_ovpn_client_from_node` | `Download` |

What decides about a user's access (expiry, quota) is abstracted: an edit may
find either, and the job may find any active user due.

Only three requests tell what the nodes said: a renewal (`node_sync`), a move,
and the panel's deletion (its list of nodes that failed). Status, edit and
creation, and the integration's deletion, answer success in any case
(`users.py:656-664`, `:780-781`; `mirza.py:399-415`, `:483-496`); of them
`ReportIsTrue` says nothing, and nothing true could be said.

### NodeConfiguration, SettingsEdit

`row`, `phase`, `prev`, `req`, `flight` are the panel's row and the private job
file of each edit; `net` the calls on their way; `tid` ... `tstate` the node's
journal; `disk`, `proc`, `rules` what the host really runs; `op`, `left` the
helper, lost when it is killed. `PanelStep` is the route
(`update_node_handler`), `Serve` the agent's endpoints, `HelperStep` the
command (`apply`, `finalize`, `recover`), `Operator` its recovery by hand. A
call may be served after its sender gave up, and an answer reaches only a
coroutine that still waits. `Downgrade` is the compatibility path that
`get_node_info` falls into when the node cannot be asked.

`SettingsEdit` is the promise: an edit is *applied* on the node only after it
is *committed* in the row, and *undone* only if it never will be. The mapping
(`panelFate`, `nodeFate`) covers the edits that have a job and change
something; one whose row another edit has overtaken is promised nothing.

### NodeMaintenance

One node under its operation lock: `agent` and `data` are the two journals,
`op`, `at`, `todo`, `held`, `pin` the helper. `Upgrade`, `Rollback`, `Backup`,
`RestoreLive`, `RestoreOffline`, `RecoverAgent`, `RecoverData` begin an
operation, `AgentStep` and `DataStep` go on with it or fail it, `Kill` and
`Reboot` cut it short; `Sample` counts traffic meanwhile, `Damage` breaks a
file or loses the ledger.

### NodeDeployment

`cur`, `pc`, `told`, `net` are the panel's job thread and its calls over SSH;
`tx`, `phase`, `intent` the installer's `transaction.json`; the rest is the
host. `JobStep` is `_run_deploy_job`, `ServeInstall`, `ServeRollback`,
`ServeFinalize` and `InstallerStep` the installer, fresh or adopting a legacy
agent (`ActivateHandover`, `StopLegacy`, `RestoreHandover`).

### NodeArchives

`entry` are the store's directories (metadata and file), `job` the last job of
each, `step` the thread or request at work, `holder` the host's lock. Bytes are
a number and their digest is that number, so what a digest vouches for is
exactly the content it was taken of. `received` and `restored` are histories.

### PanelHost

`app`, `built`, `home`, `env`, `dist` are the pointer, the release
directories and who holds which `.env` and build; `dbs` the databases with
schema, rows and the administrator's name; `journal` the two journals of
`pvnetwork_lifecycle.py`, `job` the settings change. `Update`,
`RollbackRelease`, `RestoreDatabase` and `ApplyHelper` begin an operation;
`Runs` are its steps, each with its failure (`UndoLife`, `UndoData`,
`UndoChange`); `Recover` is the operator's command, which treats a settings
change first. `Migratable` is the probe of an update's head and the rehearsal
of its migration: the one migration that only adds a table, or none, else the
update is refused before it touches anything.

### PanelBackups

`dirs` are the directories of backups (what is in them, whether a checksum
still fits, pinned, old, a record of a rehearsal database), `clones` the
rehearsal databases there are, `journal` the two journals with the backups they
name, `last` the pointer to the last backup, `task` the native command.

| Code | Model |
|---|---|
| `make_backup` | `RecoverRehearsal`, `EndRehearsals`, `Prune`, `Allocate`, `Dump`, `CreateClone`, `DropClone`, `Seal`, `NoteLast`, `Prune`, `Made` |
| `update_release`, `restore_database`, `rollback_release` | `Update`, `RestoreDatabase`, `RestoreUpload`, `UploadFails`, `RollbackRelease`, then `Probe`, `Pin`, `WriteJournal`, `Canary`, `Complete` |
| their `except`, `recover_transaction` | `Undo`, `Recover`, `CleanRehearsal`, `EndCleanup` |
| `_apply_retention` of the panel | `ApplyRetention`, at any time |
| a step that fails, a kill, a damaged file, the retention time | `BackupFails`, `StepFails`, `Kill`, `Damage`, `Age` |

What such an operation does to the releases and the databases is `PanelHost`'s;
here it is the one step *forward*. Checksums are the flag `whole`, the time of
the last change is `old`, and whether a rehearsal's record is an hour old is
left open. The clones of a canary and of a restore are not tracked.
`RecoveryFinds` names the two exceptions that the code has, `removed` and
`stray` (section 8).

### RouterOpenVpn, AnyConnect, ResellerCredit, BandwidthControl

`RouterOpenVpn` has the listener (`cfg` and `row` on the panel; `disk`, `proc`,
`opened`, `record` on the node) and one user's credential. A route of the panel
blocks the one event loop while it waits, so two routes never interleave; the
clean-up thread and the usage sync do. `sure`, `owed`, `told` remember what
the panel was told.

`AnyConnect` is one credential: hash, ciphertext and the key it is under, a
login and the session after it. Every route is one step.

`ResellerCredit` has the reseller's row and the requests that hold it
`FOR UPDATE` (`row`); while a request waits for nodes with the total it has
read, the integration's edit, deletion and creation change the same user
(`mirza.py:353-397`, `:526-553`); `loop = "stuck"` when a request waits for that row inside
the event loop that its holder needs.

`BandwidthControl` has the policy's row, the requests and the timer's process
between their awaits, and whom each node slows down until its lease ends. The
node's side is not in this repository; it is taken to do what it is told.
Rates and revisions are left out.

## 5. Runs

| Run | Checks | States |
|---|---|---|
| `rename_faults` | `LiveJobHoldsLock`, `CompletedMeansRevoked`, `OldNeverReturns`, refinement of `RenameContract`; crashes and a deleted node | holds, 3.0 million |
| `rename_steady` | `CutoverIsClean`, `EveryJobEnds`; no crash, no deleted node | holds, 66 thousand |
| `user_lock` | `OneMutation`; beside it `PolicyReigns` of the bandwidth policy | holds, 193 thousand |
| `usage_accounts` | `ChargedOnce`, `QuotaEnforced` | holds, 1.0 million |
| `session_leases` | `TrackedWithinLimit`, `LiveLeaseKept`, `GhostsEnd` | holds, 154 thousand |
| `node_configuration` | `WholeAtRest`, `RowTellsNode`, refinement of `SettingsEdit`, `EditsSettle` | holds, 855 thousand |
| `user_fleet` | `ReportIsTrue`, `MoveUndone`, `AssignedServed` | holds, 570 thousand |
| `node_maintenance` | `WholeWhenResolved`, `CountersKept`, `RecoveryEnds` | holds, 1.2 million |
| `node_deployment` | `RegisteredServed`, `AgentBehindRow`, `TransactionsEnd`; beside it `RestoredIsReceived`, `RunningKeepsArchive` of the archives | holds, 838 thousand |
| `panel_host` | `WholeAtRest`, `EndsWhole`, `RowsKept`, `RecoveryEnds` | holds, 1.4 million |
| `panel_services` | `EnabledIsAccepted`, `ClosedWhenTold`, `RepairEnds`, `ShownWorks`, `AllocationCovered`, `StuckBehindReset`, `RecoveryFinds` | holds, 971 thousand |
| `panel_rollback` | `RollbackKeepsData` | violated |

Every property of a passing run has a fault of a mapped definition in
`PROJECT.json` ("mutants") that breaks it under the run's own configuration.

Bounds, and why they are enough:

- *Rename*: two nodes. Every loop treats a node at a time and stops half-way
  at most once per run; a node before and a node after the fault are the two
  cases. The theorems need no bound. Crashes are unbounded.
- *Lock*: three requests (one that overstays, one that takes over, one that
  comes later), a lock of 4 ticks, bodies of up to 6, a clock of 12: long enough for
  an overrun, a takeover and a lock after all have left. `MaxTime` stops the clock.
- *Bandwidth*: two nodes, one user, two requests that overlap, two that change
  something: an activation undone by another, on a node that misses one.
- *Usage*: a node with a ledger and one without, a quota of 2 units, 2 units
  that the user moves on either node, two renewals, one crash. Accounts spoiled
  by an overlap or a missed counter and set right by the second renewal, and a
  quota used up before, between and after, are within reach.
- *Sessions*: two connections on one node, limits 1 and 2, `TTL` 2, `Grace` 2,
  status at most 1 tick old, one late call at a time (`MaxLate`). The endpoints
  distinguish connections only by row, node and user, so a second node differs
  from a second connection only in whose snapshot looks at it; the theorems
  cover any number of both. `MaxLag < Grace` stands for a status served within
  15 seconds of being read. That is not enforced: a cycle waits 4 seconds per
  eight unanswered heartbeats, so a node with many clients and a slow panel can
  exceed it, and a live row then goes until its next heartbeat.
- *Configuration*: two edits that may overlap, one that changes the port (server
  files, firewall, restart) and one the address only, one crash of the panel,
  the helper or the host; lost and late calls are unbounded. `NodeIsWhole` is
  proved without these bounds.
- *Fleet*: two nodes, two requests, one node that is drained or taken out once.
  A request beside another, after another, and before a repair are all there;
  a third request only repeats one of the pairs.
- *Maintenance*: two versions, a ledger up to 3, two operations (what is
  interrupted and the next), one failing step or kill, two reboots or damages.
- *Deployment*: three deployments of a host (a failed one, a retry, one after
  it), three faults. *Archives*: two entries in a store of two, so that room
  has to be made; two contents; one edit of the node's row.
- *Panel host*: three releases (an update that migrates, and one that would
  migrate back and is refused), both databases, one settings change, one restore,
  one row written at each place, two faults: a failure and one of its undoing.
  `panel_rollback` needs no fault.
- *Services*: two settings, two passwords, two names, one fault beyond those of
  a compensation; two keys; two users of a reseller, totals up to 2, usage up to 1, a quota of 1
  or 2, changes that are not paid within 1. *Backups*:
  three (the source of a restore, its first and its last backup, or an old one
  and a transaction's two), one of them spared by pruning, one failure, kill or
  damaged file.

`CHECK_DEADLOCK FALSE` is set where the system may stop: a job that has ended
is not claimed again, and the bounded clocks and counters run out.

## 6. Fairness

- *Rename*: weak fairness of the worker (`WorkerRuns`: its timer starts it three
  seconds after each run and every remote call has a timeout); a build ends
  within its own limit and a killed client leaves the status file
  (`NodesSettle`); strong fairness of a revocation that is confirmed
  (`NodesReturn`): a node that is asked again and again answers in the end, an
  assumption about operations that only the end of a job past its commit needs.
  After the name has moved, late readers end (`LateReadersEnd`): a request that
  has read the old name is finite, and what begins later reads the new one.
- *Usage*: weak fairness of the job's steps (timer of a minute, timeouts, also
  after a crash, of which there are finitely many) and of a started request.
  Clients need not move traffic and renewals need not be asked for.
- *Sessions*: weak fairness of the clock and of the agent's reading (a loop with
  a sleep of 15 s); strong fairness of a served heartbeat and of a served
  snapshot, and restarts of an agent end. No fairness for hooks, clients or
  administrators: nobody has to disconnect.
- *Fleet*: weak fairness of the reconciler (timer of half an hour) and of an
  abandoned build, strong fairness of its start and of a served repair. Nobody
  has to make a request, and requests may be lost for ever.
- *Bandwidth*: weak fairness of the timer, of a begun request and of the lease's
  end (180 s; the timer is 60 s), strong fairness of a node's renewal.
- *Configuration, maintenance, deployment, panel host*: a helper that is not
  killed goes on, a route gets an answer or gives up (every call has a timeout),
  and an operator recovers what is pending: no code does it by itself, so
  without that assumption nothing interrupted would ever end. A deployment's
  call is served in the end if it is made again and again (strong fairness of
  `Serve`).
- *Router listener*: what was begun goes on, and an operator who sees the
  listener down tells the panel again to run it.

## 7. Proofs

All theorems hold for every value of the constants under the modules' named
assumptions (finite sets, natural bounds) and what is said below.

**UserRename**: `Invariance` proves `IInv`: types, the lock, and five parts that
say why. `NameInv` (the columns alone say whether the name has moved),
`ControlInv` (where the worker is bounds the state), `StagedInv` (no node is
forgotten between the staging loop and the cutover), `RevokedInv` (what is
recorded as revoked is gone, and a loop has tried the rest), `FreshInv`. Each
safety property alone is not inductive: that a completed job left nothing
behind needs to know what the loops have passed. From it `JobAndLock`,
`NameAfterStaging`, `CompletionRevokes`, the action property `NoReturn`, and
`Refinement`: every step maps to a step of `RenameContract` or to a stutter.
`CleanMove` proves `CutoverIsClean` under `~CanCrash`, with any failures, late
builds and deleted nodes: `CleanInv` says what the loops leave at the nodes they
pass as long as the run is `Ahead`, and that a run which stops before the name
moves ends its job and never comes to the commit. Late readers may put the old
identity back at any step. `NoReturn` says that after the switch nothing else
does: neither the job, its abandoned calls nor a client. Each statement about
what is gone excepts the nodes where they did (`revived`), and a node loses
the exception when the job deletes the identity there.

**LifecycleLock**: `LockInvariance` proves `LockInv` for any `TTL` and bodies of
any length: unless a body has outlived its lock, whoever is inside owns the row
and its time is not up (`HolderInv`), and the rename's row lasts as long as its
job; and once nobody is inside and a live job has its row, this holds again.
`Exclusion` and `RenameHolds` follow. `UserFleet` has the panel change a user
one request at a time, so it speaks of requests that leave in time.

**UsageAccounting**: `TypeCorrect` and `EveryUnitOnce`, with overlaps,
unreachable nodes, failures and crashes. While the accounts are `exact` one of
job and renewal is idle (`Apart`), and a total read before an await is the
total after it (`Copies`). That nothing is charged twice needs a sum: what is
charged, and what each node's counter would still be charged for, is at most
what was moved and not forgiven (`Covered`), in the middle of a node's turn as
well (`Owe`), so that a turn may be given up and taken again. A unit is an
element, a sum over the nodes a cardinality, so no induction over data is
needed. That nothing of a ledger is left out is the other half, by `InOrder`
and `WasReset`. The accounts become exact again by a clean renewal: what it
leaves to be charged on a node it has passed does not depend on what it found
(`Passed`, `ResetAccounts`), and a ledger's counter is never below its baseline
whoever overlaps (`LedgersGrow`).

**UserFleet**: `TruthfulReports`, of the requests that tell what the nodes said,
and `MoveIsUndone`, for any fleet, requests and lost calls, as long as the
request ran alone. A walk knows of each node it has passed what it did there
(`Knows`), because a node with a build still under way would have refused the
call; only another request, the reconciler or a download can change that, and
each puts the walk in company (`Alone`).

**SessionLease**: `LagInv` says that a connection which is missing from the
status an agent works from has a row no older than that status. It is
inductive with the types (`LeaseInvariance`). `LeaseKept` follows under
`MaxLag < Grace`: a snapshot takes only rows of at least the grace.
`WithinLimit` counts: the only step that adds a row adds one and had room.

**NodeConfiguration**: `ConfigurationTypes`, `NodeIsWhole`, `RowIsTold` and
`EditRefined`, for any number of edits and faults. That files, firewall and
process agree at rest says nothing of a node in the middle of a change; the
invariant does. `PlanInv`: every file is of the old or the new settings, and a
process that is still that of the snapshot serves the old port. `ApplyInv` and
`RecoverInv`: the helper knows which files it has replaced or put back, and the
old rule is back with the first of them. `ReadyInv`: from *ready* on, as long
as no file was taken back, the host serves the new settings, also after a
reboot. A crash only forgets the helper, which is why the journal's state must
carry all of it. No fact about the panel is needed: a node is whole whatever it
is asked to do.
`RowIsTold` needs both sides: `EditInv` ties for each edit the coroutine, the
record of the job, the calls and answers on their way and the node's plan: an
answer says what the node has done or still will, and a decision is written
down before the node hears of it. `EditRefined` maps every step to a step of
`SettingsEdit` or to a stutter, with the same invariant: the node cannot apply
for good what the row does not have, nor undo what it has.

**NodeMaintenance**: `MaintenanceTypes`, `AgentIsWhole` and `CountersAreKept`.
While an operation is open the journal says how far it may have come
(`UpgradeInv` and its kin), so that a recovery, which knows nothing else, puts
pointer, process and journal in agreement. For the counters (`LedgerInv`): what
an operation saved of the ledger is all that was counted as long as the sampler
stands still, and who replaces the ledger has stopped it.

**NodeDeployment**: `RegisteredIsServed` and `HooksFindAgent`. `DeployInv` says
what the installer's transaction and its files owe each other at each phase
(`Working`, `JobRow`), and what a call on its way may still do (`Calls`): a
rollback on its way is for a deployment that is not, and will not be,
registered, a finalization for the one in the row.

**NodeArchives**: `ArchiveTypes`, `RestoresReceived`, `JobsKeepArchives` for any
number of entries, contents and edits of the row (contents are positive
numbers, `ConstantsOK`). The invariant says of each entry what receipt, file
and job vouch for at every stage: what somebody works on is not expired, what
is still received is not sealed, and the digest of a sealed entry, which the
node compares its inbox with, is of something received for the entry's binding,
which is the row that a running job addresses.

**RouterOpenVpn**: `RouterTypes`, `ShownIsAccepted`, `CleanupCloses` with no
bound on passwords, names, settings or faults. The invariant follows a
password from the route to the node (`Pushing`, `Pushed`), what a rotation
takes back (`TakingBack`), whose name a clean-up revokes (`Names`, `Sending`),
and what is known of an account that is off (`Closed`).

**AnyConnect, ResellerCredit**: `PasswordsWork` from what a stored ciphertext
can be opened to (`StoredInv`); `OnlyResetsBlock`: nobody but a renewal with a
reset keeps the reseller's row across an await (`HeldByReset`); `PaidFor`:
totals are cardinalities again, and whatever account an integration route has
left meanwhile under a request's name, the request charges or refunds in the
same transaction in which it allocates or takes away, or in none.

**PanelBackups**: `RecoveryIsPossible` for any number of backups, checkpoints
and faults. A directory that is being written is young, unpinned and nobody
else's (`UnderWay`), so neither retention takes it; what a journal names was
pinned before it was named, and what an undoing reads is pinned still
(`Held`, `JournalsKept`, `TaskKept`). Pruning works from a set it looked up
before; since journals are only written by the command that prunes, the set
still contains all they name (`Known`). `WrittenDown` follows the record of a
rehearsal database over its creation and removal.

**PanelHost**: `HostInvariant`, `RestIsWhole` (`WholeAtRest`) and `NoRowLost`
(`RowsKept`), for any number of releases, migrations, restores, settings
changes, failures, kills and reboots. An operation is a sequence of steps in
`todo`, and between two of them nothing is whole, so the invariant has two
halves. One is what there is to go back to: `UpdateInv`, `RollbackInv`,
`RestoreInv` and `JobInv` say of each journal that it still stands for a
release, a frontend, an `.env` and a schema that go together, whatever step
was the last. The other is what is left to do: `PlanInv` says that `todo` is a
chain of the plan that journal and operation choose and ends with its last
step, and `UpdatingInv` to `ChangingBackInv` say of each step what has been
done when it is the next. `SoundInv` is the whole host, as long as nothing is
open. A release that an update left behind has to stay fit for a later
rollback although restores and settings changes alter what it shares with the
one in use (`RetainedInv`): a settings change cannot lose it because it gives
the release in use an `.env` of its own. `NoRowLost` rests on the same
invariant: the pointer moves only between releases that are installed, and an
update goes back to an `.env` that names the database it came from. The finding
below is where its premise ends.

The assumptions are those of the modules: finite sets of nodes and users
(`IsFiniteSet`, where sums are taken), natural bounds, positive contents and
schema numbers (`HostAssumption`); and
the premises the code does not enforce, which the theorems name: `MaxLag <
Grace`, and `~CanCrash` for the cutover. Others speak of the time in which
something the code does not prevent has not happened (`overrun`, `exact`,
`company`, `revived`), in a model in which it happens. None of
the other bounds is needed, so what a run shows up to its bounds holds beyond.

Only model-checked: liveness (`EveryJobEnds`, `QuotaEnforced`, `GhostsEnd`,
`PolicyReigns`, `EditsSettle`, `AssignedServed`, the `...End` properties),
which rests on fairness and ENABLED; and the action property `EndsWhole` of
`PanelHost`. No module uses RECURSIVE operators.

## 8. Findings and known divergences

**`panel_rollback`** is a run that TLC ends with a counterexample.
`docs/UPDATES.md:37` promises that a code rollback keeps the live data. A
release installed by an update only links to the first release's `.env`; a
settings change gives the new release an `.env` of its own; a PostgreSQL
restore then points that file at the restored database. `rollback_release`
(`pvnetwork_lifecycle.py:974-995`) starts the retained release, whose `.env`
still names the database from before the restore: the panel answers healthy
on other rows than it had.

What follows was met while modelling. It is in the models unless said
otherwise, and the checked properties are stated so that they hold beside it.

*Rename and lock.* A worker that dies between two disabled nodes resumes into
the commit with an old identity still enabled (`engine.py:187`): `CutoverIsClean`
is checked without crashes. A death between the terminal state and the release
of the lock locks the user for good (`engine.py:361-364`): `EveryJobEnds` too. A
deactivation that took effect without being confirmed is not compensated
(`engine.py:180`). The reconciler, a download and an integration request that
read the old name before the switch put the old identity back after it
(`Revive`); a completed job does not look again. A route that overruns its lock
removes whoever's row there is (`repository.py:145`): `overrun`.

*Usage and sessions.* A renewal that cannot reach a node lets the next sync
charge traffic from before it (`daily_checks.py:254`), and a sync that settles
inside a renewal writes the old total back (`:167`): both end `exact`, and the
next clean renewal brings it back. Enforcement disables a user who was renewed
after `daily_checks.py:24-33` listed the exhausted and before `:40` gets to
them, and nothing switches that user on again. A client let in during an outage stays connected above the
limit (`mirza.py:1352`, `sessions.py:48`).

*Fleet.* `update_user` calls `enforce_user_limits()` without awaiting it
(`users.py:663`). `create_mirza_user` commits the user and its assignments
separately, so others see a legacy user in between. The reconciler reads users
before assignments. `delete_user` deletes the row by name. A download builds a
missing profile of an inactive user. Status, edit, creation and the
integration's deletion answer success whatever the nodes said. A creation by
the integration that raises on the way deletes the user and leaves on the nodes
what was already built (`mirza.py:296-318`). A node that missed an enable stays off; a
disable that took effect without an answer is not compensated in a move.

*Node configuration.* Nobody calls `recover-configuration` automatically, and the
agent kills the helper after 300 s. A `get_node_info` that fails downgrades
the edit to the unprotected path (`direct`). Overlapping edits mix the fields
of two requests in the row (`stale`). An edit that changes nothing is judged
*finalize*. A VPN restarted after *ready* bars *finalize*.

*Node maintenance.* An offline recovery puts the ledger of its beginning back
under an agent that a reboot has started (`pvnetwork_node_restore.py:390`): what
it counted meanwhile is lost. `CountersKept` leaves this case out,
`AlwaysCounted` states it with it. `restore` does not look at the agent's
journal, while `recover-agent` is blocked as long as data are pending. Pins
that a crash left stale (`pvnetwork_node_lifecycle.py:151`) or a reboot made so
(`pvnetwork_node_restore.py:242`) bar a recovery (`Barred`).

*Deployment.* A retry has a new identity, so an interrupted *ready* transaction
blocks every redeployment until the operator rolls back. A refresh that fails
after the commit leaves a registered node that is never finalized under a
failed job. An installer that times out goes on remotely with no rollback. The
trust record survives a rollback. A unit that was noted and not written cannot
be stopped, so rollback fails for good, and an adopted VPN that was restarted
bars finalize and rollback, which contradicts `node.py:614` (`Barred`). Deleting
a row leaves the native installation finalized, and redeployment is refused.

*Archives.* A crash between reservation and seal, or in the middle of an upload,
leaves an entry *receiving* that nothing removes; 16 of them fill the store. A
failed restore's upload stays on the node. A backup is sealed before it is
compared with the node's receipt.

*Panel host.* A crash between *rolled_back* and *complete* of the two journals
(`pvnetwork_lifecycle.py:993`) makes recovery put the new release back while
the journal says rolled back. Update and restore open the proxy before
*complete* (`:905`), so a recovery of a restore loses rows written since. A
reboot in the middle of a restore starts timers and panel. A rooted
installation whose adoption fails at attaching leaves a bare directory
(`Stranded`). Recovery handles a settings change first, and then nothing else.
A PostgreSQL clone that fails leaves its journal *preparing*. After an older
backup is restored the administrator's row may have an old name.

*Panel backups.* The panel's own retention (`routers/backups.py:42-68`) heeds
nothing but a pin. It takes the checkpoints that native pruning keeps
(`CHANGELOG.md`, v1.0.62; `tests/test_native_backup_maintenance.py:139`), the
source that a restore's journal names, and the records of rehearsal databases
that were not cleaned up, whose databases then nobody knows (`removed`). A
`createdb` that fails after it took effect has its record taken away
(`pvnetwork_lifecycle.py:383-410`), and the rehearsal of an upload of the first
format never has one (`stray`). A PostgreSQL backup that was downloaded from the
panel cannot be uploaded again: the archive (`backups.py:160`) leaves out
`database-rehearsal.json`, which the checksums list.

*Router OpenVPN.* Disabling a listener disables the rows and leaves the node's
`credentials.tsv`: enabled again, the node accepts credentials shown as
disabled (`router_openvpn.py:251`). Changing port and subnet of a running
listener reports success while the old process serves. An enable whose answer
was lost and whose row is disabled or missing cannot be repeated. Usage-sync
that deactivates during a rotation leaves the credential on. A failed
revocation is never retried, although
`docs/superpowers/plans/2026-09-19-router-openvpn-compatibility.md:201` calls it
queued. A rename leaves the credential under the old name. The unit is started
and never enabled: it is down after a reboot.

*AnyConnect, resellers, bandwidth.* A login accepted before a switch-off may get
its session after it; switching on keeps a ciphertext that no key opens. A
renewal with reset holds the reseller's row across awaits, so another request
for it stops the event loop; on SQLite, which ignores `FOR UPDATE`, the late
flush overwrites the other's charge, which is not in the model: it has
PostgreSQL. A deletion refunds the total it read before it awaited the nodes
(`users.py:791`, `:808-816`): if the integration lowered it from 10 to 2 in
between (`mirza.py:353-397`), 10 come back for an account of 2. The main
administrator's and the integration's edits allocate and take away without
charging. `AllocationCovered` counts both in `given`, and with it what such a
deletion gives back. A deletion that is refused has already removed the
identities. Deleting a node named by the bandwidth policy makes every
reconciliation raise; an activation under way undoes a later disable; a failed
activation switches nodes off that the policy before it still names; a
narrower policy leaves the dropped nodes to their leases.

## 9. What is not modelled

- *Whole components*: live presence and rates, notifications, authentication
  and audit, migrations, frontend and documentation. They are display, outgoing messages, access control per
  request or data changes: nothing in them waits for another process.
- *Text and bytes*: profile and configuration text, checksums and file modes,
  packages, certificates' contents, HTTP downloads of archives and their limit
  in bytes. A file is *of* some settings, an archive is a number.
- *Parts of modelled components*: the deletion of nodes beside a settings edit
  or a deployment; keys of an agent that change in a settings edit; the PATCH of
  a node's row by the Mirza routes; retries of a configuration call with the
  same identity; the listing and downloading of panel backups, the
  clones of a canary and of a restore; first
  installation of a panel; the spool of a node's usage ledger and its corruption
  checks; a deactivation whose CCD entry stays because its removal fails and the
  agent swallows the error; builds of late readers under a new name; two waiting
  requests on one user of a reseller; rates and revisions of bandwidth plans; expiry dates (a pure function
  with unit tests of its own).
- *Operators' edits of files*, except where the code looks for them: an archive
  changed on the controller, a damaged file on a node, AnyConnect's key file.
- *Assumed*: foreign keys and row locks are enforced (PostgreSQL); in `UserFleet`,
  the panel's routes leave the lifecycle lock in time; an archive does not expire
  while its job runs (20 minutes against an hour); the first answer to
  contention for an operation lock is a refusal.
