---------------------------- MODULE NodeDeployment ----------------------------
(***************************************************************************)
(* Deployment of a native node on one host: the panel's job                *)
(* (backend/routers/node.py, backend/node/deploy.py, native_deploy.py), the *)
(* calls over SSH, and the installer's journalled transaction              *)
(* (scripts/pvnetwork_node_install.py), fresh or in place of a legacy agent *)
(* whose VPN, keys and customers it adopts.  The node is registered        *)
(* between the installer's "ready" and its "finalize"; what is not         *)
(* registered is rolled back.                                              *)
(***************************************************************************)
EXTENDS Naturals

CONSTANTS MaxDeploys, \* bound, at least 1: deployments of the host
          MaxFaults   \* bound: failing steps, kills, reboots and restarts of the VPN

Deploy == 1 .. MaxDeploys
Legacy == 0                  \* the row of the agent to be adopted
Absent == MaxDeploys + 1     \* no row, no trust, no transaction

VARIABLES
    mode,     \* "fresh" or "adopt", for good
    \* the panel, durable
    row,      \* the deployment whose key and port the node's row holds
    trust,    \* the deployment whose CA the panel trusts
    \* the panel's thread and the calls
    cur, pc, told, net,
    \* the host, durable
    tx, phase,    \* transaction.json: its id and phase
    intent,       \* what the journal says has been begun
    pki,          \* /etc/openvpn/server: "empty", "partial" or "whole"
    staged,       \* the private directory: "none", "partial" or "whole"
    units,        \* the unit files: "none", "noted", "written" or "removed"
    loaded,       \* systemd knows the units
    hooks,        \* whose session hooks the VPN calls
    legacy,       \* the legacy agent runs and is enabled
    native,       \* the native agent runs and is enabled
    vpn,          \* the VPN runs and is enabled
    pinned,       \* the process of the adopted VPN is the one captured
    \* the installer, lost with it
    op, at,
    faults

panelVars == <<row, trust>>
callVars == <<cur, pc, told, net>>
unitVars == <<units, loaded>>
pkiVars == <<pki, staged>>
agentVars == <<hooks, legacy, native>>
hostVars == <<unitVars, pkiVars, agentVars, vpn, pinned>>
vars == <<mode, panelVars, callVars, tx, phase, intent, hostVars, op, at, faults>>

Intent == {"stage", "publish", "vpn", "handover", "stop"}
Call == {"install", "finalize", "rollback"}

TypeOK ==
    /\ mode \in {"fresh", "adopt"}
    /\ row \in Deploy \cup {Legacy, Absent} /\ trust \in Deploy \cup {Absent}
    /\ cur \in 0 .. MaxDeploys
    /\ pc \in {"idle", "ssh", "trust", "verify", "commit", "refresh", "finalize", "proof", "undo", "stuck"}
    /\ told \in {"nothing", "ready", "done"}
    /\ net \in SUBSET (Deploy \X Call)
    /\ tx \in Deploy \cup {Absent}
    /\ phase \in {"none", "installing", "ready", "finalized", "rolled_back"}
    /\ intent \in SUBSET Intent
    /\ pki \in {"empty", "partial", "whole"} /\ staged \in {"none", "partial", "whole"}
    /\ units \in {"none", "noted", "written", "removed"} /\ loaded \in BOOLEAN
    /\ hooks \in {"legacy", "native"} /\ pinned \in BOOLEAN
    /\ legacy \in BOOLEAN /\ native \in BOOLEAN /\ vpn \in BOOLEAN
    /\ op \in Call \cup {"none"}
    /\ faults \in 0 .. MaxFaults

Init ==
    /\ mode \in {"fresh", "adopt"}
    /\ row = IF mode = "adopt" THEN Legacy ELSE Absent
    /\ trust = Absent
    /\ cur = 0 /\ pc = "idle" /\ told = "nothing" /\ net = {}
    /\ tx = Absent /\ phase = "none" /\ intent = {}
    /\ pki = IF mode = "adopt" THEN "whole" ELSE "empty"
    /\ staged = "none" /\ units = "none" /\ loaded = FALSE /\ pinned = TRUE
    /\ hooks = IF mode = "adopt" THEN "legacy" ELSE "native"
    /\ legacy = (mode = "adopt") /\ native = FALSE /\ vpn = (mode = "adopt")
    /\ op = "none" /\ at = "idle" /\ faults = 0

--------------------------------------------------------------------------------
(* The panel's job *)

Fault == faults < MaxFaults /\ faults' = faults + 1

Send(a) == net' = net \cup {<<cur, a>>} /\ told' = "nothing"
Quiet == UNCHANGED <<net, told>>
End == pc' = "idle" /\ told' = "nothing"
Remote == <<tx, phase, intent, hostVars, op, at>>

\* One deployment of an address at a time, as long as the panel lives.
Start ==
    /\ pc = "idle" /\ cur < MaxDeploys
    /\ row = Absent \/ mode = "adopt"   \* the name and the address are free, or kept
    /\ cur' = cur + 1
    /\ net' = net \cup {<<cur + 1, "install">>} /\ told' = "nothing"
    /\ pc' = "ssh"
    /\ UNCHANGED <<mode, panelVars, Remote, faults>>

Installed ==
    /\ pc = "ssh" /\ told = "ready"
    /\ pc' = "trust"
    /\ Quiet
    /\ UNCHANGED <<mode, panelVars, cur, Remote, faults>>

\* The installer failed, was refused, or outlived the panel's patience; without
\* its answer there is no transaction to roll back.
NotInstalled ==
    /\ pc = "ssh"
    /\ End
    /\ UNCHANGED <<mode, panelVars, cur, net, Remote, faults>>

SaveTrust ==
    /\ pc = "trust"
    /\ trust' = cur
    /\ pc' = "verify"
    /\ Quiet
    /\ UNCHANGED <<mode, row, cur, Remote, faults>>

TrustFails ==
    /\ pc = "trust"
    /\ Fault
    /\ Send("rollback") /\ pc' = "undo"
    /\ UNCHANGED <<mode, panelVars, cur, Remote>>

\* The panel reaches the agent at its new port.
Verify ==
    /\ pc = "verify"
    /\ \/ native /\ pc' = "commit" /\ UNCHANGED faults
       \/ Fault /\ pc' = "proof"
    /\ Quiet
    /\ UNCHANGED <<mode, panelVars, cur, Remote>>

\* The commit may also raise although the database has it.
Commit ==
    /\ pc = "commit"
    /\ row' = cur
    /\ \/ pc' = "refresh" /\ UNCHANGED faults
       \/ Fault /\ pc' = "proof"
    /\ Quiet
    /\ UNCHANGED <<mode, trust, cur, Remote>>

CommitFails ==
    /\ pc = "commit"
    /\ Fault
    /\ pc' = "proof"
    /\ Quiet
    /\ UNCHANGED <<mode, panelVars, cur, Remote>>

Finalize ==
    /\ pc = "refresh"
    /\ Send("finalize") /\ pc' = "finalize"
    /\ UNCHANGED <<mode, panelVars, cur, Remote, faults>>

\* The row cannot be read back: the job fails, registered and not finalized.
RefreshFails ==
    /\ pc = "refresh"
    /\ Fault
    /\ End
    /\ UNCHANGED <<mode, panelVars, cur, net, Remote>>

\* Wrong: a job that failed takes its node for unregistered.
ProofSkipped ==
    /\ pc = "proof"
    /\ \/ Send("rollback") /\ pc' = "undo" /\ UNCHANGED faults
       \/ Fault /\ pc' = "stuck" /\ Quiet
    /\ UNCHANGED <<mode, panelVars, cur, Remote>>

\* Whether the failed job has registered its node is asked in a session of its
\* own.  When that fails too, the thread dies and nobody ends the job.
Proof ==
    /\ pc = "proof"
    /\ \/ row = cur /\ End /\ UNCHANGED <<net, faults>>
       \/ row # cur /\ Send("rollback") /\ pc' = "undo" /\ UNCHANGED faults
       \/ Fault /\ pc' = "stuck" /\ Quiet
    /\ UNCHANGED <<mode, panelVars, cur, Remote>>

\* The answer to rollback or finalize, or its loss, ends the job.
Settled ==
    /\ pc \in {"undo", "finalize"}
    /\ End
    /\ UNCHANGED <<mode, panelVars, cur, net, Remote, faults>>

\* The panel dies: its thread, its lock on the address and its job are gone, and
\* the job reads as interrupted.
PanelCrash ==
    /\ pc # "idle"
    /\ \/ pc = "stuck" /\ UNCHANGED faults
       \/ pc # "stuck" /\ Fault
    /\ End
    /\ UNCHANGED <<mode, panelVars, cur, net, Remote>>

--------------------------------------------------------------------------------
(* The installer *)

Panel == <<panelVars, cur, pc, net>>
Reply(d, a, t) == told' = IF d = cur /\ pc = a THEN t ELSE told
Take(d, a) == <<d, a>> \in net /\ net' = net \ {<<d, a>>}
Goto(o, l) == op' = o /\ at' = l
Done == op' = "none" /\ at' = "idle"

\* Not served: locked, unreachable, refused by the preflight, not this
\* transaction.
Refuse(d, a) ==
    /\ Take(d, a)
    /\ UNCHANGED <<mode, panelVars, cur, pc, told, Remote, faults>>

NoTransaction == phase \in {"none", "rolled_back"}

\* The legacy hooks and units and the VPN's process are captured before anything
\* is changed; the private directory is named by the transaction.
ServeInstall(d) ==
    /\ op = "none" /\ Take(d, "install")
    /\ NoTransaction
    /\ tx' = d /\ phase' = "installing"
    /\ intent' = IF mode = "adopt" THEN {"handover"} ELSE {}
    /\ staged' = "none" /\ units' = "none" /\ pinned' = TRUE
    /\ Goto("install", IF mode = "adopt" THEN "units" ELSE "stage")
    /\ UNCHANGED <<mode, panelVars, cur, pc, told, pki, loaded, agentVars, vpn, faults>>

StagePKI ==
    /\ op = "install" /\ at = "stage"
    /\ intent' = intent \cup {"stage"}
    /\ staged' = "partial"
    /\ Goto(op, "build")
    /\ UNCHANGED <<mode, Panel, told, tx, phase, pki, unitVars, agentVars, vpn, pinned, faults>>

\* Inventory and intent are in the journal before the directory is published.
BuildPKI ==
    /\ op = "install" /\ at = "build"
    /\ staged' = "whole"
    /\ intent' = intent \cup {"publish"}
    /\ Goto(op, "publish")
    /\ UNCHANGED <<mode, Panel, told, tx, phase, pki, unitVars, agentVars, vpn, pinned, faults>>

Publish ==
    /\ op = "install" /\ at = "publish"
    /\ pki' = staged /\ staged' = "none"     \* one rename
    /\ Goto(op, "units")
    /\ UNCHANGED <<mode, Panel, told, tx, phase, intent, unitVars, agentVars, vpn, pinned, faults>>

\* A file the transaction owns is noted in the journal, then written.
InstallOwned ==
    /\ op = "install" /\ at = "units"
    /\ \/ units = "none" /\ units' = "noted" /\ UNCHANGED <<loaded, op, at>>
       \/ /\ units = "noted" /\ units' = "written" /\ loaded' = TRUE
          /\ Goto(op, IF mode = "adopt" THEN "agent" ELSE "vpn")
    /\ UNCHANGED <<mode, Panel, told, tx, phase, intent, pkiVars, agentVars, vpn, pinned, faults>>

StartVpn ==
    /\ op = "install" /\ at = "vpn"
    /\ \/ "vpn" \notin intent /\ intent' = intent \cup {"vpn"} /\ UNCHANGED <<vpn, op, at>>
       \/ "vpn" \in intent /\ vpn' = TRUE /\ Goto(op, "agent") /\ UNCHANGED intent
    /\ UNCHANGED <<mode, Panel, told, tx, phase, unitVars, pkiVars, agentVars, pinned, faults>>

\* Wrong: the hooks are handed over before the agent is up.
StartAgentLast ==
    /\ op = "install" /\ at = "agent"
    /\ \/ mode = "adopt" /\ hooks = "legacy" /\ hooks' = "native" /\ UNCHANGED <<native, op, at>>
       \/ /\ mode = "fresh" \/ hooks = "native"
          /\ native' = TRUE /\ Goto(op, "ready") /\ UNCHANGED hooks
    /\ UNCHANGED <<mode, Panel, told, tx, phase, intent, unitVars, pkiVars, legacy, vpn, pinned, faults>>

StartAgent ==
    /\ op = "install" /\ at = "agent"
    /\ native' = TRUE
    /\ Goto(op, IF mode = "adopt" THEN "hooks" ELSE "ready")
    /\ UNCHANGED <<mode, Panel, told, tx, phase, intent, unitVars, pkiVars, hooks, legacy, vpn, pinned, faults>>

ActivateHandover ==
    /\ op = "install" /\ at = "hooks"
    /\ hooks' = "native"
    /\ Goto(op, "ready")
    /\ UNCHANGED <<mode, Panel, told, tx, phase, intent, unitVars, pkiVars, legacy, native, vpn, pinned, faults>>

BecomeReady ==
    /\ op = "install" /\ at = "ready" /\ pinned
    /\ phase' = "ready"
    /\ Reply(tx, "ssh", "ready")
    /\ Done
    /\ UNCHANGED <<mode, Panel, tx, intent, hostVars, faults>>

\* Any step may raise, and the last one does when the adopted VPN was restarted;
\* the installer rolls back in the same process.
InstallFails ==
    /\ op = "install"
    /\ \/ Fault
       \/ at = "ready" /\ ~pinned /\ UNCHANGED faults
    /\ Goto("rollback", "handover")
    /\ UNCHANGED <<mode, Panel, told, tx, phase, intent, hostVars>>

\* From the panel's job, or an operator who finds the node unregistered.
ServeRollback(d) ==
    /\ op = "none" /\ Take(d, "rollback")
    /\ tx = d /\ phase # "finalized"
    /\ Goto("rollback", "handover")
    /\ UNCHANGED <<mode, panelVars, cur, pc, told, tx, phase, intent, hostVars, faults>>

\* Legacy hooks first, then the legacy agent if it has been told to stop.
RestoreHandover ==
    /\ op = "rollback" /\ at = "handover"
    /\ hooks' = IF "handover" \in intent THEN "legacy" ELSE hooks
    /\ legacy' = (legacy \/ "stop" \in intent)
    /\ Goto(op, "services")
    /\ UNCHANGED <<mode, Panel, told, tx, phase, intent, unitVars, pkiVars, native, vpn, pinned, faults>>

\* systemctl stops a unit that is on disk or still in its memory, and fails for
\* any other.
Stoppable == units # "noted" /\ (units = "removed" => loaded)

StopServices ==
    /\ op = "rollback" /\ at = "services" /\ Stoppable
    /\ native' = FALSE
    /\ vpn' = (vpn /\ "vpn" \notin intent)
    /\ Goto(op, "unlink")
    /\ UNCHANGED <<mode, Panel, told, tx, phase, intent, unitVars, pkiVars, hooks, legacy, pinned, faults>>

\* systemd may forget a stopped unit without a file at once.
RemoveOwned ==
    /\ op = "rollback" /\ at = "unlink"
    /\ units' = IF units = "none" THEN units ELSE "removed"
    /\ loaded' \in {loaded, FALSE}
    /\ Goto(op, "pki")
    /\ UNCHANGED <<mode, Panel, told, tx, phase, intent, pkiVars, agentVars, vpn, pinned, faults>>

\* The published directory, when the rename has happened and nothing in it has
\* changed since.
Published == "publish" \in intent /\ staged = "none" /\ pki = "whole"

\* Wrong: the published directory is deleted file by file, which a crash may
\* leave half done.
DeletePKI ==
    /\ op = "rollback"
    /\ \/ at = "delete" /\ pki' = "empty" /\ Goto(op, "reload")
       \/ /\ at = "pki"
          /\ "publish" \in intent /\ staged = "none" => Published
          /\ IF Published
             THEN pki' = "partial" /\ Goto(op, "delete")
             ELSE Goto(op, "reload") /\ UNCHANGED pki
    /\ UNCHANGED <<mode, Panel, told, tx, phase, intent, staged, unitVars, agentVars, vpn, pinned, faults>>

\* A published directory goes back to its private name in one rename and is
\* kept; the rollback refuses one that no longer is what was published.
RetainPKI ==
    /\ op = "rollback" /\ at = "pki"
    /\ "publish" \in intent /\ staged = "none" => Published
    /\ IF Published
       THEN pki' = "empty" /\ staged' = "whole"
       ELSE UNCHANGED pkiVars
    /\ Goto(op, "reload")
    /\ UNCHANGED <<mode, Panel, told, tx, phase, intent, unitVars, agentVars, vpn, pinned, faults>>

Reload ==
    /\ op = "rollback" /\ at = "reload"
    /\ loaded' = (units = "written")
    /\ Goto(op, "end")
    /\ UNCHANGED <<mode, Panel, told, tx, phase, intent, units, pkiVars, agentVars, vpn, pinned, faults>>

RolledBack ==
    /\ op = "rollback" /\ at = "end" /\ pinned
    /\ phase' = "rolled_back"
    /\ intent' = {}
    /\ Reply(tx, "undo", "done")
    /\ Done
    /\ UNCHANGED <<mode, Panel, tx, hostVars, faults>>

\* A unit that cannot be stopped, an adopted VPN that is no longer the one
\* captured: the journal stays as it is.
RollbackRaises ==
    /\ op = "rollback"
    /\ \/ at = "services" /\ ~Stoppable
       \/ at = "end" /\ ~pinned
    /\ Done
    /\ UNCHANGED <<mode, Panel, told, tx, phase, intent, hostVars, faults>>

ServeFinalize(d) ==
    /\ op = "none" /\ Take(d, "finalize")
    /\ tx = d /\ phase \in {"ready", "finalized"} /\ native /\ pinned
    /\ Goto("finalize", IF "handover" \in intent THEN "mark" ELSE "end")
    /\ UNCHANGED <<mode, panelVars, cur, pc, told, tx, phase, intent, hostVars, faults>>

MarkStop ==
    /\ op = "finalize" /\ at = "mark" /\ hooks = "native"
    /\ intent' = intent \cup {"stop"}
    /\ Goto(op, "stop")
    /\ UNCHANGED <<mode, Panel, told, tx, phase, hostVars, faults>>

StopLegacy ==
    /\ op = "finalize" /\ at = "stop"
    /\ legacy' = FALSE
    /\ Goto(op, "end")
    /\ UNCHANGED <<mode, Panel, told, tx, phase, intent, unitVars, pkiVars, hooks, native, vpn, pinned, faults>>

Finalized ==
    /\ op = "finalize" /\ at = "end"
    /\ \/ pinned /\ phase' = "finalized" /\ Reply(tx, "finalize", "done")
       \/ ~pinned /\ UNCHANGED <<phase, told>>
    /\ Done
    /\ UNCHANGED <<mode, Panel, tx, intent, hostVars, faults>>

\* The installer fails for good or is killed; the journal stays.
InstallerDies ==
    /\ op # "none"
    /\ Fault
    /\ Done
    /\ UNCHANGED <<mode, Panel, told, tx, phase, intent, hostVars>>

\* The host reboots: units on disk are known again, enabled services run, and
\* the VPN is another process.
Reboot ==
    /\ tx # Absent
    /\ Fault
    /\ Done
    /\ loaded' = (units = "written") /\ pinned' = (mode = "fresh")
    /\ UNCHANGED <<mode, Panel, told, tx, phase, intent, units, pkiVars, agentVars, vpn>>

VpnRestarts ==
    /\ tx # Absent /\ mode = "adopt" /\ pinned
    /\ Fault
    /\ pinned' = FALSE
    /\ UNCHANGED <<mode, Panel, told, tx, phase, intent, unitVars, pkiVars, agentVars, vpn, op, at>>

\* An operator resolves what no job will: by the row, as the job would have.
OperatorResolves ==
    /\ op = "none" /\ pc \in {"idle", "stuck"}
    /\ phase \in {"installing", "ready"}
    /\ net = {}
    /\ net' = {<<tx, IF row = tx THEN "finalize" ELSE "rollback">>}
    /\ UNCHANGED <<mode, panelVars, cur, pc, told, Remote, faults>>

--------------------------------------------------------------------------------

JobStep ==
    \/ Installed \/ NotInstalled \/ SaveTrust \/ TrustFails \/ Verify \/ Commit \/ CommitFails
    \/ Finalize \/ RefreshFails \/ Proof \/ Settled

InstallerStep ==
    \/ StagePKI \/ BuildPKI \/ Publish \/ StartVpn \/ StartAgent \/ ActivateHandover \/ BecomeReady
    \/ InstallFails \/ InstallOwned \/ RestoreHandover \/ StopServices \/ RemoveOwned
    \/ RetainPKI \/ Reload \/ RolledBack \/ RollbackRaises
    \/ MarkStop \/ StopLegacy \/ Finalized

Serve == \E d \in Deploy : ServeInstall(d) \/ ServeRollback(d) \/ ServeFinalize(d)

Next ==
    \/ Start \/ JobStep \/ PanelCrash
    \/ InstallerStep \/ InstallerDies \/ Reboot \/ VpnRestarts
    \/ Serve \/ (\E d \in Deploy, a \in Call : Refuse(d, a))
    \/ OperatorResolves

\* Jobs and installers that are not killed go on; an operator looks after what
\* is pending, and his call is served in the end.
Fairness ==
    /\ WF_vars(JobStep) /\ WF_vars(InstallerStep) /\ WF_vars(OperatorResolves)
    /\ SF_vars(Serve)
    /\ WF_vars(\E d \in Deploy, a \in Call : Refuse(d, a))

Spec == Init /\ [][Next]_vars /\ Fairness

--------------------------------------------------------------------------------

\* A row that names a deployment is about a node that is installed, answers and
\* is trusted: whatever fails, a registered node is never rolled back
\* (backend/routers/node.py:680).
RegisteredServed ==
    row \in Deploy => /\ tx = row /\ trust = row
                      /\ phase \in {"ready", "finalized"}
                      /\ native /\ vpn /\ pki = "whole"

\* The panel and the hooks of an adopted VPN always find the agent they go to,
\* except while its handover is being taken back
\* (pvnetwork_node_install.py:386, :394, :405).
AgentBehindRow ==
    /\ row = Legacy => legacy
    /\ mode = "adopt" => IF hooks = "native" THEN native ELSE legacy

\* What the installer neither finalizes nor rolls back any more: a service file
\* noted and not written, or removed and forgotten by systemd, cannot be stopped;
\* an adopted VPN that was restarted is not the one captured.
Barred ==
    /\ op = "none" /\ phase \in {"installing", "ready"}
    /\ ~pinned \/ ~Stoppable

\* A transaction that was begun is finalized or rolled back in the end, the
\* latter with nothing left in the VPN's directory (pvnetwork_node_install.py:690,
\* "must never strand half a CA"), unless it is barred for good.
TransactionsEnd ==
    phase \in {"installing", "ready"} ~>
        \/ phase = "finalized" \/ Barred
        \/ phase = "rolled_back" /\ (mode = "fresh" => pki = "empty" /\ ~vpn)
================================================================================
