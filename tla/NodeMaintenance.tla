---------------------------- MODULE NodeMaintenance ----------------------------
(***************************************************************************)
(* Maintenance of one native node under its operation lock: the agent's    *)
(* upgrade and rollback (scripts/pvnetwork_node_lifecycle.py), the verified *)
(* archive (scripts/pvnetwork_node_backup.py), the compatible (live) and   *)
(* the offline restore (scripts/pvnetwork_node_restore.py), and the        *)
(* recovery of each from its journal.  The agent keeps counting traffic    *)
(* whenever it runs; the helper may be killed at any step and the host may *)
(* reboot.                                                                 *)
(***************************************************************************)
EXTENDS Naturals, FiniteSets

CONSTANTS MaxVersion, \* bound: agent versions 1 .. MaxVersion
          MaxLedger,  \* bound: traffic counted
          MaxFaults,  \* bound: steps that fail, kills of the helper
          MaxOutages, \* bound: damage and reboots
          MaxOrders   \* bound: operations begun

ASSUME VersionAssumption == MaxVersion \in Nat \ {0}
ASSUME BoundAssumption == MaxLedger \in Nat \ {0} /\ MaxFaults \in Nat
                          /\ MaxOutages \in Nat /\ MaxOrders \in Nat

Version == 1 .. MaxVersion
File == {"hook", "pki"}   \* in the order an archive lists them
LiveFile == {"hook"}      \* what a compatible restore may repair
Down == 0

VARIABLES
    \* the host
    app,      \* the release the agent's pointer names
    running,  \* the version of the running agent, or Down
    canary,   \* the staged release runs beside the agent
    disk,     \* disk[f]: "good" or "bad"
    ledger,   \* traffic in the accounting database; 0: there is none
    vpn, vup, \* incarnation of the VPN process; whether it runs
    arch,     \* the verified archive, or the empty set
    \* the journals
    agent,    \* agent-transaction.json
    data,     \* data-transaction.json
    \* the helper, lost with it
    op, at, todo, held, pin,
    faults, outages, orders

host == <<app, running, canary, disk, ledger, vpn, vup, arch>>
helper == <<op, at, todo, held, pin>>
vars == <<host, agent, data, helper, faults, outages, orders>>

Content == [File -> {"good", "bad"}]
Archived == [disk : Content, ledger : 0 .. MaxLedger]
\* What an operation must leave alone: the VPN's process and its files.
Process == 0 .. 4
Protected == Process \X {"good", "bad"}
Service == {"agent", "vpn"}

AgentState == {"none", "building", "canary_verified", "switching", "switched", "complete",
               "rolled_back"}
DataState == {"none", "prepared", "quiescing", "quiesced", "switching", "switched", "healthy",
              "complete", "rolled_back"}
Final == {"none", "complete", "rolled_back"}

TypeOK ==
    /\ app \in Version /\ running \in Version \cup {Down} /\ canary \in BOOLEAN
    /\ disk \in Content /\ ledger \in 0 .. MaxLedger
    /\ vpn \in Process /\ vup \in BOOLEAN /\ arch \in SUBSET Archived
    /\ agent.state \in AgentState /\ data.state \in DataState
    /\ data.repairs \subseteq File /\ todo \subseteq File
    /\ held \in 0 .. MaxLedger /\ faults \in 0 .. MaxFaults /\ outages \in 0 .. MaxOutages
    /\ orders \in 0 .. MaxOrders

AllGood == [f \in File |-> "good"]

\* A journal that is resolved; the rest of it is not read again.
Closed(s) == [state |-> s, mode |-> "live", repairs |-> {}, saved |-> AllGood,
              source |-> [disk |-> AllGood, ledger |-> 0], pin |-> <<0, "good">>, db |-> 0,
              services |-> {}, desired |-> {}]

Init ==
    /\ app = 1 /\ running = 1 /\ canary = FALSE
    /\ disk = AllGood /\ ledger = 1 /\ vpn = 0 /\ vup = TRUE /\ arch = {}
    /\ agent = [state |-> "none", previous |-> 1, version |-> 1, pin |-> <<0, "good">>]
    /\ data = Closed("none")
    /\ op = "none" /\ at = "idle" /\ todo = {} /\ held = 0 /\ pin = <<0, "good">>
    /\ faults = 0 /\ outages = 0 /\ orders = 0

--------------------------------------------------------------------------------

Higher(a, b) == IF a >= b THEN a ELSE b

AgentResolved == agent.state \in Final
DataResolved == data.state \in Final

Snap == <<vpn, disk["pki"]>>
\* A VPN that does not run cannot be compared either.
Unchanged(p) == vup /\ Snap = p

\* A pid nobody remembers.
NewProcess == CHOOSE p \in Process : p \notin {vpn, pin[1], agent.pin[1], data.pin[1]}

Archive == {[disk |-> disk, ledger |-> ledger]}

Goto(o, l) == op' = o /\ at' = l
Idle == op' = "none" /\ at' = "idle" /\ todo' = {} /\ held' = 0 /\ pin' = <<0, "good">>
SetAgent(s) == agent' = [agent EXCEPT !.state = s]
SetData(s) == data' = [data EXCEPT !.state = s]

--------------------------------------------------------------------------------
(* Archives and agent releases *)

Order == op = "none" /\ orders < MaxOrders /\ orders' = orders + 1

Backup ==
    /\ op = "none" /\ DataResolved /\ vup
    /\ arch' = Archive
    /\ UNCHANGED <<app, running, canary, disk, ledger, vpn, vup, agent, data, helper, faults, outages, orders>>

\* A verified archive precedes the journal.
Upgrade(v) ==
    /\ Order /\ AgentResolved /\ DataResolved /\ vup
    /\ v > app
    /\ arch' = Archive
    /\ agent' = [state |-> "building", previous |-> app, version |-> v, pin |-> Snap]
    /\ pin' = Snap
    /\ Goto("upgrade", "build")
    /\ UNCHANGED <<app, running, canary, disk, ledger, vpn, vup, data, todo, held, faults, outages>>

StartCanary ==
    /\ op = "upgrade" /\ at = "build" /\ Unchanged(pin)
    /\ canary' = TRUE
    /\ Goto(op, "canary")
    /\ UNCHANGED <<app, running, disk, ledger, vpn, vup, arch, agent, data, todo, held, pin, faults, outages, orders>>

CanaryVerified ==
    /\ op = "upgrade" /\ at = "canary"
    /\ canary' = FALSE
    /\ SetAgent("canary_verified")
    /\ Goto(op, "switching")
    /\ UNCHANGED <<app, running, disk, ledger, vpn, vup, arch, data, todo, held, pin, faults, outages, orders>>

\* The journal keeps the protected state of the upgrade; the rollback compares
\* with the one it finds.
Rollback ==
    /\ Order /\ agent.state = "complete" /\ DataResolved /\ vup
    /\ pin' = Snap
    /\ Goto("rollback", "switching")
    /\ UNCHANGED <<host, agent, data, todo, held, faults, outages>>

Switching ==
    /\ op \in {"upgrade", "rollback"} /\ at = "switching"
    /\ SetAgent("switching")
    /\ Goto(op, "pointer")
    /\ UNCHANGED <<host, data, todo, held, pin, faults, outages, orders>>

Pointer ==
    /\ op \in {"upgrade", "rollback"} /\ at = "pointer"
    /\ app' = IF op = "upgrade" THEN agent.version ELSE agent.previous
    /\ Goto(op, IF op = "upgrade" THEN "switched" ELSE "restart")
    /\ UNCHANGED <<running, canary, disk, ledger, vpn, vup, arch, agent, data, todo, held, pin, faults, outages, orders>>

Switched ==
    /\ op = "upgrade" /\ at = "switched"
    /\ SetAgent("switched")
    /\ Goto(op, "restart")
    /\ UNCHANGED <<host, data, todo, held, pin, faults, outages, orders>>

RestartAgent ==
    /\ op \in {"upgrade", "rollback", "undo", "recoverAgent"} /\ at = "restart"
    /\ running' = app
    /\ Goto(op, "ready")
    /\ UNCHANGED <<app, canary, disk, ledger, vpn, vup, arch, agent, data, todo, held, pin, faults, outages, orders>>

\* The undone rollback does not look at the protected state.
AgentReady ==
    /\ op \in {"upgrade", "rollback", "undo", "recoverAgent"} /\ at \in {"ready", "verify"}
    /\ op = "undo" \/ Unchanged(pin)
    /\ SetAgent(IF op \in {"upgrade", "undo"} THEN "complete" ELSE "rolled_back")
    /\ Idle
    /\ UNCHANGED <<host, data, faults, outages, orders>>

\* Wrong: an upgrade that has not reached its switch is not taken up again.
RecoverSwitched ==
    /\ op = "none" /\ agent.state \in {"switching", "switched"} /\ DataResolved
    /\ pin' = agent.pin
    /\ Goto("recoverAgent", "stop")
    /\ UNCHANGED <<host, agent, data, todo, held, faults, outages, orders>>

RecoverAgent ==
    /\ op = "none" /\ ~AgentResolved /\ DataResolved
    /\ pin' = agent.pin
    /\ Goto("recoverAgent", "stop")
    /\ UNCHANGED <<host, agent, data, todo, held, faults, outages, orders>>

\* Wrong: an agent whose pointer is back is not restarted.
RecoverPointerBack ==
    /\ op = "recoverAgent" /\ at = "stop"
    /\ canary' = FALSE
    /\ app' = agent.previous
    /\ Goto(op, IF app # agent.previous THEN "restart" ELSE "verify")
    /\ UNCHANGED <<running, disk, ledger, vpn, vup, arch, agent, data, todo, held, pin, faults, outages, orders>>

RecoverPointer ==
    /\ op = "recoverAgent" /\ at = "stop"
    /\ canary' = FALSE
    /\ app' = agent.previous
    /\ Goto(op, IF app # agent.previous \/ agent.state \in {"switching", "switched"}
                THEN "restart" ELSE "verify")
    /\ UNCHANGED <<running, disk, ledger, vpn, vup, arch, agent, data, todo, held, pin, faults, outages, orders>>

\* A step fails, or finds the protected state changed.
Failure(checks) ==
    \/ faults < MaxFaults /\ faults' = faults + 1
    \/ at \in checks /\ ~Unchanged(pin) /\ UNCHANGED faults

\* The handler of the upgrade recovers in the same process.  The canary is
\* stopped on the way out, unless that is what failed.
UpgradeFails ==
    /\ op = "upgrade"
    /\ Failure({"build", "ready"})
    /\ canary' \in {FALSE, canary}
    /\ pin' = agent.pin
    /\ Goto("recoverAgent", "stop")
    /\ UNCHANGED <<app, running, disk, ledger, vpn, vup, arch, agent, data, todo, held, outages, orders>>

RollbackFails ==
    /\ op = "rollback"
    /\ Failure({"ready"})
    /\ app' = agent.version
    /\ Goto("undo", "restart")
    /\ UNCHANGED <<running, canary, disk, ledger, vpn, vup, arch, agent, data, todo, held, pin, outages, orders>>

RecoverAgentFails ==
    /\ op \in {"undo", "recoverAgent"}
    /\ Failure(IF op = "undo" THEN {} ELSE {"ready", "verify"})
    /\ Idle
    /\ UNCHANGED <<host, agent, data, outages, orders>>

--------------------------------------------------------------------------------
(* Restores.  A journal with mode "live" keeps the VPN running. *)

Differs(d) == {f \in File : d[f] # disk[f]}
Active == (IF running = Down THEN {} ELSE {"agent"}) \cup (IF vup THEN {"vpn"} ELSE {})

Prepare(mode, a, desired) ==
    /\ data' = [state |-> "prepared", mode |-> mode, repairs |-> Differs(a.disk), saved |-> disk,
                source |-> a, pin |-> Snap, db |-> 0, services |-> Active, desired |-> desired]
    /\ pin' = Snap
    /\ Goto("restore", "quiescing")

\* What the VPN and its identities are made of must be as archived; the agent's
\* journal is not looked at.
RestoreLive ==
    /\ Order /\ DataResolved /\ vup /\ ledger # 0
    /\ \E a \in arch : Differs(a.disk) \subseteq LiveFile /\ Prepare("live", a, {"agent"})
    /\ UNCHANGED <<host, agent, todo, held, faults, outages>>

RestoreOffline ==
    /\ Order /\ DataResolved
    /\ \E a \in arch, desired \in {Active, Service} : Prepare("offline", a, desired)
    /\ UNCHANGED <<host, agent, todo, held, faults, outages>>

Quiescing ==
    /\ op = "restore" /\ at = "quiescing"
    /\ SetData("quiescing")
    /\ Goto(op, "stop")
    /\ UNCHANGED <<host, agent, todo, held, pin, faults, outages, orders>>

\* Offline, what was not running is not stopped; a recovery also stops what the
\* restore wanted to run.
Stopped ==
    IF data.mode = "live" THEN {"agent"}
    ELSE IF op = "restore" THEN data.services ELSE data.services \cup data.desired

StopServices ==
    /\ op \in {"restore", "recoverData"} /\ at = "stop"
    /\ running' = IF "agent" \in Stopped THEN Down ELSE running
    /\ vup' = (vup /\ "vpn" \notin Stopped)
    /\ IF op = "restore" THEN SetData("quiesced") ELSE UNCHANGED data
    /\ Goto(op, "snapshot")
    /\ UNCHANGED <<app, canary, disk, ledger, vpn, arch, agent, todo, held, pin, faults, outages, orders>>

\* The counters as the restore found them, kept beside the journal.
SaveLedger ==
    /\ op = "restore" /\ at = "snapshot"
    /\ data.mode = "live" => Unchanged(pin)
    /\ data' = [data EXCEPT !.db = ledger]
    /\ Goto(op, "switching")
    /\ UNCHANGED <<host, agent, todo, held, pin, faults, outages, orders>>

\* A resumed sampler may have added counters since.
HoldLedger ==
    /\ op = "recoverData" /\ at = "snapshot"
    /\ held' = ledger
    /\ todo' = data.repairs
    /\ Goto(op, "files")
    /\ UNCHANGED <<host, agent, data, pin, faults, outages, orders>>

SwitchingData ==
    /\ op = "restore" /\ at = "switching"
    /\ SetData("switching")
    /\ todo' = data.repairs
    /\ Goto(op, "files")
    /\ UNCHANGED <<host, agent, held, pin, faults, outages, orders>>

Rank == [hook |-> 1, pki |-> 2]

WriteFile(f) ==
    /\ op \in {"restore", "recoverData"} /\ at = "files"
    /\ f \in todo /\ \A g \in todo : Rank[f] <= Rank[g]
    /\ disk' = [disk EXCEPT ![f] = IF op = "restore" THEN data.source.disk[f] ELSE data.saved[f]]
    /\ todo' = todo \ {f}
    /\ UNCHANGED <<app, running, canary, ledger, vpn, vup, arch, agent, data, op, at, held, pin, faults, outages, orders>>

\* Wrong: the counters come back as they were before the restore.
LedgerAsSaved ==
    IF op = "restore" THEN Higher(data.source.ledger, data.db)
    ELSE IF data.db # 0 THEN data.db ELSE ledger

\* The merge keeps the higher counter of each session.  A recovery that found
\* no earlier database leaves the restored one.
Merged ==
    IF op = "restore" THEN Higher(data.source.ledger, data.db)
    ELSE IF data.db # 0 THEN Higher(data.db, held) ELSE ledger

SwitchLedger ==
    /\ op \in {"restore", "recoverData"} /\ at = "files" /\ todo = {}
    /\ ledger' = Merged
    /\ IF op = "restore" THEN SetData("switched") ELSE UNCHANGED data
    /\ Goto(op, "start")
    /\ UNCHANGED <<app, running, canary, disk, vpn, vup, arch, agent, todo, held, pin, faults, outages, orders>>

Started ==
    IF data.mode = "live" THEN {"agent"}
    ELSE IF op = "restore" THEN data.desired ELSE data.services

\* Starting what runs changes nothing.
StartServices ==
    /\ op \in {"restore", "recoverData"} /\ at = "start"
    /\ running' = IF "agent" \in Started /\ running = Down THEN app ELSE running
    /\ vup' = (vup \/ "vpn" \in Started)
    /\ vpn' = IF ~vup /\ "vpn" \in Started THEN NewProcess ELSE vpn
    /\ Goto(op, "ready")
    /\ UNCHANGED <<app, canary, disk, ledger, arch, agent, data, todo, held, pin, faults, outages, orders>>

Healthy ==
    /\ op = "restore" /\ at = "ready"
    /\ data.mode = "live" => Unchanged(pin)
    /\ SetData("healthy")
    /\ Goto(op, "complete")
    /\ UNCHANGED <<host, agent, todo, held, pin, faults, outages, orders>>

CompleteData ==
    /\ op = "restore" /\ at = "complete"
    /\ data' = Closed("complete")
    /\ Idle
    /\ UNCHANGED <<host, agent, faults, outages, orders>>

RestoreFails ==
    /\ op = "restore"
    /\ Failure(IF data.mode = "live" THEN {"snapshot", "ready"} ELSE {})
    /\ todo' = {} /\ pin' = data.pin
    /\ Goto("recoverData", "begin")
    /\ UNCHANGED <<host, agent, data, held, outages, orders>>

RecoverData ==
    /\ op = "none" /\ ~DataResolved
    /\ pin' = data.pin
    /\ Goto("recoverData", "begin")
    /\ UNCHANGED <<host, agent, data, todo, held, faults, outages, orders>>

\* Nothing has been touched before "quiescing" is on the disk.
RecoverBegin ==
    /\ op = "recoverData" /\ at = "begin"
    /\ data.mode = "live" => Unchanged(pin)
    /\ Goto(op, IF data.mode = "live" /\ data.state = "prepared" THEN "ready" ELSE "stop")
    /\ UNCHANGED <<host, agent, data, todo, held, pin, faults, outages, orders>>

\* An offline recovery asks nothing of what it has started.
RolledBack ==
    /\ op = "recoverData" /\ at = "ready"
    /\ data.mode = "live" => Unchanged(pin)
    /\ data' = Closed("rolled_back")
    /\ Idle
    /\ UNCHANGED <<host, agent, faults, outages, orders>>

RecoverDataFails ==
    /\ op = "recoverData"
    /\ Failure(IF data.mode = "live" THEN {"begin", "ready"} ELSE {})
    /\ Idle
    /\ UNCHANGED <<host, agent, data, outages, orders>>

--------------------------------------------------------------------------------
(* The host *)

\* The agent counts what the VPN reports, in a new database if there is none.
Sample ==
    /\ running # Down /\ vup
    /\ ledger < MaxLedger
    /\ ledger' = ledger + 1
    /\ UNCHANGED <<app, running, canary, disk, vpn, vup, arch, agent, data, helper, faults, outages, orders>>

\* The helper is killed: after its time limit, or by an operator.
Kill ==
    /\ op # "none"
    /\ faults < MaxFaults
    /\ faults' = faults + 1
    /\ Idle
    /\ UNCHANGED <<host, agent, data, outages, orders>>

Outage == outages < MaxOutages /\ outages' = outages + 1

\* The enabled services start; a canary is a transient unit.
Reboot ==
    /\ Outage
    /\ running' = app /\ vup' = TRUE /\ vpn' = NewProcess /\ canary' = FALSE
    /\ Idle
    /\ UNCHANGED <<app, disk, ledger, arch, agent, data, faults, orders>>

\* The VPN dies and its unit starts it again.
VpnRestarts ==
    /\ vup
    /\ Outage
    /\ vpn' = NewProcess
    /\ UNCHANGED <<app, running, canary, disk, ledger, vup, arch, agent, data, helper, faults, orders>>

\* Files or the database are damaged between operations; services may be down.
Damage ==
    /\ op = "none" /\ DataResolved
    /\ Outage
    /\ \/ \E f \in File : disk' = [disk EXCEPT ![f] = "bad"] /\ UNCHANGED ledger
       \/ ledger' = 0 /\ UNCHANGED disk
    /\ running' \in {running, Down} /\ vup' \in {vup, FALSE}
    /\ UNCHANGED <<app, canary, vpn, arch, agent, data, helper, faults, orders>>

AgentStep ==
    \/ StartCanary \/ CanaryVerified \/ Switching \/ Pointer \/ Switched
    \/ RestartAgent \/ AgentReady \/ RecoverPointer
    \/ UpgradeFails \/ RollbackFails \/ RecoverAgentFails

DataStep ==
    \/ Quiescing \/ StopServices \/ SaveLedger \/ HoldLedger \/ SwitchingData
    \/ (\E f \in File : WriteFile(f))
    \/ SwitchLedger \/ StartServices \/ Healthy \/ CompleteData
    \/ RestoreFails \/ RecoverBegin \/ RolledBack \/ RecoverDataFails

Next ==
    \/ Backup \/ (\E v \in Version : Upgrade(v)) \/ Rollback \/ RecoverAgent
    \/ RestoreLive \/ RestoreOffline \/ RecoverData
    \/ AgentStep \/ DataStep
    \/ Sample \/ Kill \/ Reboot \/ VpnRestarts \/ Damage

\* A helper that is not killed goes on, and operators recover what is pending.
Fairness == WF_vars(AgentStep) /\ WF_vars(DataStep) /\ WF_vars(RecoverAgent \/ RecoverData)

Spec == Init /\ [][Next]_vars /\ Fairness

--------------------------------------------------------------------------------

\* Whatever is restored, recovered or killed in between, traffic once in the
\* accounting database stays counted, unless the database itself is lost
\* ("Retain them", pvnetwork_node_restore.py:245).
AlwaysCounted == [][ledger' >= ledger \/ ledger' = 0]_vars

\* The agent was not running when the offline restore began, so that its recovery
\* leaves it running: a reboot in between has started it.
WriterLeft == op = "recoverData" /\ running # Down

\* The same, except for an agent an offline recovery does not stop
\* (pvnetwork_node_restore.py:390).
CountersKept == [][ledger' >= ledger \/ ledger' = 0 \/ WriterLeft]_vars

\* Between operations no canary is left and the agent that runs is the release
\* the pointer and the journal name (pvnetwork_node_lifecycle.py:108, :141).
WholeWhenResolved ==
    (op = "none" /\ AgentResolved) =>
        /\ ~canary
        /\ running \in {app, Down}
        /\ agent.state # "none" =>
               app = IF agent.state = "complete" THEN agent.version ELSE agent.previous

\* A recovery that must find the VPN as it was, and does not.
Barred ==
    \/ ~AgentResolved /\ ~Unchanged(agent.pin)
    \/ ~DataResolved /\ data.mode = "live" /\ ~Unchanged(data.pin)

\* Interrupted operations are resolved in the end, as long as the VPN is the one
\* they began with (pvnetwork_node_lifecycle.py:100, pvnetwork_node_restore.py:216).
RecoveryEnds ==
    (~AgentResolved \/ ~DataResolved) ~> ((AgentResolved /\ DataResolved) \/ Barred)
================================================================================
