--------------------------- MODULE NodeConfiguration ---------------------------
(***************************************************************************)
(* The edit of a node's VPN settings: the panel's route and its durable    *)
(* job (backend/node/task.py, backend/node/configuration.py), the calls to *)
(* the node, and the node's journalled change of files, firewall and VPN   *)
(* process (scripts/pvnetwork_node_configure.py).  The row of the node is  *)
(* written only between the node's "ready" and its "finalize"; a node that *)
(* was interrupted asks the panel what has been decided.                   *)
(***************************************************************************)
EXTENDS Naturals, FiniteSets

CONSTANTS Job,        \* edits, each with an operation id, numbered as they begin
          Host, Port, \* tunnel addresses and VPN ports
          Installed,  \* the settings before the first edit
          Wanted,     \* the settings edits ask for
          None,
          MaxFaults   \* bound: crashes of the panel, the node's helper or the host

ASSUME JobAssumption == Job \subseteq Nat /\ None \notin Job
ASSUME FaultAssumption == MaxFaults \in Nat

Setting == [host : Host, port : Port]
ASSUME SettingAssumption == Installed \in Setting /\ Wanted \subseteq Setting

File == {"server", "profile", "network", "journal"}
Call == {"prepare", "finalize", "rollback", "direct"}

VARIABLES
    \* the panel, durable
    row,       \* the settings in the node's row
    phase,     \* phase[j]: state of the private job file, or "none"
    prev, req, \* the settings the edit found and those it asks for
    flight,    \* flight[j]: "no", "live" (in flight, owner runs) or "dead"
    \* the panel's coroutines and the network
    pc, answer, net,
    \* the node, durable
    tid, tprev, tnext, tstate,
    disk,      \* disk[f]: the settings file f was rendered from
    proc,      \* the port the running VPN process serves
    rules,     \* the ports the firewall admits
    samePid,   \* the VPN process is the one of the pending edit's last snapshot
    \* the node's helper, lost with it
    op, left, serving, asked,
    faults,
    \* history
    committed, applied, undone,
    direct,    \* edits that took the compatibility path
    stale      \* edits under way when another edit changed the row

panelVars == <<row, phase, prev, req, flight>>
callVars == <<pc, answer, net>>
txnVars == <<tid, tprev, tnext, tstate>>
hostVars == <<disk, proc, rules, samePid>>
opVars == <<op, left, serving, asked>>
history == <<committed, applied, undone, direct, stale>>
vars == <<panelVars, callVars, txnVars, hostVars, opVars, faults, history>>

TypeOK ==
    /\ row \in Setting
    /\ phase \in [Job -> {"none", "preparing", "ready", "rollback", "rolled_back",
                          "committed", "complete"}]
    /\ prev \in [Job -> Setting]
    /\ req \in [Job -> Setting]
    /\ flight \in [Job -> {"no", "live", "dead"}]
    /\ pc \in [Job -> {"idle", "info", "prepare", "commit", "decide", "mark",
                       "finalize", "rollback", "direct", "write", "done"}]
    /\ answer \in [Job -> {"none", "ready", "same", "ok"}]
    /\ net \in SUBSET (Job \X Call)
    /\ tid \in Job \cup {None}
    /\ tprev \in Setting
    /\ tnext \in Setting
    /\ tstate \in {"none", "prepared", "rules_added", "switching", "switched",
                   "restarting", "ready", "committing", "committed", "complete",
                   "rolled_back"}
    /\ disk \in [File -> Setting]
    /\ proc \in Port
    /\ rules \in SUBSET Port
    /\ samePid \in BOOLEAN
    /\ op \in {"none", "apply", "finalize", "recover", "ask"}
    /\ left \in SUBSET File
    /\ serving \in Call \cup {"operator"}
    /\ asked \in {"finalize", "rollback", "pending"}
    /\ faults \in 0 .. MaxFaults
    /\ committed \in SUBSET Job
    /\ applied \in SUBSET Job
    /\ undone \in SUBSET Job
    /\ direct \in SUBSET Job
    /\ stale \in SUBSET Job

Init ==
    /\ row = Installed
    /\ phase = [j \in Job |-> "none"]
    /\ prev = [j \in Job |-> Installed]
    /\ req = [j \in Job |-> Installed]
    /\ flight = [j \in Job |-> "no"]
    /\ pc = [j \in Job |-> "idle"]
    /\ answer = [j \in Job |-> "none"]
    /\ net = {}
    /\ tid = None /\ tprev = Installed /\ tnext = Installed /\ tstate = "none"
    /\ disk = [f \in File |-> Installed]
    /\ proc = Installed.port
    /\ rules = {Installed.port}
    /\ samePid = TRUE
    /\ op = "none" /\ left = {} /\ serving = "operator" /\ asked = "pending"
    /\ faults = 0
    /\ committed = {} /\ applied = {} /\ undone = {} /\ direct = {} /\ stale = {}

--------------------------------------------------------------------------------
(* The panel *)

Resolved == tstate \in {"none", "complete", "rolled_back"}

\* Wrong: the row is taken for the outcome while the edit is still running.
DecisionAnytime(j, running) ==
    IF phase[j] \in {"committed", "complete"} THEN "finalize"
    ELSE IF phase[j] \in {"rollback", "rolled_back"} THEN "rollback"
    ELSE IF row = req[j] THEN "finalize"
    ELSE IF row = prev[j] THEN "rollback"
    ELSE "pending"

\* What became of an edit, from the job and the row.  The row is asked as long
\* as the job does not say; an edit that is still running may yet commit.
Decision(j, running) ==
    IF phase[j] \in {"committed", "complete"} THEN "finalize"
    ELSE IF phase[j] \in {"rollback", "rolled_back"} THEN "rollback"
    ELSE IF row = req[j] THEN "finalize"
    ELSE IF row = prev[j] /\ ~running THEN "rollback"
    ELSE "pending"

\* The ORM writes the fields in which the request differs from the row as the
\* route loaded it; the others keep what is in the table.
Written(j) ==
    [host |-> IF req[j].host = prev[j].host THEN row.host ELSE req[j].host,
     port |-> IF req[j].port = prev[j].port THEN row.port ELSE req[j].port]

\* An edit some part of which still goes by the row as it was loaded.
UnderWay(j) ==
    \/ pc[j] \notin {"idle", "done"}
    \/ \E c \in {"prepare", "direct"} : <<j, c>> \in net
    \/ tid = j /\ ~Resolved

\* The edits overtaken by j's write.
Overtaken(j) ==
    IF Written(j) = row THEN stale ELSE stale \cup {k \in Job \ {j} : UnderWay(k)}

Goto(j, label) == pc' = [pc EXCEPT ![j] = label]
SetPhase(j, p) == phase' = [phase EXCEPT ![j] = p]

\* A call goes out and its coroutine waits for the answer.
Send(j, c, label) ==
    /\ Goto(j, label)
    /\ net' = net \cup {<<j, c>>}
    /\ answer' = [answer EXCEPT ![j] = "none"]

Leave(j) ==
    /\ Goto(j, "done")
    /\ flight' = [flight EXCEPT ![j] = "no"]
    /\ answer' = [answer EXCEPT ![j] = "none"]

Load(j) ==
    /\ pc[j] = "idle"
    /\ \A k \in Job : k < j => pc[k] # "idle"
    /\ \E s \in Wanted : req' = [req EXCEPT ![j] = s]
    /\ prev' = [prev EXCEPT ![j] = row]
    /\ Goto(j, "info")
    /\ UNCHANGED <<row, phase, flight, answer, net, txnVars, hostVars, opVars, faults, history>>

\* The node has said that it knows transactions.
Create(j) ==
    /\ pc[j] = "info"
    /\ SetPhase(j, "preparing")
    /\ flight' = [flight EXCEPT ![j] = "live"]
    /\ Send(j, "prepare", "prepare")
    /\ UNCHANGED <<row, prev, req, txnVars, hostVars, opVars, faults, history>>

\* get_node_info answers {} when the node cannot be asked, which reads like an
\* old agent: the edit goes on without a job.
Downgrade(j) ==
    /\ pc[j] = "info"
    /\ direct' = direct \cup {j}
    /\ Send(j, "direct", "direct")
    /\ UNCHANGED <<panelVars, txnVars, hostVars, opVars, faults, committed, applied, undone, stale>>

DirectAnswered(j) ==
    /\ pc[j] = "direct"
    /\ \/ answer[j] \in {"same", "ok"} /\ Goto(j, "write")
       \/ Goto(j, "done")          \* refused, or given up after ten seconds
    /\ UNCHANGED <<panelVars, answer, net, txnVars, hostVars, opVars, faults, history>>

WriteDirect(j) ==
    /\ pc[j] = "write"
    /\ row' = Written(j)
    /\ committed' = committed \cup {j}
    /\ stale' = Overtaken(j)
    /\ Goto(j, "done")
    /\ UNCHANGED <<phase, prev, req, flight, answer, net, txnVars, hostVars, opVars, faults,
                   applied, undone, direct>>

PrepareAnswered(j) ==
    /\ pc[j] = "prepare"
    /\ answer[j] \in {"ready", "same"}
    /\ SetPhase(j, "ready")
    /\ Goto(j, "commit")
    /\ UNCHANGED <<row, prev, req, flight, answer, net, txnVars, hostVars, opVars, faults, history>>

\* Refused, failed, or given up: the call may still be served.
PrepareFailed(j) ==
    /\ pc[j] = "prepare"
    /\ Goto(j, "decide")
    /\ UNCHANGED <<panelVars, answer, net, txnVars, hostVars, opVars, faults, history>>

\* Wrong: an edit whose call has failed goes on as if it had been answered.
CommitRowBlindly(j) ==
    /\ pc[j] \in {"commit", "decide"}
    /\ row' = Written(j)
    /\ committed' = committed \cup {j}
    /\ stale' = Overtaken(j)
    /\ Goto(j, "mark")
    /\ UNCHANGED <<phase, prev, req, flight, answer, net, txnVars, hostVars, opVars, faults,
                   applied, undone, direct>>

\* The commit may also raise although the database has it.
CommitRow(j) ==
    /\ pc[j] = "commit"
    /\ row' = Written(j)
    /\ committed' = committed \cup {j}
    /\ stale' = Overtaken(j)
    /\ Goto(j, "mark") \/ Goto(j, "decide")
    /\ UNCHANGED <<phase, prev, req, flight, answer, net, txnVars, hostVars, opVars, faults,
                   applied, undone, direct>>

CommitFails(j) ==
    /\ pc[j] = "commit"
    /\ Goto(j, "decide")
    /\ UNCHANGED <<panelVars, answer, net, txnVars, hostVars, opVars, faults, history>>

\* The row is committed: record it and let the node finish.
MarkCommitted(j) ==
    /\ pc[j] = "mark"
    /\ \/ answer[j] = "same" /\ SetPhase(j, "complete") /\ Leave(j) /\ UNCHANGED net
       \/ /\ answer[j] # "same"
          /\ SetPhase(j, "committed")
          /\ Send(j, "finalize", "finalize")
          /\ UNCHANGED flight
    /\ UNCHANGED <<row, prev, req, txnVars, hostVars, opVars, faults, history>>

\* The handler of an exception reads the row in a session of its own.
DecideFinalize(j) ==
    /\ pc[j] = "decide"
    /\ Decision(j, FALSE) = "finalize"
    /\ SetPhase(j, "committed")
    /\ Send(j, "finalize", "finalize")
    /\ UNCHANGED <<row, prev, req, flight, txnVars, hostVars, opVars, faults, history>>

DecideRollback(j) ==
    /\ pc[j] = "decide"
    /\ Decision(j, FALSE) = "rollback"
    /\ SetPhase(j, "rollback")
    /\ Send(j, "rollback", "rollback")
    /\ UNCHANGED <<row, prev, req, flight, txnVars, hostVars, opVars, faults, history>>

DecidePending(j) ==
    /\ pc[j] = "decide"
    /\ Decision(j, FALSE) = "pending"
    /\ Leave(j)
    /\ UNCHANGED <<row, phase, prev, req, net, txnVars, hostVars, opVars, faults, history>>

\* The answer to finalize or rollback, or its loss, ends the route.
Settled(j) ==
    /\ pc[j] \in {"finalize", "rollback"}
    /\ \/ /\ answer[j] = "ok"
          /\ SetPhase(j, IF pc[j] = "finalize" THEN "complete" ELSE "rolled_back")
       \/ UNCHANGED phase
    /\ Leave(j)
    /\ UNCHANGED <<row, prev, req, net, txnVars, hostVars, opVars, faults, history>>

\* Wrong: the owner is known by its pid alone, which the next process has.
PanelCrashPidReused ==
    /\ faults < MaxFaults
    /\ faults' = faults + 1
    /\ \E j \in Job : pc[j] \notin {"idle", "done"}
    /\ pc' = [j \in Job |-> IF pc[j] = "idle" THEN "idle" ELSE "done"]
    /\ UNCHANGED <<panelVars, answer, net, txnVars, hostVars, opVars, history>>

\* The panel dies; no later process resumes an edit.
PanelCrash ==
    /\ faults < MaxFaults
    /\ faults' = faults + 1
    /\ \E j \in Job : pc[j] \notin {"idle", "done"}
    /\ pc' = [j \in Job |-> IF pc[j] = "idle" THEN "idle" ELSE "done"]
    /\ flight' = [j \in Job |-> IF flight[j] = "live" THEN "dead" ELSE flight[j]]
    /\ UNCHANGED <<row, phase, prev, req, answer, net, txnVars, hostVars, opVars, history>>

--------------------------------------------------------------------------------
(* The node *)

Restarts(a, b) == a.port # b.port

\* The files an edit renders anew: an endpoint-only edit leaves the server and
\* the firewall alone.  The installation journal is switched at the end.
Targets(a, b) ==
    IF a = b THEN {} ELSE {"profile", "journal"}
                          \cup IF Restarts(a, b) THEN {"server", "network"} ELSE {}

Managed == tid \notin direct

\* Answers reach a coroutine that still waits for this call.  A refusal is not
\* told from an answer that never comes: the coroutine may give up at any time.
Reply(j, c, a) ==
    answer' = IF pc[j] = c THEN [answer EXCEPT ![j] = a] ELSE answer

Finish(a) ==
    /\ op' = "none"
    /\ left' = {}
    /\ IF serving = "operator" \/ a = "none" THEN UNCHANGED answer ELSE Reply(tid, serving, a)
    /\ serving' = "operator"
    /\ asked' = "pending"

Take(j, c) == <<j, c>> \in net /\ net' = net \ {<<j, c>>}

\* Locked by another operation, unreachable, or refused by a check: an occupied
\* port, no room for staging, a changed file.
Refuse(j, c) ==
    /\ Take(j, c)
    /\ UNCHANGED <<panelVars, pc, answer, txnVars, hostVars, opVars, faults, history>>

\* apply() under the operation lock, up to the durable plan.
ServePrepare(j, c) ==
    /\ c \in {"prepare", "direct"}
    /\ op = "none"
    /\ Take(j, c)
    /\ Resolved
    /\ disk["journal"] # req[j]
    /\ tid' = j /\ tprev' = disk["journal"] /\ tnext' = req[j] /\ tstate' = "prepared"
    /\ samePid' = TRUE
    /\ op' = "apply" /\ serving' = c
    /\ left' = Targets(disk["journal"], req[j]) \ {"journal"}
    /\ UNCHANGED <<panelVars, pc, answer, disk, proc, rules, asked, faults, history>>

PrepareSame(j, c) ==
    /\ c \in {"prepare", "direct"}
    /\ op = "none"
    /\ Take(j, c)
    /\ Resolved
    /\ disk["journal"] = req[j]
    /\ Reply(j, c, "same")
    /\ UNCHANGED <<panelVars, pc, txnVars, hostVars, opVars, faults, history>>

AddRules ==
    /\ op = "apply" /\ tstate = "prepared"
    /\ rules' = rules \cup {tnext.port}
    /\ tstate' = "rules_added"
    /\ UNCHANGED <<panelVars, callVars, tid, tprev, tnext, disk, proc, samePid, opVars, faults, history>>

\* The plan's files are replaced one by one in its order, each atomically.
Rank == [server |-> 1, profile |-> 2, network |-> 3, journal |-> 4]
First(f) == f \in left /\ \A g \in left : Rank[f] <= Rank[g]

SwitchFile(f) ==
    /\ op = "apply" /\ tstate \in {"rules_added", "switching"}
    /\ First(f)
    /\ disk' = [disk EXCEPT ![f] = tnext]
    /\ left' = left \ {f}
    /\ tstate' = "switching"
    /\ UNCHANGED <<panelVars, callVars, tid, tprev, tnext, proc, rules, samePid, op, serving, asked,
                   faults, history>>

Switched ==
    /\ op = "apply" /\ tstate = "switching" /\ left = {}
    /\ tstate' = IF Restarts(tprev, tnext) THEN "restarting" ELSE "switched"
    /\ UNCHANGED <<panelVars, callVars, tid, tprev, tnext, hostVars, opVars, faults, history>>

RestartNext ==
    /\ op = "apply" /\ tstate = "restarting" /\ proc # tnext.port
    /\ proc' = disk["server"].port
    /\ samePid' = FALSE
    /\ UNCHANGED <<panelVars, callVars, txnVars, disk, rules, opVars, faults, history>>

\* The process serves the new settings.  A managed edit waits for the panel;
\* the compatibility call goes on to its own finalize.
BecomeReady ==
    /\ op = "apply"
    /\ \/ tstate = "restarting" /\ proc = tnext.port
       \/ tstate = "switched" /\ samePid
    /\ tstate' = "ready"
    /\ samePid' = TRUE
    /\ IF Managed THEN Finish("ready")
       ELSE op' = "finalize" /\ UNCHANGED <<answer, left, serving, asked>>
    /\ UNCHANGED <<panelVars, pc, net, tid, tprev, tnext, disk, proc, rules, faults, history>>

\* Any step of apply may raise; the same process then recovers.
ApplyFails ==
    /\ op = "apply"
    /\ op' = "recover"
    /\ left' = Targets(tprev, tnext)
    /\ UNCHANGED <<panelVars, callVars, txnVars, hostVars, serving, asked, faults, history>>

\* The new files are all in place, as a ready node left them.
FilesReady == \A f \in Targets(tprev, tnext) \ {"journal"} : disk[f] = tnext

ServeFinalize(j) ==
    /\ op = "none"
    /\ Take(j, "finalize")
    /\ tid = j
    /\ tstate \in {"ready", "committing", "committed"}
    /\ tstate = "ready" => samePid /\ FilesReady
    /\ op' = "finalize" /\ serving' = "finalize"
    /\ UNCHANGED <<panelVars, pc, answer, txnVars, hostVars, left, asked, faults, history>>

\* Already finished, by the operator's recovery.
FinalizeAgain(j) ==
    /\ op = "none"
    /\ Take(j, "finalize")
    /\ tid = j
    /\ tstate = "complete"
    /\ Reply(j, "finalize", "ok")
    /\ UNCHANGED <<panelVars, pc, txnVars, hostVars, opVars, faults, history>>

\* From here on every recovery goes forward.
Committing ==
    /\ op = "finalize" /\ tstate = "ready"
    /\ tstate' = "committing"
    /\ UNCHANGED <<panelVars, callVars, tid, tprev, tnext, hostVars, opVars, faults, history>>

SwitchJournal ==
    /\ op = "finalize" /\ tstate = "committing"
    /\ disk' = [disk EXCEPT !["journal"] = tnext]
    /\ tstate' = "committed"
    /\ UNCHANGED <<panelVars, callVars, tid, tprev, tnext, proc, rules, samePid, opVars, faults, history>>

Complete ==
    /\ op = "finalize" /\ tstate = "committed"
    /\ rules' = IF Restarts(tprev, tnext) THEN rules \ {tprev.port} ELSE rules
    /\ tstate' = "complete"
    /\ applied' = applied \cup {tid}
    /\ Finish("ok")
    /\ UNCHANGED <<panelVars, pc, net, tid, tprev, tnext, disk, proc, samePid, faults,
                   committed, undone, direct, stale>>

\* rollback from the panel names the operation and needs no further decision.
ServeRollback(j) ==
    /\ op = "none"
    /\ Take(j, "rollback")
    /\ tid = j
    /\ ~Resolved
    /\ tstate \notin {"committing", "committed"}
    /\ op' = "recover" /\ serving' = "rollback"
    /\ left' = Targets(tprev, tnext)
    /\ UNCHANGED <<panelVars, pc, answer, txnVars, hostVars, asked, faults, history>>

\* Nothing to undo: the node has no journal, or the operation is rolled back.
RollbackAgain(j) ==
    /\ op = "none"
    /\ Take(j, "rollback")
    /\ tstate = "none" \/ (tid = j /\ tstate = "rolled_back")
    /\ Reply(j, "rollback", "ok")
    /\ UNCHANGED <<panelVars, pc, txnVars, hostVars, opVars, faults, history>>

\* The old rule comes back first, then the files one by one.
RestoreFile(f) ==
    /\ op = "recover"
    /\ First(f)
    /\ disk' = [disk EXCEPT ![f] = tprev]
    /\ rules' = rules \cup {tprev.port}
    /\ left' = left \ {f}
    /\ UNCHANGED <<panelVars, callVars, txnVars, proc, samePid, op, serving, asked, faults, history>>

\* Wrong: the process is restarted only if its change had been announced.
NeedsRestartAnnounced ==
    Restarts(tprev, tnext) /\ tstate \in {"restarting", "ready"} /\ samePid

\* The process may have read the new file: its restart was announced, or it is
\* not the process of the first snapshot.
NeedsRestart ==
    Restarts(tprev, tnext) /\ (~samePid \/ tstate \in {"restarting", "ready"})

RolledBack ==
    /\ op = "recover" /\ left = {}
    /\ proc' = IF NeedsRestart THEN disk["server"].port ELSE proc
    /\ samePid' = TRUE
    /\ rules' = IF Restarts(tprev, tnext) THEN rules \ {tnext.port} ELSE rules
    /\ tstate' = "rolled_back"
    /\ undone' = undone \cup {tid}
    /\ Finish(IF serving = "rollback" THEN "ok" ELSE "none")
    /\ UNCHANGED <<panelVars, pc, net, tid, tprev, tnext, disk, faults, committed, applied, direct, stale>>

\* The operator's recovery.  A ready node asks; the panel cannot be asked, or
\* does not know the operation: "pending", and nothing is touched.
Ask ==
    /\ op = "none" /\ tstate = "ready"
    /\ asked' \in {"pending"} \cup (IF Managed THEN {Decision(tid, flight[tid] = "live")} ELSE {})
    /\ asked' # "pending"
    /\ op' = "ask" /\ serving' = "operator"
    /\ UNCHANGED <<panelVars, callVars, txnVars, hostVars, left, faults, history>>

Obey ==
    /\ op = "ask"
    /\ \/ /\ asked = "finalize" /\ FilesReady
          /\ op' = "finalize" /\ tstate' = "committing" /\ UNCHANGED left
       \/ asked = "rollback" /\ op' = "recover" /\ left' = Targets(tprev, tnext) /\ UNCHANGED tstate
    /\ UNCHANGED <<panelVars, callVars, tid, tprev, tnext, hostVars, serving, asked, faults, history>>

\* Before "ready" the panel cannot have committed; after "committing" it has.
Resume ==
    /\ op = "none" /\ ~Resolved /\ tstate # "ready"
    /\ serving' = "operator"
    /\ IF tstate \in {"committing", "committed"}
         THEN op' = "finalize" /\ UNCHANGED left
         ELSE op' = "recover" /\ left' = Targets(tprev, tnext)
    /\ UNCHANGED <<panelVars, callVars, txnVars, hostVars, asked, faults, history>>

\* The helper is killed, by its 300 seconds or with the agent.
HelperCrash ==
    /\ faults < MaxFaults
    /\ faults' = faults + 1
    /\ op # "none"
    /\ Finish("none")
    /\ UNCHANGED <<panelVars, pc, net, txnVars, hostVars, history>>

\* The host starts again: VPN and firewall come up from what is on the disk.
Reboot ==
    /\ faults < MaxFaults
    /\ faults' = faults + 1
    /\ IF op = "none" THEN UNCHANGED <<answer, opVars>> ELSE Finish("none")
    /\ proc' = disk["server"].port
    /\ rules' = {disk["network"].port}
    /\ samePid' = Resolved
    /\ UNCHANGED <<panelVars, pc, net, txnVars, disk, history>>

--------------------------------------------------------------------------------
PanelStep(j) ==
    \/ Create(j) \/ Downgrade(j) \/ DirectAnswered(j) \/ WriteDirect(j)
    \/ PrepareAnswered(j) \/ PrepareFailed(j) \/ CommitRow(j) \/ CommitFails(j)
    \/ MarkCommitted(j) \/ DecideFinalize(j) \/ DecideRollback(j) \/ DecidePending(j)
    \/ Settled(j)

Serve(j) ==
    \/ \E c \in Call : Refuse(j, c) \/ ServePrepare(j, c) \/ PrepareSame(j, c)
    \/ ServeFinalize(j) \/ FinalizeAgain(j) \/ ServeRollback(j) \/ RollbackAgain(j)

HelperStep ==
    \/ AddRules \/ Switched \/ RestartNext \/ BecomeReady \/ ApplyFails
    \/ \E f \in File : SwitchFile(f) \/ RestoreFile(f)
    \/ Committing \/ SwitchJournal \/ Complete \/ RolledBack \/ Obey

Operator == Ask \/ Resume

Next ==
    \/ \E j \in Job : Load(j) \/ PanelStep(j) \/ Serve(j)
    \/ HelperStep \/ Operator
    \/ PanelCrash \/ HelperCrash \/ Reboot

Fairness ==
    /\ \A j \in Job : WF_vars(PanelStep(j))
    /\ WF_vars(HelperStep)
    /\ SF_vars(Operator)

Spec == Init /\ [][Next]_vars
FairSpec == Spec /\ Fairness

--------------------------------------------------------------------------------
(* Properties *)

\* The fate of an edit that has a job and changes something.
Watched(j) == phase[j] # "none" /\ req[j] # prev[j] /\ j \notin stale
Aborted(j) == pc[j] = "done" \/ phase[j] \in {"rollback", "rolled_back"}

PanelFate(j) ==
    IF j \in stale THEN "overtaken"
    ELSE IF ~Watched(j) THEN "open"
    ELSE IF j \in committed THEN "committed"
    ELSE IF Aborted(j) THEN "aborted"
    ELSE "open"
NodeFate(j) ==
    IF ~Watched(j) THEN "working"
    ELSE IF j \in applied THEN "applied"
    ELSE IF j \in undone THEN "undone"
    ELSE IF tid = j /\ tstate \in {"ready", "committing", "committed"} THEN "ready"
    ELSE "working"

panelFate == [j \in Job |-> PanelFate(j)]
nodeFate == [j \in Job |-> NodeFate(j)]

Edit == INSTANCE SettingsEdit WITH panel <- panelFate, node <- nodeFate

\* A node applies an edit for good only after the panel's row has it, and undoes
\* it only if the row never will: whatever answers are lost and whoever dies,
\* and although the endpoint judges an edit by the row alone.
ImplementsEdit == Edit!Spec

\* The host runs settings s as a whole.
Runs(s) ==
    /\ disk["journal"] = s /\ disk["profile"] = s
    /\ disk["server"].port = s.port /\ disk["network"].port = s.port
    /\ proc = s.port
    /\ rules = {s.port}

\* When no edit is pending on the node its files, firewall and VPN process agree
\* with each other, wherever an apply, a finalize or a recovery was cut short.
WholeAtRest == Resolved /\ op = "none" => Runs(disk["journal"])

Quiet == Resolved /\ op = "none" /\ \A j \in Job : pc[j] \in {"idle", "info", "done"}

\* When no edit is under way the row says what the node runs: premised on edits
\* that have a job and do not overlap (direct, stale).
RowTellsNode == Quiet /\ direct = {} /\ stale = {} => Runs(row)

\* An edit ends, and leaves row and node in agreement: the operator's recovery
\* resolves what crashes and lost answers left pending.
EditsSettle == <>[](direct = {} /\ stale = {} => Quiet /\ Runs(row))
===============================================================================
