------------------------ MODULE NodeConfigurationProofs ------------------------
(***************************************************************************)
(* Proofs about NodeConfiguration, in three parts.                         *)
(*   1. Its types, and that the node is whole whenever no edit is pending  *)
(*      on it.  Nothing the panel does matters for that, so the invariant  *)
(*      speaks of the node alone.                                          *)
(*   2. The panel's row and the node agree once an edit is over.  The      *)
(*      invariant ties, for each edit, the coroutine, the job's record,    *)
(*      the messages and the node's plan.                                  *)
(*   3. The refinement of SettingsEdit.                                    *)
(***************************************************************************)
EXTENDS NodeConfiguration, TLAPS

nodeVars == <<txnVars, hostVars, op, left>>

\* The file, as far as the host uses it, is that of settings s.
Has(f, s) == IF f \in {"profile", "journal"} THEN disk[f] = s ELSE disk[f].port = s.port

Undoing == {"prepared", "rules_added", "switching", "switched", "restarting", "ready"}

\* What the helper is doing fits the state of the plan.
OpInv ==
    /\ op = "apply" => tstate \in Undoing \ {"ready"}
    /\ op = "finalize" => tstate \in {"ready", "committing", "committed"} /\ FilesReady
    /\ op = "recover" => tstate \in Undoing
    /\ op = "ask" => tstate = "ready"

\* A pending plan changes something, every file is of one of its two settings,
\* and a process that is that of the snapshot serves the old port.
PlanInv ==
    ~Resolved =>
        /\ tid \in Job
        /\ tprev # tnext
        /\ disk["journal"] = IF tstate = "committed" THEN tnext ELSE tprev
        /\ \A f \in File : Has(f, tprev) \/ Has(f, tnext)
        /\ proc \in {tprev.port, tnext.port}
        /\ rules \in SUBSET {tprev.port, tnext.port} /\ rules # {}
        /\ tstate = "switched" => ~Restarts(tprev, tnext)
        /\ tstate \in {"prepared", "rules_added", "switching"} /\ samePid => proc = tprev.port

\* An apply knows which files it has replaced.
ApplyInv ==
    op = "apply" =>
        /\ left \subseteq Targets(tprev, tnext) \ {"journal"}
        /\ \A f \in Targets(tprev, tnext) \ {"journal"} : f \notin left => disk[f] = tnext
        /\ tstate \in {"switched", "restarting"} => left = {}
        /\ tstate # "prepared" => tnext.port \in rules

\* A recovery knows which files it has restored; the old rule is back with the
\* first of them.
RecoverInv ==
    op = "recover" =>
        /\ left \subseteq Targets(tprev, tnext)
        /\ \A f \in Targets(tprev, tnext) : f \notin left => disk[f] = tprev
        /\ left # Targets(tprev, tnext) => tprev.port \in rules

\* From "ready" on, as long as no file is taken back, the host serves the new
\* settings.
ReadyInv ==
    /\ tstate \in {"committing", "committed"} => FilesReady
    /\ tstate \in {"ready", "committing", "committed"} /\ FilesReady
           => proc = tnext.port /\ tnext.port \in rules

IInv ==
    /\ TypeOK
    /\ OpInv /\ PlanInv /\ ApplyInv /\ RecoverInv /\ ReadyInv
    /\ Resolved => op = "none" /\ Runs(disk["journal"])

--------------------------------------------------------------------------------
(* Types.                                                                  *)

USE DEF Setting

LEMMA TypeOfReply ==
  ASSUME TypeOK, NEW j, NEW c, NEW a \in {"none", "ready", "same", "ok"}, Reply(j, c, a)
  PROVE  answer' \in [Job -> {"none", "ready", "same", "ok"}]
BY DEF TypeOK, Reply

LEMMA TypeOfFinish ==
  ASSUME TypeOK, NEW a \in {"none", "ready", "same", "ok"}, Finish(a)
  PROVE  /\ answer' \in [Job -> {"none", "ready", "same", "ok"}]
         /\ op' = "none" /\ left' = {} /\ serving' = "operator" /\ asked' = "pending"
<1>1. answer' \in [Job -> {"none", "ready", "same", "ok"}]
  <2>1. CASE serving = "operator" \/ a = "none"
    BY <2>1 DEF Finish, TypeOK
  <2>2. CASE ~(serving = "operator" \/ a = "none")
    BY <2>2, TypeOfReply DEF Finish
  <2> QED
    BY <2>1, <2>2
<1> QED
  BY <1>1 DEF Finish

LEMMA TypeOfWritten ==
  ASSUME TypeOK, NEW j \in Job
  PROVE  Written(j) \in Setting /\ Overtaken(j) \in SUBSET Job
BY DEF TypeOK, Written, Overtaken

\* What the panel does leaves the node alone, and keeps the types.
LEMMA PanelKeeps ==
  ASSUME TypeOK, NEW j \in Job, Load(j) \/ PanelStep(j) \/ PanelCrash
  PROVE  TypeOK' /\ UNCHANGED nodeVars
<1> USE DEF nodeVars, txnVars, hostVars, opVars, panelVars, callVars, history, TypeOK
<1>1. CASE Load(j)
  <2>1. \E s \in Setting : req' = [req EXCEPT ![j] = s]
    BY <1>1, SettingAssumption DEF Load
  <2> QED
    BY <1>1, <2>1 DEF Load, Goto
<1>2. CASE Create(j)
  BY <1>2 DEF Create, SetPhase, Send, Goto, Call
<1>3. CASE Downgrade(j)
  BY <1>3 DEF Downgrade, Send, Goto, Call
<1>4. CASE DirectAnswered(j)
  BY <1>4 DEF DirectAnswered, Goto
<1>5. CASE WriteDirect(j)
  BY <1>5, TypeOfWritten DEF WriteDirect, Goto
<1>6. CASE PrepareAnswered(j)
  BY <1>6 DEF PrepareAnswered, SetPhase, Goto
<1>7. CASE PrepareFailed(j)
  BY <1>7 DEF PrepareFailed, Goto
<1>8. CASE CommitRow(j)
  <2>1. pc' \in {[pc EXCEPT ![j] = "mark"], [pc EXCEPT ![j] = "decide"]}
    BY <1>8 DEF CommitRow, Goto
  <2>2. pc' \in [Job -> {"idle", "info", "prepare", "commit", "decide", "mark", "finalize",
                         "rollback", "direct", "write", "done"}]
    BY <2>1
  <2> QED
    BY <1>8, <2>2, TypeOfWritten DEF CommitRow
<1>9. CASE CommitFails(j)
  BY <1>9 DEF CommitFails, Goto
<1>10. CASE MarkCommitted(j)
  <2>1. CASE answer[j] = "same"
    <3>1. /\ phase' = [phase EXCEPT ![j] = "complete"] /\ pc' = [pc EXCEPT ![j] = "done"]
          /\ flight' = [flight EXCEPT ![j] = "no"] /\ answer' = [answer EXCEPT ![j] = "none"]
          /\ UNCHANGED <<net, row, prev, req, txnVars, hostVars, opVars, faults, history>>
      BY <1>10, <2>1 DEF MarkCommitted, SetPhase, Leave, Goto
    <3> QED
      BY <3>1
  <2>2. CASE answer[j] # "same"
    <3>1. /\ phase' = [phase EXCEPT ![j] = "committed"] /\ pc' = [pc EXCEPT ![j] = "finalize"]
          /\ net' = net \cup {<<j, "finalize">>} /\ answer' = [answer EXCEPT ![j] = "none"]
          /\ UNCHANGED <<flight, row, prev, req, txnVars, hostVars, opVars, faults, history>>
      BY <1>10, <2>2 DEF MarkCommitted, SetPhase, Send, Goto
    <3> QED
      BY <3>1 DEF Call
  <2> QED
    BY <2>1, <2>2
<1>11. CASE DecideFinalize(j)
  BY <1>11 DEF DecideFinalize, SetPhase, Send, Goto, Call
<1>12. CASE DecideRollback(j)
  BY <1>12 DEF DecideRollback, SetPhase, Send, Goto, Call
<1>13. CASE DecidePending(j)
  BY <1>13 DEF DecidePending, Leave, Goto
<1>14. CASE Settled(j)
  <2>1. /\ phase' \in [Job -> {"none", "preparing", "ready", "rollback", "rolled_back",
                               "committed", "complete"}]
        /\ flight' \in [Job -> {"no", "live", "dead"}]
    BY <1>14 DEF Settled, SetPhase, Leave
  <2>2. pc' = [pc EXCEPT ![j] = "done"] /\ answer' = [answer EXCEPT ![j] = "none"]
    BY <1>14 DEF Settled, Leave, Goto
  <2> QED
    BY <1>14, <2>1, <2>2 DEF Settled
<1>15. CASE PanelCrash
  BY <1>15, FaultAssumption DEF PanelCrash
<1> QED
  BY <1>1, <1>2, <1>3, <1>4, <1>5, <1>6, <1>7, <1>8, <1>9, <1>10, <1>11, <1>12, <1>13, <1>14,
     <1>15 DEF PanelStep

LEMMA TypeOfTargets ==
  ASSUME TypeOK
  PROVE  Targets(tprev, tnext) \subseteq File
BY DEF TypeOK, Targets, File

\* Answers without a change on the node.
LEMMA AnswersKeep ==
  ASSUME TypeOK, NEW j \in Job, NEW c \in Call,
         Refuse(j, c) \/ PrepareSame(j, c) \/ FinalizeAgain(j) \/ RollbackAgain(j)
  PROVE  TypeOK' /\ UNCHANGED nodeVars
<1> USE DEF nodeVars, txnVars, hostVars, opVars, panelVars, history, TypeOK, Take
<1>1. CASE Refuse(j, c)
  BY <1>1 DEF Refuse
<1>2. CASE PrepareSame(j, c)
  BY <1>2, TypeOfReply DEF PrepareSame
<1>3. CASE FinalizeAgain(j)
  BY <1>3, TypeOfReply DEF FinalizeAgain
<1>4. CASE RollbackAgain(j)
  BY <1>4, TypeOfReply DEF RollbackAgain
<1> QED
  BY <1>1, <1>2, <1>3, <1>4

--------------------------------------------------------------------------------
(* The node.                                                               *)

LEMMA Stutters ==
  ASSUME IInv, TypeOK', UNCHANGED nodeVars
  PROVE  IInv'
BY DEF IInv, nodeVars, txnVars, hostVars, OpInv, PlanInv, ApplyInv, RecoverInv, ReadyInv, Has,
       Resolved, Runs, Targets, Restarts, FilesReady

LEMMA ApplyKeeps ==
  ASSUME IInv, NEW f \in File, AddRules \/ SwitchFile(f) \/ Switched \/ RestartNext \/ ApplyFails \/ BecomeReady
  PROVE  IInv'
<1>1. CASE AddRules
  <2>1. /\ op = "apply" /\ tstate = "prepared"
        /\ tstate' = "rules_added" /\ rules' = rules \cup {tnext.port}
        /\ UNCHANGED <<tid, tprev, tnext, disk, proc, samePid, op, left>>
    BY <1>1 DEF AddRules, txnVars, hostVars, opVars
  <2>2. TypeOK'
    BY <1>1, <2>1 DEF AddRules, TypeOK, IInv, panelVars, callVars, txnVars, hostVars, opVars, history
  <2>3. OpInv'
    BY <2>1, <2>2 DEF IInv, TypeOK, OpInv, Undoing, FilesReady, Targets, Restarts, Resolved
  <2>4. PlanInv'
    BY <2>1, <2>2 DEF IInv, TypeOK, PlanInv, OpInv, Has, Restarts, Targets, File, Resolved
  <2>5. ApplyInv'
    BY <2>1, <2>2 DEF IInv, TypeOK, ApplyInv, OpInv, PlanInv, Targets, Restarts, Resolved
  <2>6. RecoverInv'
    BY <2>1, <2>2 DEF IInv, TypeOK, RecoverInv, OpInv, PlanInv, Targets, Restarts, Resolved
  <2>7. ReadyInv'
    BY <2>1, <2>2 DEF IInv, TypeOK, ReadyInv, OpInv, PlanInv, ApplyInv, RecoverInv, Has, Targets, Restarts, FilesReady, Resolved, File
  <2>8. Resolved' => op' = "none" /\ Runs(disk["journal"])'
    BY <2>1 DEF IInv, TypeOK, OpInv, Resolved
  <2> QED
    BY <2>2, <2>3, <2>4, <2>5, <2>6, <2>7, <2>8 DEF IInv
<1>2. CASE SwitchFile(f)
  <2>1. /\ op = "apply" /\ tstate \in {"rules_added", "switching"}
        /\ tstate' = "switching" /\ f \in left
        /\ disk' = [disk EXCEPT ![f] = tnext] /\ left' = left \ {f}
        /\ UNCHANGED <<tid, tprev, tnext, proc, rules, samePid, op>>
    BY <1>2 DEF SwitchFile, First, txnVars, hostVars, opVars
  <2>2. TypeOK'
    BY <1>2, <2>1 DEF SwitchFile, TypeOK, IInv, panelVars, callVars, txnVars, hostVars, opVars, history
  <2>3. OpInv'
    BY <2>1, <2>2 DEF IInv, TypeOK, OpInv, Undoing, FilesReady, Targets, Restarts, Resolved
  <2>4. PlanInv'
    <3>1. \A g \in File : disk'[g] = IF g = f THEN tnext ELSE disk[g]
      BY <2>1 DEF IInv, TypeOK
    <3>2. ~Resolved /\ tid' = tid /\ tprev' = tprev /\ tnext' = tnext /\ proc' = proc
      BY <2>1 DEF IInv, OpInv, Undoing, Resolved
    <3>3. \A g \in File : Has(g, tprev)' \/ Has(g, tnext)'
      BY <3>1, <3>2, <2>2 DEF IInv, TypeOK, PlanInv, Has
    <3>4. disk'["journal"] = IF tstate' = "committed" THEN tnext' ELSE tprev'
      BY <2>1, <3>1, <3>2 DEF IInv, PlanInv, OpInv, Undoing, ApplyInv, File
    <3> QED
      BY <2>1, <3>2, <3>3, <3>4 DEF IInv, PlanInv, TypeOK
  <2>5. ApplyInv'
    BY <2>1, <2>2 DEF IInv, TypeOK, ApplyInv, OpInv, PlanInv, Targets, Restarts, Resolved
  <2>6. RecoverInv'
    BY <2>1, <2>2 DEF IInv, TypeOK, RecoverInv, OpInv, PlanInv, Targets, Restarts, Resolved
  <2>7. ReadyInv'
    BY <2>1, <2>2 DEF IInv, TypeOK, ReadyInv, OpInv, PlanInv, ApplyInv, RecoverInv, Has, Targets, Restarts, FilesReady, Resolved, File
  <2>8. Resolved' => op' = "none" /\ Runs(disk["journal"])'
    BY <2>1 DEF IInv, TypeOK, OpInv, Resolved
  <2> QED
    BY <2>2, <2>3, <2>4, <2>5, <2>6, <2>7, <2>8 DEF IInv
<1>3. CASE Switched
  <2>1. /\ op = "apply" /\ tstate = "switching" /\ left = {}
        /\ tstate' = IF Restarts(tprev, tnext) THEN "restarting" ELSE "switched"
        /\ UNCHANGED <<tid, tprev, tnext, disk, proc, rules, samePid, op, left>>
    BY <1>3 DEF Switched, txnVars, hostVars, opVars
  <2>2. TypeOK'
    BY <1>3, <2>1 DEF Switched, TypeOK, IInv, panelVars, callVars, txnVars, hostVars, opVars, history
  <2>3. OpInv'
    BY <2>1, <2>2 DEF IInv, TypeOK, OpInv, Undoing, FilesReady, Targets, Restarts, Resolved
  <2>4. PlanInv'
    BY <2>1, <2>2 DEF IInv, TypeOK, PlanInv, OpInv, Has, Restarts, Targets, File, Resolved
  <2>5. ApplyInv'
    BY <2>1, <2>2 DEF IInv, TypeOK, ApplyInv, OpInv, PlanInv, Targets, Restarts, Resolved
  <2>6. RecoverInv'
    BY <2>1, <2>2 DEF IInv, TypeOK, RecoverInv, OpInv, PlanInv, Targets, Restarts, Resolved
  <2>7. ReadyInv'
    BY <2>1, <2>2 DEF IInv, TypeOK, ReadyInv, OpInv, PlanInv, ApplyInv, RecoverInv, Has, Targets, Restarts, FilesReady, Resolved, File
  <2>8. Resolved' => op' = "none" /\ Runs(disk["journal"])'
    BY <2>1 DEF IInv, TypeOK, OpInv, Resolved
  <2> QED
    BY <2>2, <2>3, <2>4, <2>5, <2>6, <2>7, <2>8 DEF IInv
<1>4. CASE RestartNext
  <2>1. /\ op = "apply" /\ tstate = "restarting" /\ left = {}
        /\ tprev.port # tnext.port /\ disk["server"] = tnext
        /\ proc' = tnext.port /\ ~samePid'
        /\ UNCHANGED <<tid, tprev, tnext, tstate, disk, rules, op, left>>
    BY <1>4 DEF RestartNext, IInv, ApplyInv, PlanInv, Targets, Restarts, Resolved, TypeOK, File, txnVars, hostVars, opVars
  <2>2. TypeOK'
    BY <1>4, <2>1 DEF RestartNext, TypeOK, IInv, panelVars, callVars, txnVars, hostVars, opVars, history
  <2>3. OpInv'
    BY <2>1, <2>2 DEF IInv, TypeOK, OpInv, Undoing, FilesReady, Targets, Restarts, Resolved
  <2>4. PlanInv'
    BY <2>1, <2>2 DEF IInv, TypeOK, PlanInv, OpInv, Has, Restarts, Targets, File, Resolved
  <2>5. ApplyInv'
    BY <2>1, <2>2 DEF IInv, TypeOK, ApplyInv, OpInv, PlanInv, Targets, Restarts, Resolved
  <2>6. RecoverInv'
    BY <2>1, <2>2 DEF IInv, TypeOK, RecoverInv, OpInv, PlanInv, Targets, Restarts, Resolved
  <2>7. ReadyInv'
    BY <2>1, <2>2 DEF IInv, TypeOK, ReadyInv, OpInv, PlanInv, ApplyInv, RecoverInv, Has, Targets, Restarts, FilesReady, Resolved, File
  <2>8. Resolved' => op' = "none" /\ Runs(disk["journal"])'
    BY <2>1 DEF IInv, TypeOK, OpInv, Resolved
  <2> QED
    BY <2>2, <2>3, <2>4, <2>5, <2>6, <2>7, <2>8 DEF IInv
<1>5. CASE ApplyFails
  <2>1. /\ op = "apply" /\ op' = "recover" /\ left' = Targets(tprev, tnext)
        /\ UNCHANGED <<tid, tprev, tnext, tstate, disk, proc, rules, samePid>>
    BY <1>5 DEF ApplyFails, txnVars, hostVars, opVars
  <2>2. TypeOK'
    BY <1>5, <2>1, TypeOfTargets DEF ApplyFails, TypeOK, IInv, panelVars, callVars, txnVars, hostVars, opVars, history
  <2>3. OpInv'
    BY <2>1, <2>2 DEF IInv, TypeOK, OpInv, Undoing, FilesReady, Targets, Restarts, Resolved
  <2>4. PlanInv'
    BY <2>1, <2>2 DEF IInv, TypeOK, PlanInv, OpInv, Has, Restarts, Targets, File, Resolved
  <2>5. ApplyInv'
    BY <2>1, <2>2 DEF IInv, TypeOK, ApplyInv, OpInv, PlanInv, Targets, Restarts, Resolved
  <2>6. RecoverInv'
    BY <2>1, <2>2 DEF IInv, TypeOK, RecoverInv, OpInv, PlanInv, Targets, Restarts, Resolved
  <2>7. ReadyInv'
    BY <2>1, <2>2 DEF IInv, TypeOK, ReadyInv, OpInv, PlanInv, ApplyInv, RecoverInv, Has, Targets, Restarts, FilesReady, Resolved, File
  <2>8. Resolved' => op' = "none" /\ Runs(disk["journal"])'
    BY <2>1 DEF IInv, TypeOK, OpInv, Resolved
  <2> QED
    BY <2>2, <2>3, <2>4, <2>5, <2>6, <2>7, <2>8 DEF IInv
<1>6. CASE BecomeReady
  <2>1. /\ op = "apply" /\ tstate' = "ready" /\ samePid'
        /\ (tstate = "restarting" /\ proc = tnext.port) \/ tstate = "switched"
        /\ left = {}
        /\ (op' = "none" /\ left' = {}) \/ (op' = "finalize" /\ left' = left)
        /\ UNCHANGED <<tid, tprev, tnext, disk, proc, rules>>
    BY <1>6 DEF BecomeReady, Finish, IInv, ApplyInv, txnVars, hostVars, opVars
  <2>2. TypeOK'
    BY <1>6, <2>1, TypeOfFinish DEF BecomeReady, TypeOK, IInv, panelVars, callVars, txnVars, hostVars, opVars, history
  <2>3. OpInv'
    BY <2>1, <2>2 DEF IInv, TypeOK, OpInv, Undoing, FilesReady, Targets, Restarts, Resolved, ApplyInv
  <2>4. PlanInv'
    BY <2>1, <2>2 DEF IInv, TypeOK, PlanInv, OpInv, Has, Restarts, Targets, File, Resolved
  <2>5. ApplyInv'
    BY <2>1, <2>2 DEF IInv, TypeOK, ApplyInv, OpInv, PlanInv, Targets, Restarts, Resolved
  <2>6. RecoverInv'
    BY <2>1, <2>2 DEF IInv, TypeOK, RecoverInv, OpInv, PlanInv, Targets, Restarts, Resolved
  <2>7. ReadyInv'
    BY <2>1, <2>2 DEF IInv, TypeOK, ReadyInv, OpInv, PlanInv, ApplyInv, RecoverInv, Has, Targets, Restarts, FilesReady, Resolved, File
  <2>8. Resolved' => op' = "none" /\ Runs(disk["journal"])'
    BY <2>1 DEF IInv, TypeOK, OpInv, Resolved
  <2> QED
    BY <2>2, <2>3, <2>4, <2>5, <2>6, <2>7, <2>8 DEF IInv
<1> QED
  BY <1>1, <1>2, <1>3, <1>4, <1>5, <1>6

LEMMA FinalizeKeeps ==
  ASSUME IInv, Committing \/ SwitchJournal \/ Complete
  PROVE  IInv'
<1>1. CASE Committing
  <2>1. /\ op = "finalize" /\ tstate = "ready" /\ tstate' = "committing"
        /\ UNCHANGED <<tid, tprev, tnext, disk, proc, rules, samePid, op, left>>
    BY <1>1 DEF Committing, txnVars, hostVars, opVars
  <2>2. TypeOK'
    BY <1>1, <2>1 DEF Committing, TypeOK, IInv, panelVars, callVars, txnVars, hostVars, opVars, history
  <2>3. OpInv'
    BY <2>1, <2>2 DEF IInv, TypeOK, OpInv, Undoing, FilesReady, Targets, Restarts, Resolved
  <2>4. PlanInv'
    BY <2>1, <2>2 DEF IInv, TypeOK, PlanInv, OpInv, Has, Restarts, Targets, File, Resolved
  <2>5. ApplyInv'
    BY <2>1, <2>2 DEF IInv, TypeOK, ApplyInv, OpInv, PlanInv, Targets, Restarts, Resolved
  <2>6. RecoverInv'
    BY <2>1, <2>2 DEF IInv, TypeOK, RecoverInv, OpInv, PlanInv, Targets, Restarts, Resolved
  <2>7. ReadyInv'
    BY <2>1, <2>2 DEF IInv, TypeOK, ReadyInv, OpInv, PlanInv, ApplyInv, RecoverInv, Has, Targets, Restarts, FilesReady, Resolved, File
  <2>8. Resolved' => op' = "none" /\ Runs(disk["journal"])'
    BY <2>1 DEF IInv, TypeOK, OpInv, Resolved
  <2> QED
    BY <2>2, <2>3, <2>4, <2>5, <2>6, <2>7, <2>8 DEF IInv
<1>2. CASE SwitchJournal
  <2>1. /\ op = "finalize" /\ tstate = "committing" /\ tstate' = "committed"
        /\ disk' = [disk EXCEPT !["journal"] = tnext]
        /\ UNCHANGED <<tid, tprev, tnext, proc, rules, samePid, op, left>>
    BY <1>2 DEF SwitchJournal, txnVars, hostVars, opVars
  <2>2. TypeOK'
    BY <1>2, <2>1 DEF SwitchJournal, File, TypeOK, IInv, panelVars, callVars, txnVars, hostVars, opVars, history
  <2>3. OpInv'
    BY <2>1, <2>2 DEF IInv, TypeOK, OpInv, Undoing, FilesReady, Targets, Restarts, Resolved
  <2>4. PlanInv'
    BY <2>1, <2>2 DEF IInv, TypeOK, PlanInv, OpInv, Has, Restarts, Targets, File, Resolved
  <2>5. ApplyInv'
    BY <2>1, <2>2 DEF IInv, TypeOK, ApplyInv, OpInv, PlanInv, Targets, Restarts, Resolved
  <2>6. RecoverInv'
    BY <2>1, <2>2 DEF IInv, TypeOK, RecoverInv, OpInv, PlanInv, Targets, Restarts, Resolved
  <2>7. ReadyInv'
    BY <2>1, <2>2 DEF IInv, TypeOK, ReadyInv, OpInv, PlanInv, ApplyInv, RecoverInv, Has, Targets, Restarts, FilesReady, Resolved, File
  <2>8. Resolved' => op' = "none" /\ Runs(disk["journal"])'
    BY <2>1 DEF IInv, TypeOK, OpInv, Resolved
  <2> QED
    BY <2>2, <2>3, <2>4, <2>5, <2>6, <2>7, <2>8 DEF IInv
<1>3. CASE Complete
  <2>1. /\ op = "finalize" /\ tstate = "committed" /\ tstate' = "complete"
        /\ op' = "none" /\ left' = {}
        /\ rules' = IF Restarts(tprev, tnext) THEN rules \ {tprev.port} ELSE rules
        /\ UNCHANGED <<tid, tprev, tnext, disk, proc, samePid>>
    <3>1. op' = "none" /\ left' = {}
      BY <1>3 DEF Complete, Finish
    <3> QED
      BY <1>3, <3>1 DEF Complete
  <2>2. TypeOK'
    <3>1. tid \in Job
      BY <2>1 DEF IInv, OpInv, Undoing, PlanInv, Resolved
    <3>2. rules' \in SUBSET Port
      BY <2>1 DEF IInv, TypeOK
    <3>3. answer' \in [Job -> {"none", "ready", "same", "ok"}] /\ serving' = "operator" /\ asked' = "pending"
      BY <1>3, TypeOfFinish DEF Complete, IInv
    <3> QED
      BY <1>3, <2>1, <3>1, <3>2, <3>3 DEF Complete, TypeOK, IInv, panelVars, history
  <2>3. OpInv'
    BY <2>1, <2>2 DEF IInv, TypeOK, OpInv, Undoing, FilesReady, Targets, Restarts, Resolved
  <2>4. PlanInv'
    BY <2>1, <2>2 DEF IInv, TypeOK, PlanInv, OpInv, Has, Restarts, Targets, File, Resolved
  <2>5. ApplyInv'
    BY <2>1, <2>2 DEF IInv, TypeOK, ApplyInv, OpInv, PlanInv, Targets, Restarts, Resolved
  <2>6. RecoverInv'
    BY <2>1, <2>2 DEF IInv, TypeOK, RecoverInv, OpInv, PlanInv, Targets, Restarts, Resolved
  <2>7. ReadyInv'
    BY <2>1, <2>2 DEF IInv, TypeOK, ReadyInv, OpInv, PlanInv, ApplyInv, RecoverInv, Has, Targets, Restarts, FilesReady, Resolved, File
  <2>8. Resolved' => op' = "none" /\ Runs(disk["journal"])'
    BY <2>1 DEF IInv, TypeOK, OpInv, Resolved, PlanInv, ReadyInv, Runs, Has, FilesReady, Targets, Restarts, File
  <2> QED
    BY <2>2, <2>3, <2>4, <2>5, <2>6, <2>7, <2>8 DEF IInv
<1> QED
  BY <1>1, <1>2, <1>3

LEMMA RecoverKeeps ==
  ASSUME IInv, NEW f \in File, RestoreFile(f) \/ RolledBack
  PROVE  IInv'
<1>1. CASE RestoreFile(f)
  <2>1. /\ op = "recover" /\ f \in left
        /\ disk' = [disk EXCEPT ![f] = tprev] /\ left' = left \ {f}
        /\ rules' = rules \cup {tprev.port}
        /\ UNCHANGED <<tid, tprev, tnext, tstate, proc, samePid, op>>
    BY <1>1 DEF RestoreFile, First, txnVars, hostVars, opVars
  <2>2. TypeOK'
    BY <1>1, <2>1 DEF RestoreFile, TypeOK, IInv, panelVars, callVars, txnVars, hostVars, opVars, history
  <2>3. OpInv'
    BY <2>1, <2>2 DEF IInv, TypeOK, OpInv, Undoing, FilesReady, Targets, Restarts, Resolved
  <2>4. PlanInv'
    <3>1. \A g \in File : disk'[g] = IF g = f THEN tprev ELSE disk[g]
      BY <2>1 DEF IInv, TypeOK
    <3>2. ~Resolved /\ tid' = tid /\ tprev' = tprev /\ tnext' = tnext /\ proc' = proc
      BY <2>1 DEF IInv, OpInv, Undoing, Resolved
    <3>3. \A g \in File : Has(g, tprev)' \/ Has(g, tnext)'
      BY <3>1, <3>2, <2>2 DEF IInv, TypeOK, PlanInv, Has
    <3>4. disk'["journal"] = IF tstate' = "committed" THEN tnext' ELSE tprev'
      BY <2>1, <3>1, <3>2 DEF IInv, PlanInv, OpInv, Undoing, ApplyInv, File
    <3> QED
      BY <2>1, <3>2, <3>3, <3>4 DEF IInv, PlanInv, TypeOK
  <2>5. ApplyInv'
    BY <2>1, <2>2 DEF IInv, TypeOK, ApplyInv, OpInv, PlanInv, Targets, Restarts, Resolved
  <2>6. RecoverInv'
    BY <2>1, <2>2 DEF IInv, TypeOK, RecoverInv, OpInv, PlanInv, Targets, Restarts, Resolved
  <2>7. ReadyInv'
    <3>1. tstate \notin {"committing", "committed"} /\ tprev # tnext
      BY <2>1 DEF IInv, OpInv, Undoing, PlanInv, Resolved
    <3>2. f \in Targets(tprev, tnext)
      BY <2>1 DEF IInv, RecoverInv
    <3>3. ASSUME FilesReady' PROVE FilesReady
      <4>1. disk'[f] = tprev
        BY <2>1 DEF IInv, TypeOK
      <4>2. f = "journal"
        BY <2>1, <3>1, <3>2, <3>3, <4>1 DEF FilesReady
      <4> QED
        BY <2>1, <3>3, <4>2 DEF FilesReady, Targets
    <3> QED
      BY <2>1, <3>1, <3>3 DEF IInv, TypeOK, ReadyInv
  <2>8. Resolved' => op' = "none" /\ Runs(disk["journal"])'
    BY <2>1 DEF IInv, TypeOK, OpInv, Resolved
  <2> QED
    BY <2>2, <2>3, <2>4, <2>5, <2>6, <2>7, <2>8 DEF IInv
<1>2. CASE RolledBack
  <2>1. /\ op = "recover" /\ left = {} /\ tstate' = "rolled_back"
        /\ op' = "none" /\ left' = {} /\ samePid'
        /\ proc' = IF NeedsRestart THEN disk["server"].port ELSE proc
        /\ rules' = IF Restarts(tprev, tnext) THEN rules \ {tnext.port} ELSE rules
        /\ UNCHANGED <<tid, tprev, tnext, disk>>
    <3>1. op' = "none" /\ left' = {}
      BY <1>2 DEF RolledBack, Finish
    <3>2. samePid' = TRUE
      BY <1>2 DEF RolledBack
    <3> QED
      BY <1>2, <3>1, <3>2 DEF RolledBack
  <2>2. TypeOK'
    <3>1. tid \in Job
      BY <2>1 DEF IInv, OpInv, Undoing, PlanInv, Resolved
    <3>2. rules' \in SUBSET Port
      BY <2>1 DEF IInv, TypeOK
    <3>3. answer' \in [Job -> {"none", "ready", "same", "ok"}] /\ serving' = "operator" /\ asked' = "pending"
      BY <1>2, TypeOfFinish DEF RolledBack, IInv
    <3>4. proc' \in Port
      BY <2>1 DEF IInv, TypeOK, File
    <3> QED
      BY <1>2, <2>1, <3>1, <3>2, <3>3, <3>4 DEF RolledBack, TypeOK, IInv, panelVars, history
  <2>3. OpInv'
    BY <2>1, <2>2 DEF IInv, TypeOK, OpInv, Undoing, FilesReady, Targets, Restarts, Resolved
  <2>4. PlanInv'
    BY <2>1, <2>2 DEF IInv, TypeOK, PlanInv, OpInv, Has, Restarts, Targets, File, Resolved
  <2>5. ApplyInv'
    BY <2>1, <2>2 DEF IInv, TypeOK, ApplyInv, OpInv, PlanInv, Targets, Restarts, Resolved
  <2>6. RecoverInv'
    BY <2>1, <2>2 DEF IInv, TypeOK, RecoverInv, OpInv, PlanInv, Targets, Restarts, Resolved
  <2>7. ReadyInv'
    BY <2>1, <2>2 DEF IInv, TypeOK, ReadyInv, OpInv, PlanInv, ApplyInv, RecoverInv, Has, Targets, Restarts, FilesReady, Resolved, File
  <2>8. Resolved' => op' = "none" /\ Runs(disk["journal"])'
    <3>1. /\ ~Resolved /\ tprev # tnext /\ tstate \in Undoing
          /\ disk["journal"] = tprev /\ disk["profile"] = tprev
      BY <2>1 DEF IInv, OpInv, Undoing, Resolved, PlanInv, RecoverInv, Targets
    <3>2. /\ tprev.port \in rules /\ rules \subseteq {tprev.port, tnext.port}
          /\ proc \in {tprev.port, tnext.port}
      BY <2>1, <3>1 DEF IInv, PlanInv, RecoverInv, Targets
    <3>3. /\ disk["server"].port = tprev.port
          /\ disk["network"].port = tprev.port
      <4>1. CASE Restarts(tprev, tnext)
        <5>1. {"server", "network"} \subseteq Targets(tprev, tnext)
          BY <3>1, <4>1 DEF Targets
        <5>2. disk["server"] = tprev /\ disk["network"] = tprev
          BY <2>1, <5>1 DEF IInv, RecoverInv
        <5> QED
          BY <5>2
      <4>2. CASE ~Restarts(tprev, tnext)
        BY <3>1, <4>2 DEF IInv, PlanInv, Has, Restarts, File
      <4> QED
        BY <4>1, <4>2
    <3>4. proc' = tprev.port
      <4>1. CASE NeedsRestart
        BY <2>1, <3>3, <4>1
      <4>2. CASE ~NeedsRestart
        BY <2>1, <3>1, <3>2, <4>2 DEF IInv, PlanInv, NeedsRestart, Restarts, Undoing
      <4> QED
        BY <4>1, <4>2
    <3>5. rules' = {tprev.port}
      BY <2>1, <3>2 DEF Restarts
    <3> QED
      BY <2>1, <3>1, <3>3, <3>4, <3>5 DEF Runs
  <2> QED
    BY <2>2, <2>3, <2>4, <2>5, <2>6, <2>7, <2>8 DEF IInv
<1> QED
  BY <1>1, <1>2

LEMMA ServeKeeps ==
  ASSUME IInv, NEW j \in Job, NEW c \in Call, ServePrepare(j, c) \/ ServeFinalize(j) \/ ServeRollback(j)
  PROVE  IInv'
<1>1. CASE ServePrepare(j, c)
  <2>1. /\ Resolved /\ tid' = j /\ tprev' = disk["journal"] /\ tnext' = req[j] /\ tprev' # tnext'
        /\ tstate' = "prepared" /\ samePid' /\ op' = "apply"
        /\ left' = Targets(tprev', tnext') \ {"journal"}
        /\ UNCHANGED <<disk, proc, rules>>
    BY <1>1 DEF ServePrepare, txnVars, hostVars, opVars
  <2>2. TypeOK'
    BY <1>1, <2>1, TypeOfTargets DEF ServePrepare, Take, File, Targets, TypeOK, IInv, panelVars, callVars, txnVars, hostVars, opVars, history
  <2>3. OpInv'
    BY <2>1, <2>2 DEF IInv, TypeOK, OpInv, Undoing, FilesReady, Targets, Restarts, Resolved
  <2>4. PlanInv'
    BY <2>1, <2>2 DEF IInv, TypeOK, PlanInv, OpInv, Has, Restarts, Targets, File, Resolved, Runs
  <2>5. ApplyInv'
    BY <2>1, <2>2 DEF IInv, TypeOK, ApplyInv, OpInv, PlanInv, Targets, Restarts, Resolved
  <2>6. RecoverInv'
    BY <2>1, <2>2 DEF IInv, TypeOK, RecoverInv, OpInv, PlanInv, Targets, Restarts, Resolved
  <2>7. ReadyInv'
    BY <2>1, <2>2 DEF IInv, TypeOK, ReadyInv, OpInv, PlanInv, ApplyInv, RecoverInv, Has, Targets, Restarts, FilesReady, Resolved, File
  <2>8. Resolved' => op' = "none" /\ Runs(disk["journal"])'
    BY <2>1 DEF IInv, TypeOK, OpInv, Resolved
  <2> QED
    BY <2>2, <2>3, <2>4, <2>5, <2>6, <2>7, <2>8 DEF IInv
<1>2. CASE ServeFinalize(j)
  <2>1. /\ op = "none" /\ op' = "finalize" /\ FilesReady
        /\ tstate \in {"ready", "committing", "committed"}
        /\ UNCHANGED <<tid, tprev, tnext, tstate, disk, proc, rules, samePid, left>>
    BY <1>2 DEF ServeFinalize, IInv, ReadyInv, txnVars, hostVars, opVars
  <2>2. TypeOK'
    BY <1>2, <2>1 DEF ServeFinalize, Take, Call, TypeOK, IInv, panelVars, callVars, txnVars, hostVars, opVars, history
  <2>3. OpInv'
    BY <2>1, <2>2 DEF IInv, TypeOK, OpInv, Undoing, FilesReady, Targets, Restarts, Resolved
  <2>4. PlanInv'
    BY <2>1, <2>2 DEF IInv, TypeOK, PlanInv, OpInv, Has, Restarts, Targets, File, Resolved
  <2>5. ApplyInv'
    BY <2>1, <2>2 DEF IInv, TypeOK, ApplyInv, OpInv, PlanInv, Targets, Restarts, Resolved
  <2>6. RecoverInv'
    BY <2>1, <2>2 DEF IInv, TypeOK, RecoverInv, OpInv, PlanInv, Targets, Restarts, Resolved
  <2>7. ReadyInv'
    BY <2>1, <2>2 DEF IInv, TypeOK, ReadyInv, OpInv, PlanInv, ApplyInv, RecoverInv, Has, Targets, Restarts, FilesReady, Resolved, File
  <2>8. Resolved' => op' = "none" /\ Runs(disk["journal"])'
    BY <2>1 DEF IInv, TypeOK, OpInv, Resolved
  <2> QED
    BY <2>2, <2>3, <2>4, <2>5, <2>6, <2>7, <2>8 DEF IInv
<1>3. CASE ServeRollback(j)
  <2>1. /\ op = "none" /\ op' = "recover" /\ ~Resolved /\ left' = Targets(tprev, tnext)
        /\ tstate \notin {"committing", "committed"}
        /\ UNCHANGED <<tid, tprev, tnext, tstate, disk, proc, rules, samePid>>
    BY <1>3 DEF ServeRollback, txnVars, hostVars, opVars
  <2>2. TypeOK'
    BY <1>3, <2>1, TypeOfTargets DEF ServeRollback, Take, Call, TypeOK, IInv, panelVars, callVars, txnVars, hostVars, opVars, history
  <2>3. OpInv'
    BY <2>1, <2>2 DEF IInv, TypeOK, OpInv, Undoing, FilesReady, Targets, Restarts, Resolved
  <2>4. PlanInv'
    BY <2>1, <2>2 DEF IInv, TypeOK, PlanInv, OpInv, Has, Restarts, Targets, File, Resolved
  <2>5. ApplyInv'
    BY <2>1, <2>2 DEF IInv, TypeOK, ApplyInv, OpInv, PlanInv, Targets, Restarts, Resolved
  <2>6. RecoverInv'
    BY <2>1, <2>2 DEF IInv, TypeOK, RecoverInv, OpInv, PlanInv, Targets, Restarts, Resolved
  <2>7. ReadyInv'
    BY <2>1, <2>2 DEF IInv, TypeOK, ReadyInv, OpInv, PlanInv, ApplyInv, RecoverInv, Has, Targets, Restarts, FilesReady, Resolved, File
  <2>8. Resolved' => op' = "none" /\ Runs(disk["journal"])'
    BY <2>1 DEF IInv, TypeOK, OpInv, Resolved
  <2> QED
    BY <2>2, <2>3, <2>4, <2>5, <2>6, <2>7, <2>8 DEF IInv
<1> QED
  BY <1>1, <1>2, <1>3

LEMMA OperatorKeeps ==
  ASSUME IInv, Ask \/ Obey \/ Resume
  PROVE  IInv'
<1>1. CASE Ask
  <2>1. /\ op = "none" /\ tstate = "ready" /\ op' = "ask"
        /\ UNCHANGED <<tid, tprev, tnext, tstate, disk, proc, rules, samePid, left>>
    BY <1>1 DEF Ask, txnVars, hostVars, opVars
  <2>2. TypeOK'
    BY <1>1, <2>1 DEF Ask, Decision, Managed, TypeOK, IInv, panelVars, callVars, txnVars, hostVars, opVars, history
  <2>3. OpInv'
    BY <2>1, <2>2 DEF IInv, TypeOK, OpInv, Undoing, FilesReady, Targets, Restarts, Resolved
  <2>4. PlanInv'
    BY <2>1, <2>2 DEF IInv, TypeOK, PlanInv, OpInv, Has, Restarts, Targets, File, Resolved
  <2>5. ApplyInv'
    BY <2>1, <2>2 DEF IInv, TypeOK, ApplyInv, OpInv, PlanInv, Targets, Restarts, Resolved
  <2>6. RecoverInv'
    BY <2>1, <2>2 DEF IInv, TypeOK, RecoverInv, OpInv, PlanInv, Targets, Restarts, Resolved
  <2>7. ReadyInv'
    BY <2>1, <2>2 DEF IInv, TypeOK, ReadyInv, OpInv, PlanInv, ApplyInv, RecoverInv, Has, Targets, Restarts, FilesReady, Resolved, File
  <2>8. Resolved' => op' = "none" /\ Runs(disk["journal"])'
    BY <2>1 DEF IInv, TypeOK, OpInv, Resolved
  <2> QED
    BY <2>2, <2>3, <2>4, <2>5, <2>6, <2>7, <2>8 DEF IInv
<1>2. CASE Obey
  <2>1. /\ op = "ask" /\ tstate = "ready"
        /\ \/ op' = "finalize" /\ FilesReady /\ tstate' = "committing" /\ left' = left
           \/ op' = "recover" /\ left' = Targets(tprev, tnext) /\ tstate' = tstate
        /\ UNCHANGED <<tid, tprev, tnext, disk, proc, rules, samePid>>
    BY <1>2 DEF Obey, IInv, OpInv, txnVars, hostVars, opVars
  <2>2. TypeOK'
    BY <1>2, <2>1, TypeOfTargets DEF Obey, TypeOK, IInv, panelVars, callVars, txnVars, hostVars, opVars, history
  <2>3. OpInv'
    BY <2>1, <2>2 DEF IInv, TypeOK, OpInv, Undoing, FilesReady, Targets, Restarts, Resolved
  <2>4. PlanInv'
    BY <2>1, <2>2 DEF IInv, TypeOK, PlanInv, OpInv, Has, Restarts, Targets, File, Resolved
  <2>5. ApplyInv'
    BY <2>1, <2>2 DEF IInv, TypeOK, ApplyInv, OpInv, PlanInv, Targets, Restarts, Resolved
  <2>6. RecoverInv'
    BY <2>1, <2>2 DEF IInv, TypeOK, RecoverInv, OpInv, PlanInv, Targets, Restarts, Resolved
  <2>7. ReadyInv'
    BY <2>1, <2>2 DEF IInv, TypeOK, ReadyInv, OpInv, PlanInv, ApplyInv, RecoverInv, Has, Targets, Restarts, FilesReady, Resolved, File
  <2>8. Resolved' => op' = "none" /\ Runs(disk["journal"])'
    BY <2>1 DEF IInv, TypeOK, OpInv, Resolved
  <2> QED
    BY <2>2, <2>3, <2>4, <2>5, <2>6, <2>7, <2>8 DEF IInv
<1>3. CASE Resume
  <2>1. /\ op = "none" /\ ~Resolved /\ tstate # "ready"
        /\ \/ op' = "finalize" /\ tstate \in {"committing", "committed"} /\ left' = left
           \/ op' = "recover" /\ tstate \notin {"committing", "committed"} /\ left' = Targets(tprev, tnext)
        /\ UNCHANGED <<tid, tprev, tnext, tstate, disk, proc, rules, samePid>>
    BY <1>3 DEF Resume, txnVars, hostVars, opVars
  <2>2. TypeOK'
    BY <1>3, <2>1, TypeOfTargets DEF Resume, TypeOK, IInv, panelVars, callVars, txnVars, hostVars, opVars, history
  <2>3. OpInv'
    BY <2>1, <2>2 DEF IInv, TypeOK, OpInv, Undoing, FilesReady, Targets, Restarts, Resolved, ReadyInv
  <2>4. PlanInv'
    BY <2>1, <2>2 DEF IInv, TypeOK, PlanInv, OpInv, Has, Restarts, Targets, File, Resolved
  <2>5. ApplyInv'
    BY <2>1, <2>2 DEF IInv, TypeOK, ApplyInv, OpInv, PlanInv, Targets, Restarts, Resolved
  <2>6. RecoverInv'
    BY <2>1, <2>2 DEF IInv, TypeOK, RecoverInv, OpInv, PlanInv, Targets, Restarts, Resolved
  <2>7. ReadyInv'
    BY <2>1, <2>2 DEF IInv, TypeOK, ReadyInv, OpInv, PlanInv, ApplyInv, RecoverInv, Has, Targets, Restarts, FilesReady, Resolved, File
  <2>8. Resolved' => op' = "none" /\ Runs(disk["journal"])'
    BY <2>1 DEF IInv, TypeOK, OpInv, Resolved
  <2> QED
    BY <2>2, <2>3, <2>4, <2>5, <2>6, <2>7, <2>8 DEF IInv
<1> QED
  BY <1>1, <1>2, <1>3

LEMMA FaultsKeep ==
  ASSUME IInv, HelperCrash \/ Reboot
  PROVE  IInv'
<1>1. CASE HelperCrash
  <2>1. /\ op # "none" /\ op' = "none" /\ left' = {}
        /\ UNCHANGED <<tid, tprev, tnext, tstate, disk, proc, rules, samePid>>
    BY <1>1, TypeOfFinish DEF HelperCrash, IInv, txnVars, hostVars, opVars
  <2>2. TypeOK'
    BY <1>1, <2>1, TypeOfFinish, FaultAssumption DEF HelperCrash, TypeOK, IInv, panelVars, callVars, txnVars, hostVars, opVars, history
  <2>3. OpInv'
    BY <2>1, <2>2 DEF IInv, TypeOK, OpInv, Undoing, FilesReady, Targets, Restarts, Resolved
  <2>4. PlanInv'
    BY <2>1, <2>2 DEF IInv, TypeOK, PlanInv, OpInv, Has, Restarts, Targets, File, Resolved
  <2>5. ApplyInv'
    BY <2>1, <2>2 DEF IInv, TypeOK, ApplyInv, OpInv, PlanInv, Targets, Restarts, Resolved
  <2>6. RecoverInv'
    BY <2>1, <2>2 DEF IInv, TypeOK, RecoverInv, OpInv, PlanInv, Targets, Restarts, Resolved
  <2>7. ReadyInv'
    BY <2>1, <2>2 DEF IInv, TypeOK, ReadyInv, OpInv, PlanInv, ApplyInv, RecoverInv, Has, Targets, Restarts, FilesReady, Resolved, File
  <2>8. Resolved' => op' = "none" /\ Runs(disk["journal"])'
    BY <2>1 DEF IInv, TypeOK, OpInv, Resolved
  <2> QED
    BY <2>2, <2>3, <2>4, <2>5, <2>6, <2>7, <2>8 DEF IInv
<1>2. CASE Reboot
  <2>1. /\ op' = "none"
        /\ proc' = disk["server"].port /\ rules' = {disk["network"].port}
        /\ samePid' = Resolved
        /\ UNCHANGED <<tid, tprev, tnext, tstate, disk>>
    <3>1. CASE op = "none"
      BY <1>2, <3>1 DEF Reboot, txnVars, opVars
    <3>2. CASE op # "none"
      BY <1>2, <3>2 DEF Reboot, Finish, txnVars, opVars
    <3> QED
      BY <3>1, <3>2
  <2>2. TypeOK'
    <3>1. /\ answer' \in [Job -> {"none", "ready", "same", "ok"}]
          /\ left' \in SUBSET File /\ serving' \in Call \cup {"operator"}
          /\ asked' \in {"finalize", "rollback", "pending"}
      <4>1. CASE op = "none"
        BY <1>2, <4>1 DEF Reboot, opVars, IInv, TypeOK
      <4>2. CASE op # "none"
        BY <1>2, <4>2, TypeOfFinish DEF Reboot, IInv
      <4> QED
        BY <4>1, <4>2
    <3>2. proc' \in Port /\ rules' \in SUBSET Port /\ samePid' \in BOOLEAN
      BY <2>1 DEF IInv, TypeOK, File, Resolved
    <3> QED
      BY <1>2, <2>1, <3>1, <3>2, FaultAssumption DEF Reboot, TypeOK, IInv, panelVars, history
  <2>3. OpInv'
    BY <2>1, <2>2 DEF IInv, TypeOK, OpInv, Undoing, FilesReady, Targets, Restarts, Resolved
  <2>4. PlanInv'
    BY <2>1, <2>2 DEF IInv, TypeOK, PlanInv, OpInv, Has, Restarts, Targets, File, Resolved
  <2>5. ApplyInv'
    BY <2>1, <2>2 DEF IInv, TypeOK, ApplyInv, OpInv, PlanInv, Targets, Restarts, Resolved
  <2>6. RecoverInv'
    BY <2>1, <2>2 DEF IInv, TypeOK, RecoverInv, OpInv, PlanInv, Targets, Restarts, Resolved
  <2>7. ReadyInv'
    BY <2>1, <2>2 DEF IInv, TypeOK, ReadyInv, OpInv, PlanInv, ApplyInv, RecoverInv, Has, Targets, Restarts, FilesReady, Resolved, File
  <2>8. Resolved' => op' = "none" /\ Runs(disk["journal"])'
    BY <2>1 DEF IInv, TypeOK, OpInv, Resolved, Runs
  <2> QED
    BY <2>2, <2>3, <2>4, <2>5, <2>6, <2>7, <2>8 DEF IInv
<1> QED
  BY <1>1, <1>2

--------------------------------------------------------------------------------
LEMMA StepIInv ==
  ASSUME IInv, [Next]_vars
  PROVE  IInv'
<1>1. CASE UNCHANGED vars
  <2>1. TypeOK' /\ UNCHANGED nodeVars
    BY <1>1 DEF IInv, TypeOK, vars, panelVars, callVars, txnVars, hostVars, opVars, history, nodeVars
  <2> QED
    BY <2>1, Stutters
<1>2. CASE \E j \in Job : Load(j) \/ PanelStep(j) \/ Serve(j)
  <2>1. PICK j \in Job : Load(j) \/ PanelStep(j) \/ Serve(j)
    BY <1>2
  <2>2. CASE Load(j) \/ PanelStep(j)
    BY <2>2, PanelKeeps, Stutters DEF IInv
  <2>3. CASE Serve(j)
    <3>1. Call # {} /\ TypeOK
      BY DEF Call, IInv
    <3>2. CASE \E c \in Call : Refuse(j, c) \/ PrepareSame(j, c) \/ FinalizeAgain(j) \/ RollbackAgain(j)
      BY <3>1, <3>2, AnswersKeep, Stutters
    <3>3. CASE \E c \in Call : ServePrepare(j, c) \/ ServeFinalize(j) \/ ServeRollback(j)
      BY <3>3, ServeKeeps
    <3> QED
      BY <2>3, <3>1, <3>2, <3>3 DEF Serve
  <2> QED
    BY <2>1, <2>2, <2>3
<1>3. CASE HelperStep
  <2>1. "server" \in File
    BY DEF File
  <2> QED
    BY <1>3, <2>1, ApplyKeeps, FinalizeKeeps, RecoverKeeps, OperatorKeeps DEF HelperStep
<1>4. CASE Operator
  BY <1>4, OperatorKeeps DEF Operator
<1>5. CASE PanelCrash
  <2>1. PICK j \in Job : TRUE
    BY <1>5 DEF PanelCrash
  <2> QED
    BY <1>5, PanelKeeps, Stutters DEF IInv
<1>6. CASE HelperCrash \/ Reboot
  BY <1>6, FaultsKeep
<1> QED
  BY <1>1, <1>2, <1>3, <1>4, <1>5, <1>6 DEF Next

LEMMA InitIInv == Init => IInv
<1> SUFFICES ASSUME Init PROVE IInv
  OBVIOUS
<1>1. TypeOK
  BY SettingAssumption, FaultAssumption, JobAssumption DEF Init, TypeOK, Call
<1>2. /\ tstate = "none" /\ op = "none" /\ disk = [f \in File |-> Installed]
      /\ proc = Installed.port /\ rules = {Installed.port}
  BY DEF Init
<1>3. Runs(disk["journal"])
  BY <1>2 DEF Runs, File
<1> QED
  BY <1>1, <1>2, <1>3 DEF IInv, OpInv, PlanInv, ApplyInv, RecoverInv, ReadyInv, Resolved

LEMMA AlwaysIInv == Spec => []IInv
<1>1. Init => IInv
  BY InitIInv
<1>2. IInv /\ [Next]_vars => IInv'
  BY StepIInv
<1> QED
  BY <1>1, <1>2, PTL DEF Spec

\* Types: every variable of panel, network and node keeps its type.
THEOREM ConfigurationTypes == Spec => []TypeOK
<1>1. IInv => TypeOK
  BY DEF IInv
<1> QED
  BY <1>1, AlwaysIInv, PTL

\* Whatever number of edits, crashes of panel, helper or host there is: a node
\* that has no edit pending serves one set of settings, in its files, its
\* firewall and its VPN process.
THEOREM NodeIsWhole == Spec => []WholeAtRest
<1>1. IInv => WholeAtRest
  BY DEF IInv, WholeAtRest
<1> QED
  BY <1>1, AlwaysIInv, PTL

--------------------------------------------------------------------------------
(* Part 2: the row and the node, edit by edit. *)

\* The node has taken the edit up, or has been through with it.
Taken(j) == tid = j \/ j \in applied \cup undone

\* Where the coroutine is bounds the job and its messages.
Control(j) ==
    /\ pc[j] \in {"idle", "info"} => phase[j] = "none" /\ j \notin committed \cup direct
    /\ pc[j] \in {"direct", "write"} => j \in direct \ committed
    /\ pc[j] \in {"prepare", "commit", "mark", "decide", "finalize", "rollback"} =>
           flight[j] = "live"
    /\ pc[j] = "prepare" => phase[j] = "preparing" /\ j \notin committed
    /\ pc[j] = "commit" =>
           phase[j] = "ready" /\ answer[j] \in {"ready", "same"} /\ j \notin committed
    /\ pc[j] = "mark" => phase[j] = "ready" /\ j \in committed
    /\ pc[j] = "decide" => phase[j] \in {"preparing", "ready"}
    /\ pc[j] = "finalize" => phase[j] = "committed"
    /\ pc[j] = "rollback" => phase[j] = "rollback"

\* The job bounds the messages, and what the node can know of the edit.
Recorded(j) ==
    /\ phase[j] = "none" => <<j, "prepare">> \notin net /\ (Taken(j) => j \in direct)
    /\ j \in direct => phase[j] = "none" /\ pc[j] \in {"direct", "write", "done"}
    /\ <<j, "direct">> \in net => j \in direct /\ ~Taken(j)
    /\ phase[j] \in {"committed", "complete"} => pc[j] \in {"finalize", "done"}
    /\ phase[j] \in {"rollback", "rolled_back"} => pc[j] \in {"rollback", "done"}
    /\ <<j, "finalize">> \in net => phase[j] \in {"committed", "complete"}
    /\ <<j, "rollback">> \in net => phase[j] \in {"rollback", "rolled_back"}

\* A prepare is delivered at most once, so its answer speaks of the one plan.
\* "same" says that nothing is to be done if nobody else has been at the row.
Prepare(j) ==
    /\ <<j, "prepare">> \in net =>
           /\ j \notin committed /\ ~Taken(j)
           /\ pc[j] \notin {"commit", "mark"}
           /\ pc[j] = "prepare" => answer[j] = "none"
    /\ pc[j] \in {"prepare", "commit", "mark"} /\ answer[j] = "same" =>
           /\ ~Taken(j)
           /\ direct = {} /\ stale = {} => req[j] = prev[j]
    /\ pc[j] \in {"prepare", "commit"} /\ answer[j] = "ready" /\ Watched(j) =>
           tid = j /\ tstate = "ready" /\ op = "none"

\* An edit that nobody has overtaken finds the row as it left it.
Untouched(j) ==
    j \notin stale /\ UnderWay(j) => row = IF j \in committed THEN req[j] ELSE prev[j]

\* The job's verdict on an edit, and what the node does about it, are the row's.
Verdict(j) == Watched(j) =>
    /\ phase[j] \in {"committed", "complete"} => j \in committed
    /\ phase[j] \in {"rollback", "rolled_back"} => j \notin committed
    /\ tid = j /\ ~Resolved =>
           /\ j \in committed =>
                  /\ tstate \in {"ready", "committing", "committed"} /\ op # "recover"
                  /\ op = "ask" => asked = "finalize"
           /\ j \notin committed =>
                  /\ tstate \notin {"committing", "committed"} /\ op # "finalize"
                  /\ op = "ask" => asked = "rollback"
           /\ (op = "recover" /\ tstate = "ready") \/ (op = "ask" /\ asked = "rollback") =>
                  Aborted(j)

EditOK(j) == Control(j) /\ Recorded(j) /\ Prepare(j) /\ Untouched(j) /\ Verdict(j)

\* The node works on what an edit asks for, and on no edit twice; as long as
\* edits have jobs and do not overlap, it starts from the row.
PendingInv ==
    /\ ~Resolved => tid \in Job /\ tid \notin applied \cup undone /\ tnext = req[tid]
    /\ direct = {} /\ stale = {} =>
           IF Resolved THEN disk["journal"] = row ELSE tprev = prev[tid]

EditInv == PendingInv /\ \A j \in Job : EditOK(j)

--------------------------------------------------------------------------------
\* A step that leaves the panel's side of edit k as it is, but for messages that
\* are taken from the net and answers that no longer matter.
SamePanel(k) ==
    /\ pc'[k] = pc[k] /\ phase'[k] = phase[k] /\ flight'[k] = flight[k]
    /\ prev'[k] = prev[k] /\ req'[k] = req[k]
    /\ answer'[k] = answer[k] \/ pc[k] \notin {"prepare", "commit", "mark"}
    /\ \A c \in Call : <<k, c>> \in net' => <<k, c>> \in net
    /\ k \in committed' <=> k \in committed
    /\ k \in direct' <=> k \in direct
    /\ direct \subseteq direct' /\ stale \subseteq stale'
    /\ Taken(k)' => Taken(k)
    /\ UnderWay(k)' => UnderWay(k) /\ (row' = row \/ k \in stale')

Early == {"prepared", "rules_added", "switching", "switched", "restarting"}

\* A step that leaves what the node does about edit k as it is, or done with, or
\* interrupted.
SameNode(k) ==
    /\ tid' = k /\ ~Resolved' =>
           /\ tid = k /\ ~Resolved
           /\ \/ tstate' = tstate
              \/ {tstate, tstate'} \subseteq Early
              \/ {tstate, tstate'} \subseteq {"committing", "committed"}
           /\ op' = "none" \/ (op' = op /\ asked' = asked)
    /\ tid = k /\ tstate = "ready" /\ op = "none" => UNCHANGED <<tid, tstate, op>>

LEMMA SamePanelKeeps ==
  ASSUME EditInv, NEW k \in Job, SamePanel(k)
  PROVE  Control(k)' /\ Recorded(k)' /\ Untouched(k)' /\ (Watched(k)' => Watched(k))
<1>0. EditOK(k)
  BY DEF EditInv
<1>1. \A c \in {"prepare", "finalize", "rollback", "direct"} : <<k, c>> \in net' => <<k, c>> \in net
  BY DEF SamePanel, Call
<1>2. Control(k)'
  BY <1>0 DEF EditOK, Control, SamePanel
<1>3. Recorded(k)'
  BY <1>0, <1>1 DEF EditOK, Recorded, SamePanel
<1>4. Untouched(k)'
  BY <1>0 DEF EditOK, Untouched, SamePanel
<1>5. Watched(k)' => Watched(k)
  BY DEF Watched, SamePanel
<1> QED
  BY <1>2, <1>3, <1>4, <1>5

\* Whatever else happens: an edit whose own part stays as it is keeps its
\* invariant.
LEMMA OthersKeep ==
  ASSUME EditInv, NEW k \in Job, SamePanel(k), SameNode(k)
  PROVE  EditOK(k)'
<1>0. /\ EditOK(k)
      /\ Control(k)' /\ Recorded(k)' /\ Untouched(k)' /\ (Watched(k)' => Watched(k))
      /\ <<k, "prepare">> \in net' => <<k, "prepare">> \in net
  BY SamePanelKeeps DEF EditInv, SamePanel, Call
<1>1. Prepare(k)'
  BY <1>0 DEF EditOK, Prepare, SamePanel, SameNode
<1>2. Verdict(k)'
  BY <1>0 DEF EditOK, Verdict, SamePanel, SameNode, Aborted, Early
<1> QED
  BY <1>0, <1>1, <1>2 DEF EditOK

LEMMA WrittenIsRequest ==
  ASSUME TypeOK, NEW j \in Job, row = prev[j]
  PROVE  Written(j) = req[j]
<1>1. req[j] \in Setting
  BY DEF TypeOK
<1>2. \A s \in Setting : s = [host |-> s.host, port |-> s.port]
  BY DEF Setting
<1>3. Written(j) = [host |-> req[j].host, port |-> req[j].port]
  BY DEF Written
<1> QED
  BY <1>1, <1>2, <1>3

LEMMA LoadEdit ==
  ASSUME TypeOK, EditInv, NEW j \in Job, Load(j)
  PROVE  EditInv'
<1>1. EditOK(j) /\ PendingInv
  BY DEF EditInv
<1>2. /\ pc[j] = "idle" /\ pc'[j] = "info" /\ prev'[j] = row /\ phase'[j] = phase[j]
      /\ UNCHANGED <<row, phase, flight, answer, net, committed, direct, stale>>
      /\ UNCHANGED <<txnVars, hostVars, opVars, applied, undone>>
  BY DEF Load, Goto, TypeOK, panelVars, callVars, opVars, history
<1>5. \A k \in Job \ {j} : SamePanel(k) /\ SameNode(k)
  BY <1>2 DEF Load, Goto, TypeOK, SamePanel, SameNode, UnderWay, Taken, Resolved, panelVars, callVars, txnVars, opVars, history
<1>6. Control(j)'
  BY <1>1, <1>2 DEF EditOK, Control, Recorded, Prepare
<1>7. Recorded(j)'
  BY <1>1, <1>2 DEF EditOK, Control, Recorded, Prepare, Taken, Call, txnVars
<1>8. Prepare(j)'
  BY <1>1, <1>2 DEF EditOK, Control, Recorded, Prepare, Taken, Watched, txnVars, opVars
<1>9. Untouched(j)'
  BY <1>1, <1>2 DEF EditOK, Control, Recorded, Prepare, Untouched, UnderWay, Taken, Resolved, txnVars
<1>10. Verdict(j)'
  BY <1>1, <1>2 DEF EditOK, Control, Recorded, Prepare, Untouched, UnderWay, Verdict, Watched, Aborted, Taken, Resolved, Decision, txnVars, opVars
<1>11. PendingInv'
  BY <1>1, <1>2, <1>5 DEF EditOK, Control, Recorded, Prepare, Taken, Untouched, UnderWay, PendingInv, Resolved, TypeOK, SamePanel, txnVars, hostVars
<1> QED
  BY <1>5, <1>6, <1>7, <1>8, <1>9, <1>10, <1>11, OthersKeep DEF EditInv, EditOK

LEMMA CreateEdit ==
  ASSUME TypeOK, EditInv, NEW j \in Job, Create(j)
  PROVE  EditInv'
<1>1. EditOK(j) /\ PendingInv
  BY DEF EditInv
<1>2. /\ pc[j] = "info" /\ pc'[j] = "prepare" /\ phase'[j] = "preparing" /\ flight'[j] = "live"
      /\ answer'[j] = "none" /\ net' = net \cup {<<j, "prepare">>}
      /\ UNCHANGED <<row, prev, req, committed, direct, stale>>
      /\ UNCHANGED <<txnVars, hostVars, opVars, applied, undone>>
  BY DEF Create, SetPhase, Send, Goto, TypeOK, panelVars, callVars, opVars, history
<1>5. \A k \in Job \ {j} : SamePanel(k) /\ SameNode(k)
  BY <1>2 DEF Create, SetPhase, Send, Goto, TypeOK, SamePanel, SameNode, UnderWay, Taken, Resolved, panelVars, callVars, txnVars, opVars, history
<1>6. Control(j)'
  BY <1>1, <1>2 DEF EditOK, Control, Recorded, Prepare
<1>7. Recorded(j)'
  BY <1>1, <1>2 DEF EditOK, Control, Recorded, Prepare, Taken, Call, txnVars
<1>8. Prepare(j)'
  BY <1>1, <1>2 DEF EditOK, Control, Recorded, Prepare, Taken, Watched, txnVars, opVars
<1>9. Untouched(j)'
  BY <1>1, <1>2 DEF EditOK, Control, Recorded, Prepare, Untouched, UnderWay, Taken, Resolved, txnVars
<1>10. Verdict(j)'
  BY <1>1, <1>2 DEF EditOK, Control, Recorded, Prepare, Untouched, UnderWay, Verdict, Watched, Aborted, Taken, Resolved, Decision, txnVars, opVars
<1>11. PendingInv'
  BY <1>1, <1>2 DEF EditOK, Control, Recorded, Prepare, Taken, Untouched, UnderWay, PendingInv, Resolved, txnVars, hostVars
<1> QED
  BY <1>5, <1>6, <1>7, <1>8, <1>9, <1>10, <1>11, OthersKeep DEF EditInv, EditOK

LEMMA DowngradeEdit ==
  ASSUME TypeOK, EditInv, NEW j \in Job, Downgrade(j)
  PROVE  EditInv'
<1>1. EditOK(j) /\ PendingInv
  BY DEF EditInv
<1>2. /\ pc[j] = "info" /\ pc'[j] = "direct" /\ direct' = direct \cup {j}
      /\ answer'[j] = "none" /\ net' = net \cup {<<j, "direct">>}
      /\ UNCHANGED <<row, phase, flight, prev, req, committed, stale>>
      /\ UNCHANGED <<txnVars, hostVars, opVars, applied, undone>>
  BY DEF Downgrade, Send, Goto, TypeOK, panelVars, callVars, opVars, history
<1>5. \A k \in Job \ {j} : SamePanel(k) /\ SameNode(k)
  BY <1>2 DEF Downgrade, Send, Goto, TypeOK, SamePanel, SameNode, UnderWay, Taken, Resolved, panelVars, callVars, txnVars, opVars, history
<1>6. Control(j)'
  BY <1>1, <1>2 DEF EditOK, Control, Recorded, Prepare
<1>7. Recorded(j)'
  BY <1>1, <1>2 DEF EditOK, Control, Recorded, Prepare, Taken, Call, txnVars
<1>8. Prepare(j)'
  BY <1>1, <1>2 DEF EditOK, Control, Recorded, Prepare, Taken, Watched, txnVars, opVars
<1>9. Untouched(j)'
  BY <1>1, <1>2 DEF EditOK, Control, Recorded, Prepare, Untouched, UnderWay, Taken, Resolved, txnVars
<1>10. Verdict(j)'
  BY <1>1, <1>2 DEF EditOK, Control, Recorded, Prepare, Untouched, UnderWay, Verdict, Watched, Aborted, Taken, Resolved, Decision, txnVars, opVars
<1>11. PendingInv'
  BY <1>1, <1>2 DEF EditOK, Control, Recorded, Prepare, Taken, Untouched, UnderWay, PendingInv, Resolved, txnVars, hostVars
<1> QED
  BY <1>5, <1>6, <1>7, <1>8, <1>9, <1>10, <1>11, OthersKeep DEF EditInv, EditOK

LEMMA DirectAnsweredEdit ==
  ASSUME TypeOK, EditInv, NEW j \in Job, DirectAnswered(j)
  PROVE  EditInv'
<1>1. EditOK(j) /\ PendingInv
  BY DEF EditInv
<1>2. /\ pc[j] = "direct" /\ pc'[j] \in {"write", "done"}
      /\ UNCHANGED <<row, phase, flight, prev, req, answer, net, committed, direct, stale>>
      /\ UNCHANGED <<txnVars, hostVars, opVars, applied, undone>>
  BY DEF DirectAnswered, Goto, TypeOK, panelVars, callVars, opVars, history
<1>5. \A k \in Job \ {j} : SamePanel(k) /\ SameNode(k)
  BY <1>2 DEF DirectAnswered, Goto, TypeOK, SamePanel, SameNode, UnderWay, Taken, Resolved, panelVars, callVars, txnVars, opVars, history
<1>6. Control(j)'
  BY <1>1, <1>2 DEF EditOK, Control, Recorded, Prepare
<1>7. Recorded(j)'
  BY <1>1, <1>2 DEF EditOK, Control, Recorded, Prepare, Taken, Call, txnVars
<1>8. Prepare(j)'
  BY <1>1, <1>2 DEF EditOK, Control, Recorded, Prepare, Taken, Watched, txnVars, opVars
<1>9. Untouched(j)'
  BY <1>1, <1>2 DEF EditOK, Control, Recorded, Prepare, Untouched, UnderWay, Taken, Resolved, txnVars
<1>10. Verdict(j)'
  BY <1>1, <1>2 DEF EditOK, Control, Recorded, Prepare, Untouched, UnderWay, Verdict, Watched, Aborted, Taken, Resolved, Decision, txnVars, opVars
<1>11. PendingInv'
  BY <1>1, <1>2 DEF EditOK, Control, Recorded, Prepare, Taken, Untouched, UnderWay, PendingInv, Resolved, txnVars, hostVars
<1> QED
  BY <1>5, <1>6, <1>7, <1>8, <1>9, <1>10, <1>11, OthersKeep DEF EditInv, EditOK

LEMMA WriteDirectEdit ==
  ASSUME TypeOK, EditInv, NEW j \in Job, WriteDirect(j)
  PROVE  EditInv'
<1>1. EditOK(j) /\ PendingInv
  BY DEF EditInv
<1>2. /\ pc[j] = "write" /\ pc'[j] = "done" /\ row' = Written(j)
      /\ committed' = committed \cup {j} /\ stale' = Overtaken(j)
      /\ UNCHANGED <<phase, flight, prev, req, answer, net, direct>>
      /\ UNCHANGED <<txnVars, hostVars, opVars, applied, undone>>
  BY DEF WriteDirect, Goto, TypeOK, panelVars, callVars, opVars, history
<1>3. j \notin stale => row = prev[j] /\ row' = req[j]
  BY <1>1, <1>2, WrittenIsRequest DEF EditOK, Control, Recorded, Untouched, UnderWay
<1>4. stale \subseteq stale' /\ j \notin stale' \ stale
  BY <1>2 DEF Overtaken
<1>5. \A k \in Job \ {j} : SamePanel(k) /\ SameNode(k)
  BY <1>2 DEF WriteDirect, Goto, Overtaken, TypeOK, SamePanel, SameNode, UnderWay, Taken, Resolved, panelVars, callVars, txnVars, opVars, history
<1>6. Control(j)'
  BY <1>1, <1>2 DEF EditOK, Control, Recorded, Prepare
<1>7. Recorded(j)'
  BY <1>1, <1>2 DEF EditOK, Control, Recorded, Prepare, Taken, Call, txnVars
<1>8. Prepare(j)'
  BY <1>1, <1>2, <1>3, <1>4 DEF EditOK, Control, Recorded, Prepare, Taken, Watched, txnVars, opVars
<1>9. Untouched(j)'
  BY <1>1, <1>2, <1>3, <1>4 DEF EditOK, Control, Recorded, Prepare, Untouched, UnderWay, Taken, Resolved, txnVars
<1>10. Verdict(j)'
  BY <1>1, <1>2, <1>3, <1>4 DEF EditOK, Control, Recorded, Prepare, Untouched, UnderWay, Verdict, Watched, Aborted, Taken, Resolved, Decision, txnVars, opVars
<1>11. PendingInv'
  BY <1>1, <1>2, <1>3, <1>4 DEF EditOK, Control, Recorded, Prepare, Taken, Untouched, UnderWay, PendingInv, Resolved, Watched, txnVars, hostVars
<1> QED
  BY <1>5, <1>6, <1>7, <1>8, <1>9, <1>10, <1>11, OthersKeep DEF EditInv, EditOK

LEMMA PrepareAnsweredEdit ==
  ASSUME TypeOK, EditInv, NEW j \in Job, PrepareAnswered(j)
  PROVE  EditInv'
<1>1. EditOK(j) /\ PendingInv
  BY DEF EditInv
<1>2. /\ pc[j] = "prepare" /\ answer[j] \in {"ready", "same"}
      /\ pc'[j] = "commit" /\ phase'[j] = "ready"
      /\ UNCHANGED <<row, flight, prev, req, answer, net, committed, direct, stale>>
      /\ UNCHANGED <<txnVars, hostVars, opVars, applied, undone>>
  BY DEF PrepareAnswered, SetPhase, Goto, TypeOK, panelVars, callVars, opVars, history
<1>5. \A k \in Job \ {j} : SamePanel(k) /\ SameNode(k)
  BY <1>2 DEF PrepareAnswered, SetPhase, Goto, TypeOK, SamePanel, SameNode, UnderWay, Taken, Resolved, panelVars, callVars, txnVars, opVars, history
<1>6. Control(j)'
  BY <1>1, <1>2 DEF EditOK, Control, Recorded, Prepare
<1>7. Recorded(j)'
  BY <1>1, <1>2 DEF EditOK, Control, Recorded, Prepare, Taken, Call, txnVars
<1>8. Prepare(j)'
  BY <1>1, <1>2 DEF EditOK, Control, Recorded, Prepare, Taken, Watched, txnVars, opVars
<1>9. Untouched(j)'
  BY <1>1, <1>2 DEF EditOK, Control, Recorded, Prepare, Untouched, UnderWay, Taken, Resolved, txnVars
<1>10. Verdict(j)'
  BY <1>1, <1>2 DEF EditOK, Control, Recorded, Prepare, Untouched, UnderWay, Verdict, Watched, Aborted, Taken, Resolved, Decision, txnVars, opVars
<1>11. PendingInv'
  BY <1>1, <1>2 DEF EditOK, Control, Recorded, Prepare, Taken, Untouched, UnderWay, PendingInv, Resolved, txnVars, hostVars
<1> QED
  BY <1>5, <1>6, <1>7, <1>8, <1>9, <1>10, <1>11, OthersKeep DEF EditInv, EditOK

LEMMA PrepareFailedEdit ==
  ASSUME TypeOK, EditInv, NEW j \in Job, PrepareFailed(j)
  PROVE  EditInv'
<1>1. EditOK(j) /\ PendingInv
  BY DEF EditInv
<1>2. /\ pc[j] = "prepare" /\ pc'[j] = "decide"
      /\ UNCHANGED <<row, phase, flight, prev, req, answer, net, committed, direct, stale>>
      /\ UNCHANGED <<txnVars, hostVars, opVars, applied, undone>>
  BY DEF PrepareFailed, Goto, TypeOK, panelVars, callVars, opVars, history
<1>5. \A k \in Job \ {j} : SamePanel(k) /\ SameNode(k)
  BY <1>2 DEF PrepareFailed, Goto, TypeOK, SamePanel, SameNode, UnderWay, Taken, Resolved, panelVars, callVars, txnVars, opVars, history
<1>6. Control(j)'
  BY <1>1, <1>2 DEF EditOK, Control, Recorded, Prepare
<1>7. Recorded(j)'
  BY <1>1, <1>2 DEF EditOK, Control, Recorded, Prepare, Taken, Call, txnVars
<1>8. Prepare(j)'
  BY <1>1, <1>2 DEF EditOK, Control, Recorded, Prepare, Taken, Watched, txnVars, opVars
<1>9. Untouched(j)'
  BY <1>1, <1>2 DEF EditOK, Control, Recorded, Prepare, Untouched, UnderWay, Taken, Resolved, txnVars
<1>10. Verdict(j)'
  BY <1>1, <1>2 DEF EditOK, Control, Recorded, Prepare, Untouched, UnderWay, Verdict, Watched, Aborted, Taken, Resolved, Decision, txnVars, opVars
<1>11. PendingInv'
  BY <1>1, <1>2 DEF EditOK, Control, Recorded, Prepare, Taken, Untouched, UnderWay, PendingInv, Resolved, txnVars, hostVars
<1> QED
  BY <1>5, <1>6, <1>7, <1>8, <1>9, <1>10, <1>11, OthersKeep DEF EditInv, EditOK

LEMMA CommitRowEdit ==
  ASSUME TypeOK, EditInv, NEW j \in Job, CommitRow(j)
  PROVE  EditInv'
<1>1. EditOK(j) /\ PendingInv
  BY DEF EditInv
<1>2. /\ pc[j] = "commit" /\ pc'[j] \in {"mark", "decide"} /\ row' = Written(j)
      /\ committed' = committed \cup {j} /\ stale' = Overtaken(j)
      /\ UNCHANGED <<phase, flight, prev, req, answer, net, direct>>
      /\ UNCHANGED <<txnVars, hostVars, opVars, applied, undone>>
  BY DEF CommitRow, Goto, TypeOK, panelVars, callVars, opVars, history
<1>3. j \notin stale => row = prev[j] /\ row' = req[j]
  BY <1>1, <1>2, WrittenIsRequest DEF EditOK, Control, Recorded, Untouched, UnderWay
<1>4. stale \subseteq stale' /\ j \notin stale' \ stale
  BY <1>2 DEF Overtaken
<1>5. \A k \in Job \ {j} : SamePanel(k) /\ SameNode(k)
  <2> SUFFICES ASSUME NEW k \in Job \ {j}
               PROVE  SamePanel(k) /\ SameNode(k)
    OBVIOUS
  <2>1. pc'[k] = pc[k]
    BY DEF CommitRow, Goto, TypeOK
  <2>2. SameNode(k)
    BY <1>2 DEF SameNode, Resolved, txnVars, opVars
  <2>3. UnderWay(k)' => UnderWay(k)
    BY <1>2, <2>1 DEF UnderWay, Resolved, txnVars
  <2>5. UnderWay(k) => row' = row \/ k \in stale'
    BY <1>2 DEF Overtaken
  <2>4. Taken(k)' => Taken(k)
    BY <1>2, <2>1 DEF Taken, txnVars
  <2> QED
    BY <1>2, <1>4, <2>1, <2>2, <2>3, <2>4, <2>5 DEF SamePanel
<1>6. Control(j)'
  BY <1>1, <1>2 DEF EditOK, Control, Recorded, Prepare
<1>7. Recorded(j)'
  BY <1>1, <1>2 DEF EditOK, Control, Recorded, Prepare, Taken, Call, txnVars
<1>8. Prepare(j)'
  BY <1>1, <1>2, <1>3, <1>4 DEF EditOK, Control, Recorded, Prepare, Taken, Watched, txnVars, opVars
<1>9. Untouched(j)'
  BY <1>1, <1>2, <1>3, <1>4 DEF EditOK, Control, Recorded, Prepare, Untouched, UnderWay, Taken, Resolved, txnVars
<1>10. Verdict(j)'
  BY <1>1, <1>2, <1>3, <1>4 DEF EditOK, Control, Recorded, Prepare, Untouched, UnderWay, Verdict, Watched, Aborted, Taken, Resolved, Decision, txnVars, opVars
<1>11. PendingInv'
  BY <1>1, <1>2, <1>3, <1>4 DEF EditOK, Control, Recorded, Prepare, Taken, Untouched, UnderWay, PendingInv, Resolved, Watched, txnVars, hostVars
<1> QED
  BY <1>5, <1>6, <1>7, <1>8, <1>9, <1>10, <1>11, OthersKeep DEF EditInv, EditOK

LEMMA CommitFailsEdit ==
  ASSUME TypeOK, EditInv, NEW j \in Job, CommitFails(j)
  PROVE  EditInv'
<1>1. EditOK(j) /\ PendingInv
  BY DEF EditInv
<1>2. /\ pc[j] = "commit" /\ pc'[j] = "decide"
      /\ UNCHANGED <<row, phase, flight, prev, req, answer, net, committed, direct, stale>>
      /\ UNCHANGED <<txnVars, hostVars, opVars, applied, undone>>
  BY DEF CommitFails, Goto, TypeOK, panelVars, callVars, opVars, history
<1>5. \A k \in Job \ {j} : SamePanel(k) /\ SameNode(k)
  BY <1>2 DEF CommitFails, Goto, TypeOK, SamePanel, SameNode, UnderWay, Taken, Resolved, panelVars, callVars, txnVars, opVars, history
<1>6. Control(j)'
  BY <1>1, <1>2 DEF EditOK, Control, Recorded, Prepare
<1>7. Recorded(j)'
  BY <1>1, <1>2 DEF EditOK, Control, Recorded, Prepare, Taken, Call, txnVars
<1>8. Prepare(j)'
  BY <1>1, <1>2 DEF EditOK, Control, Recorded, Prepare, Taken, Watched, txnVars, opVars
<1>9. Untouched(j)'
  BY <1>1, <1>2 DEF EditOK, Control, Recorded, Prepare, Untouched, UnderWay, Taken, Resolved, txnVars
<1>10. Verdict(j)'
  BY <1>1, <1>2 DEF EditOK, Control, Recorded, Prepare, Untouched, UnderWay, Verdict, Watched, Aborted, Taken, Resolved, Decision, txnVars, opVars
<1>11. PendingInv'
  BY <1>1, <1>2 DEF EditOK, Control, Recorded, Prepare, Taken, Untouched, UnderWay, PendingInv, Resolved, txnVars, hostVars
<1> QED
  BY <1>5, <1>6, <1>7, <1>8, <1>9, <1>10, <1>11, OthersKeep DEF EditInv, EditOK

LEMMA MarkCommittedEdit ==
  ASSUME TypeOK, EditInv, NEW j \in Job, MarkCommitted(j)
  PROVE  EditInv'
<1>1. EditOK(j) /\ PendingInv
  BY DEF EditInv
<1>2. /\ pc[j] = "mark"
      /\ \/ pc'[j] = "done" /\ phase'[j] = "complete" /\ net' = net
         \/ /\ pc'[j] = "finalize" /\ phase'[j] = "committed" /\ flight' = flight
            /\ net' = net \cup {<<j, "finalize">>}
      /\ UNCHANGED <<row, prev, req, committed, direct, stale>>
      /\ UNCHANGED <<txnVars, hostVars, opVars, applied, undone>>
  BY DEF MarkCommitted, SetPhase, Send, Leave, Goto, TypeOK, panelVars, callVars, opVars, history
<1>5. \A k \in Job \ {j} : SamePanel(k) /\ SameNode(k)
  BY <1>2 DEF MarkCommitted, SetPhase, Send, Leave, Goto, TypeOK, SamePanel, SameNode, UnderWay, Taken, Resolved, panelVars, callVars, txnVars, opVars, history
<1>6. Control(j)'
  BY <1>1, <1>2 DEF EditOK, Control, Recorded, Prepare
<1>7. Recorded(j)'
  BY <1>1, <1>2 DEF EditOK, Control, Recorded, Prepare, Taken, Call, txnVars
<1>8. Prepare(j)'
  BY <1>1, <1>2 DEF EditOK, Control, Recorded, Prepare, Taken, Watched, txnVars, opVars
<1>9. Untouched(j)'
  BY <1>1, <1>2 DEF EditOK, Control, Recorded, Prepare, Untouched, UnderWay, Taken, Resolved, txnVars
<1>10. Verdict(j)'
  BY <1>1, <1>2 DEF EditOK, Control, Recorded, Prepare, Untouched, UnderWay, Verdict, Watched, Aborted, Taken, Resolved, Decision, txnVars, opVars
<1>11. PendingInv'
  BY <1>1, <1>2 DEF EditOK, Control, Recorded, Prepare, Taken, Untouched, UnderWay, PendingInv, Resolved, txnVars, hostVars
<1> QED
  BY <1>5, <1>6, <1>7, <1>8, <1>9, <1>10, <1>11, OthersKeep DEF EditInv, EditOK

LEMMA DecideFinalizeEdit ==
  ASSUME TypeOK, EditInv, NEW j \in Job, DecideFinalize(j)
  PROVE  EditInv'
<1>1. EditOK(j) /\ PendingInv
  BY DEF EditInv
<1>2. /\ pc[j] = "decide" /\ Decision(j, FALSE) = "finalize"
      /\ pc'[j] = "finalize" /\ phase'[j] = "committed" /\ net' = net \cup {<<j, "finalize">>}
      /\ UNCHANGED <<row, flight, prev, req, committed, direct, stale>>
      /\ UNCHANGED <<txnVars, hostVars, opVars, applied, undone>>
  BY DEF DecideFinalize, SetPhase, Send, Goto, TypeOK, panelVars, callVars, opVars, history
<1>5. \A k \in Job \ {j} : SamePanel(k) /\ SameNode(k)
  BY <1>2 DEF DecideFinalize, SetPhase, Send, Goto, TypeOK, SamePanel, SameNode, UnderWay, Taken, Resolved, panelVars, callVars, txnVars, opVars, history
<1>6. Control(j)'
  BY <1>1, <1>2 DEF EditOK, Control, Recorded, Prepare
<1>7. Recorded(j)'
  BY <1>1, <1>2 DEF EditOK, Control, Recorded, Prepare, Taken, Call, txnVars
<1>8. Prepare(j)'
  BY <1>1, <1>2 DEF EditOK, Control, Recorded, Prepare, Taken, Watched, txnVars, opVars
<1>9. Untouched(j)'
  BY <1>1, <1>2 DEF EditOK, Control, Recorded, Prepare, Untouched, UnderWay, Taken, Resolved, txnVars
<1>10. Verdict(j)'
  BY <1>1, <1>2 DEF EditOK, Control, Recorded, Prepare, Untouched, UnderWay, Verdict, Watched, Aborted, Taken, Resolved, Decision, txnVars, opVars
<1>11. PendingInv'
  BY <1>1, <1>2 DEF EditOK, Control, Recorded, Prepare, Taken, Untouched, UnderWay, PendingInv, Resolved, txnVars, hostVars
<1> QED
  BY <1>5, <1>6, <1>7, <1>8, <1>9, <1>10, <1>11, OthersKeep DEF EditInv, EditOK

LEMMA DecideRollbackEdit ==
  ASSUME TypeOK, EditInv, NEW j \in Job, DecideRollback(j)
  PROVE  EditInv'
<1>1. EditOK(j) /\ PendingInv
  BY DEF EditInv
<1>2. /\ pc[j] = "decide" /\ Decision(j, FALSE) = "rollback"
      /\ pc'[j] = "rollback" /\ phase'[j] = "rollback" /\ net' = net \cup {<<j, "rollback">>}
      /\ UNCHANGED <<row, flight, prev, req, committed, direct, stale>>
      /\ UNCHANGED <<txnVars, hostVars, opVars, applied, undone>>
  BY DEF DecideRollback, SetPhase, Send, Goto, TypeOK, panelVars, callVars, opVars, history
<1>5. \A k \in Job \ {j} : SamePanel(k) /\ SameNode(k)
  BY <1>2 DEF DecideRollback, SetPhase, Send, Goto, TypeOK, SamePanel, SameNode, UnderWay, Taken, Resolved, panelVars, callVars, txnVars, opVars, history
<1>6. Control(j)'
  BY <1>1, <1>2 DEF EditOK, Control, Recorded, Prepare
<1>7. Recorded(j)'
  BY <1>1, <1>2 DEF EditOK, Control, Recorded, Prepare, Taken, Call, txnVars
<1>8. Prepare(j)'
  BY <1>1, <1>2 DEF EditOK, Control, Recorded, Prepare, Taken, Watched, txnVars, opVars
<1>9. Untouched(j)'
  BY <1>1, <1>2 DEF EditOK, Control, Recorded, Prepare, Untouched, UnderWay, Taken, Resolved, txnVars
<1>10. Verdict(j)'
  BY <1>1, <1>2 DEF EditOK, Control, Recorded, Prepare, Untouched, UnderWay, Verdict, Watched, Aborted, Taken, Resolved, Decision, txnVars, opVars
<1>11. PendingInv'
  BY <1>1, <1>2 DEF EditOK, Control, Recorded, Prepare, Taken, Untouched, UnderWay, PendingInv, Resolved, txnVars, hostVars
<1> QED
  BY <1>5, <1>6, <1>7, <1>8, <1>9, <1>10, <1>11, OthersKeep DEF EditInv, EditOK

LEMMA DecidePendingEdit ==
  ASSUME TypeOK, EditInv, NEW j \in Job, DecidePending(j)
  PROVE  EditInv'
<1>1. EditOK(j) /\ PendingInv
  BY DEF EditInv
<1>2. /\ pc[j] = "decide" /\ pc'[j] = "done"
      /\ UNCHANGED <<row, phase, prev, req, net, committed, direct, stale>>
      /\ UNCHANGED <<txnVars, hostVars, opVars, applied, undone>>
  BY DEF DecidePending, Leave, Goto, TypeOK, panelVars, callVars, opVars, history
<1>5. \A k \in Job \ {j} : SamePanel(k) /\ SameNode(k)
  BY <1>2 DEF DecidePending, Leave, Goto, TypeOK, SamePanel, SameNode, UnderWay, Taken, Resolved, panelVars, callVars, txnVars, opVars, history
<1>6. Control(j)'
  BY <1>1, <1>2 DEF EditOK, Control, Recorded, Prepare
<1>7. Recorded(j)'
  BY <1>1, <1>2 DEF EditOK, Control, Recorded, Prepare, Taken, Call, txnVars
<1>8. Prepare(j)'
  BY <1>1, <1>2 DEF EditOK, Control, Recorded, Prepare, Taken, Watched, txnVars, opVars
<1>9. Untouched(j)'
  BY <1>1, <1>2 DEF EditOK, Control, Recorded, Prepare, Untouched, UnderWay, Taken, Resolved, txnVars
<1>10. Verdict(j)'
  BY <1>1, <1>2 DEF EditOK, Control, Recorded, Prepare, Untouched, UnderWay, Verdict, Watched, Aborted, Taken, Resolved, Decision, txnVars, opVars
<1>11. PendingInv'
  BY <1>1, <1>2 DEF EditOK, Control, Recorded, Prepare, Taken, Untouched, UnderWay, PendingInv, Resolved, txnVars, hostVars
<1> QED
  BY <1>5, <1>6, <1>7, <1>8, <1>9, <1>10, <1>11, OthersKeep DEF EditInv, EditOK

LEMMA SettledEdit ==
  ASSUME TypeOK, EditInv, NEW j \in Job, Settled(j)
  PROVE  EditInv'
<1>1. EditOK(j) /\ PendingInv
  BY DEF EditInv
<1>2. /\ pc[j] \in {"finalize", "rollback"} /\ pc'[j] = "done"
      /\ phase'[j] \in {phase[j], IF pc[j] = "finalize" THEN "complete" ELSE "rolled_back"}
      /\ UNCHANGED <<row, prev, req, net, committed, direct, stale>>
      /\ UNCHANGED <<txnVars, hostVars, opVars, applied, undone>>
  BY DEF Settled, SetPhase, Leave, Goto, TypeOK, panelVars, callVars, opVars, history
<1>5. \A k \in Job \ {j} : SamePanel(k) /\ SameNode(k)
  BY <1>2 DEF Settled, SetPhase, Leave, Goto, TypeOK, SamePanel, SameNode, UnderWay, Taken, Resolved, panelVars, callVars, txnVars, opVars, history
<1>6. Control(j)'
  BY <1>1, <1>2 DEF EditOK, Control, Recorded, Prepare
<1>7. Recorded(j)'
  BY <1>1, <1>2 DEF EditOK, Control, Recorded, Prepare, Taken, Call, txnVars
<1>8. Prepare(j)'
  BY <1>1, <1>2 DEF EditOK, Control, Recorded, Prepare, Taken, Watched, txnVars, opVars
<1>9. Untouched(j)'
  BY <1>1, <1>2 DEF EditOK, Control, Recorded, Prepare, Untouched, UnderWay, Taken, Resolved, txnVars
<1>10. Verdict(j)'
  BY <1>1, <1>2 DEF EditOK, Control, Recorded, Prepare, Untouched, UnderWay, Verdict, Watched, Aborted, Taken, Resolved, Decision, txnVars, opVars
<1>11. PendingInv'
  BY <1>1, <1>2 DEF EditOK, Control, Recorded, Prepare, Taken, Untouched, UnderWay, PendingInv, Resolved, txnVars, hostVars
<1> QED
  BY <1>5, <1>6, <1>7, <1>8, <1>9, <1>10, <1>11, OthersKeep DEF EditInv, EditOK

LEMMA PanelCrashEdit ==
  ASSUME TypeOK, EditInv, PanelCrash
  PROVE  EditInv'
<1>1. /\ pc' = [j \in Job |-> IF pc[j] = "idle" THEN "idle" ELSE "done"]
      /\ flight' = [j \in Job |-> IF flight[j] = "live" THEN "dead" ELSE flight[j]]
      /\ UNCHANGED <<row, phase, prev, req, answer, net, committed, applied, undone, direct, stale>>
      /\ UNCHANGED <<txnVars, hostVars, opVars>>
  BY DEF PanelCrash, history
<1>2. ASSUME NEW k \in Job
      PROVE  EditOK(k)'
  <2>1. EditOK(k)
    BY DEF EditInv
  <2>2. Control(k)'
    BY <1>1, <2>1 DEF EditOK, Control
  <2>3. Recorded(k)'
    BY <1>1, <2>1 DEF EditOK, Control, Recorded, Taken, txnVars
  <2>4. Prepare(k)'
    BY <1>1, <2>1 DEF EditOK, Prepare, Taken, txnVars
  <2>5. Untouched(k)'
    BY <1>1, <2>1 DEF EditOK, Untouched, UnderWay, Resolved, txnVars
  <2>6. Verdict(k)'
    BY <1>1, <2>1 DEF EditOK, Control, Recorded, Verdict, Watched, Aborted, Taken, Resolved, txnVars, opVars
  <2> QED
    BY <2>2, <2>3, <2>4, <2>5, <2>6 DEF EditOK
<1>3. PendingInv'
  BY <1>1 DEF EditInv, PendingInv, Resolved, txnVars, hostVars
<1> QED
  BY <1>2, <1>3 DEF EditInv

\* The panel does not see what the helper does in the middle of a change, nor
\* that it dies; a call may be refused.
LEMMA HostStepEdit ==
  ASSUME IInv, EditInv,
         \/ AddRules \/ Switched \/ RestartNext \/ SwitchJournal
         \/ \E f \in File : SwitchFile(f) \/ RestoreFile(f)
         \/ \E j \in Job, c \in Call : Refuse(j, c)
         \/ HelperCrash \/ Reboot
  PROVE  EditInv'
<1>1. /\ UNCHANGED <<panelVars, pc, history, tid, tprev, tnext>>
      /\ answer' = answer /\ net' \subseteq net
      /\ \/ tstate' = tstate
         \/ {tstate, tstate'} \subseteq Early
         \/ {tstate, tstate'} \subseteq {"committing", "committed"}
      /\ op' = "none" \/ (op' = op /\ asked' = asked)
      /\ disk' = disk \/ ~Resolved
  <2>1. CASE AddRules \/ Switched \/ RestartNext \/ SwitchJournal \/ \E f \in File : SwitchFile(f) \/ RestoreFile(f)
    BY <2>1 DEF IInv, OpInv, Undoing, Resolved, AddRules, Switched, RestartNext, SwitchJournal, SwitchFile,
       RestoreFile, Early, callVars, txnVars, hostVars, opVars
  <2>2. CASE \E j \in Job, c \in Call : Refuse(j, c)
    BY <2>2 DEF Refuse, Take, txnVars, hostVars, opVars
  <2>3. CASE HelperCrash
    BY <2>3 DEF HelperCrash, Finish, txnVars, hostVars
  <2>4. CASE Reboot
    BY <2>4 DEF Reboot, Finish, txnVars, opVars
  <2> QED
    BY <2>1, <2>2, <2>3, <2>4
<1>2. UNCHANGED <<row, phase, prev, req, flight, committed, applied, undone, direct, stale>>
  BY <1>1 DEF panelVars, history
<1>3. Resolved' = Resolved
  BY <1>1 DEF Resolved, Early
<1>4. ASSUME NEW k \in Job
      PROVE  SamePanel(k) /\ SameNode(k)
  <2>1. SamePanel(k)
    BY <1>1, <1>2, <1>3 DEF SamePanel, Taken, UnderWay
  <2>2. SameNode(k)
    BY <1>1, <1>3 DEF SameNode, Early
  <2> QED
    BY <2>1, <2>2
<1>5. PendingInv'
  BY <1>1, <1>2, <1>3 DEF EditInv, PendingInv
<1> QED
  BY <1>4, <1>5, OthersKeep DEF EditInv

\* An answer without any change, and a call that is taken up.
LEMMA AnswerEdit ==
  ASSUME IInv, EditInv, NEW j \in Job, NEW c \in Call,
         PrepareSame(j, c) \/ FinalizeAgain(j) \/ RollbackAgain(j)
  PROVE  EditInv'
<1>1. /\ UNCHANGED <<panelVars, pc, history, txnVars, hostVars, op, asked>>
      /\ net' \subseteq net
      /\ \A k \in Job \ {j} : answer'[k] = answer[k]
      /\ \/ answer'[j] = answer[j]
         \/ pc[j] \notin {"prepare", "commit", "mark"}
         \/ PrepareSame(j, c) /\ pc[j] = c /\ answer'[j] = "same"
  BY DEF IInv, TypeOK, PrepareSame, FinalizeAgain, RollbackAgain, Take, Reply, opVars
<1>2. UNCHANGED <<row, phase, prev, req, flight, committed, applied, undone, direct, stale, tid, tstate>>
  BY <1>1 DEF panelVars, history, txnVars
<1>3. \A k \in Job : SameNode(k)
  BY <1>1, <1>2 DEF SameNode, Resolved
<1>4. \A k \in Job \ {j} : SamePanel(k)
  BY <1>1, <1>2 DEF SamePanel, Taken, UnderWay, Resolved
<1>5. PendingInv'
  BY <1>1, <1>2 DEF EditInv, PendingInv, Resolved, txnVars, hostVars
<1>6. EditOK(j)'
  <2>1. CASE answer'[j] = answer[j] \/ pc[j] \notin {"prepare", "commit", "mark"}
    <3>1. SamePanel(j)
      BY <1>1, <1>2, <2>1 DEF SamePanel, Taken, UnderWay, Resolved
    <3> QED
      BY <1>3, <3>1, OthersKeep
  <2>2. CASE PrepareSame(j, c) /\ pc[j] = c /\ answer'[j] = "same"
    <3>1. EditOK(j) /\ PendingInv
      BY DEF EditInv
    <3>2. /\ <<j, c>> \in net /\ net' = net \ {<<j, c>>}
          /\ Resolved /\ disk["journal"] = req[j]
      BY <2>2 DEF PrepareSame, Take
    <3>3. c = "prepare" \/ c = "direct"
      BY <2>2 DEF PrepareSame
    <3>4. CASE c = "direct"
      <4>1. SamePanel(j)
        BY <1>1, <1>2, <2>2, <3>4 DEF SamePanel, Taken, UnderWay, Resolved
      <4> QED
        BY <1>3, <4>1, OthersKeep
    <3>5. CASE c = "prepare"
      <4>1. Control(j)' /\ Recorded(j)' /\ Verdict(j)'
        BY <1>1, <1>2, <2>2, <3>1, <3>5 DEF EditOK, Control, Recorded, Verdict, Watched, Aborted, Taken, Resolved
      <4>2. UnderWay(j) /\ (Untouched(j)')
        BY <1>1, <1>2, <2>2, <3>1, <3>5 DEF EditOK, Untouched, UnderWay, Resolved
      <4>3. direct = {} /\ stale = {} => req[j] = prev[j]
        BY <3>1, <3>2, <3>5, <4>2 DEF EditOK, Untouched, Prepare, PendingInv
      <4>4. Prepare(j)'
        BY <1>1, <1>2, <2>2, <3>1, <3>2, <3>5, <4>3 DEF EditOK, Prepare, Taken
      <4> QED
        BY <4>1, <4>2, <4>4 DEF EditOK
    <3> QED
      BY <3>3, <3>4, <3>5
  <2> QED
    BY <1>1, <2>1, <2>2
<1> QED
  BY <1>3, <1>4, <1>5, <1>6, OthersKeep DEF EditInv

LEMMA ServePrepareEdit ==
  ASSUME IInv, EditInv, NEW j \in Job, NEW c \in Call, ServePrepare(j, c)
  PROVE  EditInv'
<1>1. /\ op = "none" /\ op' = "apply" /\ Resolved
      /\ <<j, c>> \in net /\ net' = net \ {<<j, c>>}
      /\ tid' = j /\ tprev' = disk["journal"] /\ tnext' = req[j] /\ tstate' = "prepared"
      /\ c \in {"prepare", "direct"}
      /\ UNCHANGED <<row, phase, prev, req, flight, pc, answer, disk, asked>>
      /\ UNCHANGED <<committed, applied, undone, direct, stale>>
  BY DEF ServePrepare, Take, panelVars, history
<1>2. EditOK(j) /\ PendingInv /\ ~Resolved'
  BY <1>1 DEF EditInv, Resolved
<1>3. \A k \in Job \ {j} : SamePanel(k) /\ SameNode(k)
  BY <1>1 DEF SamePanel, SameNode, Taken, UnderWay, Resolved
<1>4. CASE c = "prepare"
  <2>1. Control(j)'
    BY <1>1, <1>2 DEF EditOK, Control
  <2>2. Recorded(j)'
    BY <1>1, <1>2, <1>4 DEF EditOK, Recorded
  <2>3. Prepare(j)'
    BY <1>1, <1>2, <1>4 DEF EditOK, Prepare
  <2>4. Untouched(j)'
    BY <1>1, <1>2, <1>4 DEF EditOK, Untouched, UnderWay
  <2>5. Verdict(j)'
    BY <1>1, <1>2, <1>4 DEF EditOK, Verdict, Watched, Prepare, Aborted
  <2>6. PendingInv'
    BY <1>1, <1>2, <1>4, <2>4 DEF EditOK, PendingInv, Prepare, Untouched, UnderWay, Taken, Resolved
  <2> QED
    BY <1>3, <2>1, <2>2, <2>3, <2>4, <2>5, <2>6, OthersKeep DEF EditInv, EditOK
<1>5. CASE c = "direct"
  <2>1. j \in direct /\ phase[j] = "none" /\ ~Taken(j)
    BY <1>1, <1>2, <1>5 DEF EditOK, Recorded
  <2>2. Control(j)'
    BY <1>1, <1>2 DEF EditOK, Control
  <2>3. Recorded(j)'
    BY <1>1, <1>2, <1>5, <2>1 DEF EditOK, Recorded
  <2>4. Prepare(j)'
    BY <1>1, <1>2, <1>5, <2>1 DEF EditOK, Recorded, Prepare, Watched
  <2>5. Untouched(j)'
    BY <1>1, <1>2, <1>5 DEF EditOK, Untouched, UnderWay
  <2>6. Verdict(j)'
    BY <1>1, <2>1 DEF Verdict, Watched
  <2>7. PendingInv'
    BY <1>1, <1>2, <2>1 DEF PendingInv, Taken
  <2> QED
    BY <1>3, <2>2, <2>3, <2>4, <2>5, <2>6, <2>7, OthersKeep DEF EditInv, EditOK
<1> QED
  BY <1>1, <1>4, <1>5

\* Steps on the pending edit: the others keep their part, and so does the panel's
\* side of the edit itself.
LEMMA PendingKeeps ==
  ASSUME EditInv,
         UNCHANGED <<row, phase, prev, req, flight, pc, committed, direct, stale, tid>>,
         net' \subseteq net,
         \A k \in Job : answer'[k] = answer[k] \/ k = tid,
         tid \in Job => answer'[tid] = answer[tid] \/ pc[tid] \notin {"commit", "mark"},
         applied' \cup undone' \subseteq applied \cup undone \cup {tid},
         Resolved => Resolved'
  PROVE  /\ \A k \in Job \ {tid} : EditOK(k)'
         /\ tid \in Job => Control(tid)' /\ Recorded(tid)' /\ Untouched(tid)'
         /\ \A k \in Job : (Taken(k)' => Taken(k)) /\ (UnderWay(k)' => UnderWay(k))
<1>1. \A k \in Job : (Taken(k)' => Taken(k)) /\ (UnderWay(k)' => UnderWay(k))
  BY DEF Taken, UnderWay
<1>2. \A k \in Job \ {tid} : SamePanel(k) /\ SameNode(k)
  BY <1>1 DEF SamePanel, SameNode
<1>3. ASSUME tid \in Job
      PROVE  Control(tid)' /\ Recorded(tid)' /\ Untouched(tid)'
  <2>1. EditOK(tid)
    BY <1>3 DEF EditInv
  <2>2. Control(tid)'
    BY <1>3, <2>1 DEF EditOK, Control
  <2>3. Recorded(tid)'
    BY <1>1, <1>3, <2>1 DEF EditOK, Recorded
  <2>4. Untouched(tid)'
    BY <1>1, <1>3, <2>1 DEF EditOK, Untouched
  <2> QED
    BY <2>2, <2>3, <2>4
<1> QED
  BY <1>1, <1>2, <1>3, OthersKeep

LEMMA ApplyEdit ==
  ASSUME IInv, EditInv, BecomeReady \/ ApplyFails
  PROVE  EditInv'
<1>1. /\ op = "apply" /\ tstate \in Undoing \ {"ready"} /\ ~Resolved /\ ~Resolved' /\ tid \in Job
      /\ EditOK(tid) /\ PendingInv
  BY DEF IInv, OpInv, Undoing, Resolved, EditInv, PendingInv, BecomeReady, ApplyFails, txnVars
<1>2. /\ UNCHANGED <<row, phase, prev, req, flight, pc, committed, direct, stale, tid, tprev, tnext>>
      /\ UNCHANGED <<net, applied, undone, disk>>
  BY DEF BecomeReady, ApplyFails, panelVars, callVars, txnVars, hostVars, history
<1>3. /\ \A k \in Job : answer'[k] = answer[k] \/ k = tid
      /\ answer'[tid] \in {answer[tid], "ready"}
      /\ answer'[tid] = answer[tid] \/ pc[tid] \in Call
      /\ \/ tstate' = "ready" /\ op' = "none"
         \/ tstate' = "ready" /\ op' = "finalize" /\ tid \in direct
         \/ tstate' = tstate /\ op' = "recover" /\ answer' = answer
  BY <1>1 DEF IInv, TypeOK, BecomeReady, ApplyFails, Finish, Reply, Managed, callVars, txnVars
<1>4. /\ \A k \in Job \ {tid} : EditOK(k)'
      /\ Control(tid)' /\ Recorded(tid)' /\ Untouched(tid)'
  BY <1>1, <1>2, <1>3, PendingKeeps DEF Call
<1>5. tid \in direct => ~Watched(tid)
  BY <1>1 DEF EditOK, Recorded, Watched
<1>6. Prepare(tid)'
  BY <1>1, <1>2, <1>3, <1>5 DEF EditOK, Prepare, Taken, Watched
<1>7. Verdict(tid)'
  BY <1>1, <1>2, <1>3, <1>5 DEF EditOK, Verdict, Watched, Aborted, Undoing
<1>8. PendingInv'
  BY <1>1, <1>2 DEF PendingInv
<1> QED
  BY <1>2, <1>4, <1>6, <1>7, <1>8 DEF EditInv, EditOK

LEMMA ResolveEdit ==
  ASSUME IInv, EditInv, Complete \/ RolledBack
  PROVE  EditInv'
<1>1. /\ ~Resolved /\ Resolved' /\ tid \in Job /\ EditOK(tid) /\ PendingInv
      /\ \/ Complete /\ op = "finalize" /\ tstate = "committed" /\ disk["journal"] = tnext
         \/ RolledBack /\ op = "recover" /\ tstate \in Undoing /\ disk["journal"] = tprev
  BY DEF IInv, OpInv, PlanInv, Undoing, Resolved, EditInv, PendingInv, Complete, RolledBack
<1>2. /\ UNCHANGED <<row, phase, prev, req, flight, pc, committed, direct, stale, tid, tprev, tnext>>
      /\ UNCHANGED <<net, disk>> /\ op' = "none"
      /\ applied' \cup undone' \subseteq applied \cup undone \cup {tid}
  BY <1>1 DEF Complete, RolledBack, Finish, panelVars, history
<1>3. /\ \A k \in Job : answer'[k] = answer[k] \/ k = tid
      /\ answer'[tid] \in {answer[tid], "ok"}
      /\ answer'[tid] = answer[tid] \/ pc[tid] \in Call
  BY <1>1 DEF IInv, TypeOK, Complete, RolledBack, Finish, Reply
<1>4. /\ \A k \in Job \ {tid} : EditOK(k)'
      /\ Control(tid)' /\ Recorded(tid)' /\ Untouched(tid)'
      /\ Taken(tid)' => Taken(tid)
  BY <1>1, <1>2, <1>3, PendingKeeps DEF Call
<1>5. Prepare(tid)'
  BY <1>1, <1>2, <1>3, <1>4 DEF EditOK, Prepare, Taken, Watched
<1>6. Verdict(tid)'
  BY <1>1, <1>2 DEF EditOK, Verdict, Watched, Aborted
<1>7. PendingInv'
  <2>1. ASSUME direct = {}, stale = {}
        PROVE  disk["journal"] = row
    <3>1. Watched(tid) /\ UnderWay(tid) /\ tprev = prev[tid] /\ tnext = req[tid]
      BY <1>1, <2>1 DEF IInv, PlanInv, PendingInv, EditOK, Recorded, Taken, Watched, UnderWay
    <3>2. row = IF tid \in committed THEN req[tid] ELSE prev[tid]
      BY <1>1, <2>1, <3>1 DEF EditOK, Untouched
    <3>3. op = "finalize" => tid \in committed
      BY <1>1, <3>1 DEF EditOK, Verdict
    <3>4. op = "recover" => tid \notin committed
      BY <1>1, <3>1 DEF EditOK, Verdict
    <3> QED
      BY <1>1, <3>1, <3>2, <3>3, <3>4
  <2> QED
    BY <1>1, <1>2, <2>1 DEF PendingInv
<1> QED
  BY <1>2, <1>4, <1>5, <1>6, <1>7 DEF EditInv, EditOK

\* The panel's decision on an edit that is watched is what the row says.
LEMMA DecisionTold ==
  ASSUME TypeOK, EditInv, ~Resolved, Watched(tid), Decision(tid, flight[tid] = "live") # "pending"
  PROVE  /\ Decision(tid, flight[tid] = "live") = IF tid \in committed THEN "finalize" ELSE "rollback"
         /\ tid \notin committed => Aborted(tid)
<1>1. tid \in Job /\ EditOK(tid) /\ UnderWay(tid)
  BY DEF EditInv, PendingInv, UnderWay
<1>2. row = IF tid \in committed THEN req[tid] ELSE prev[tid]
  BY <1>1 DEF EditOK, Untouched, Watched
<1>3. req[tid] # prev[tid] /\ phase[tid] # "none"
  BY DEF Watched
<1>4. flight[tid] # "live" => pc[tid] \in {"idle", "info", "direct", "write", "done"}
  BY <1>1 DEF TypeOK, EditOK, Control
<1> QED
  BY <1>1, <1>2, <1>3, <1>4 DEF EditOK, Control, Recorded, Verdict, Decision, Aborted

LEMMA OperationEdit ==
  ASSUME IInv, EditInv, NEW j \in Job,
         ServeFinalize(j) \/ ServeRollback(j) \/ Committing \/ Ask \/ Obey \/ Resume
  PROVE  EditInv'
<1>1. /\ ~Resolved /\ ~Resolved' /\ tid \in Job /\ EditOK(tid) /\ PendingInv
  BY DEF IInv, OpInv, Undoing, Resolved, EditInv, PendingInv, ServeFinalize, ServeRollback, Committing,
     Ask, Obey, Resume, txnVars
<1>2. /\ UNCHANGED <<row, phase, prev, req, flight, pc, committed, direct, stale, tid, tprev, tnext>>
      /\ UNCHANGED <<answer, applied, undone, disk>>
      /\ net' \subseteq net
  BY DEF ServeFinalize, ServeRollback, Committing, Ask, Obey, Resume, Take,
     panelVars, callVars, txnVars, hostVars, history
<1>3. /\ \A k \in Job \ {tid} : EditOK(k)'
      /\ Control(tid)' /\ Recorded(tid)' /\ Untouched(tid)'
  BY <1>1, <1>2, PendingKeeps
<1>4. Watched(tid)' => Watched(tid)
  BY <1>2 DEF Watched
<1>5. CASE ServeFinalize(j)
  <2>1. /\ tid = j /\ <<tid, "finalize">> \in net /\ op = "none" /\ op' = "finalize" /\ tstate' = tstate
        /\ tstate \in {"ready", "committing", "committed"}
    BY <1>5 DEF ServeFinalize, Take, txnVars
  <2>2. phase[tid] \in {"committed", "complete"} /\ pc[tid] \in {"finalize", "done"}
    BY <1>1, <2>1 DEF EditOK, Recorded
  <2>3. Prepare(tid)'
    BY <1>1, <1>2, <2>2 DEF EditOK, Prepare, Taken
  <2>4. Verdict(tid)'
    BY <1>1, <1>2, <1>4, <2>1, <2>2 DEF EditOK, Verdict, Aborted
  <2> QED
    BY <2>3, <2>4, <1>1, <1>2, <1>3 DEF EditInv, EditOK, PendingInv
<1>6. CASE ServeRollback(j)
  <2>1. /\ tid = j /\ <<tid, "rollback">> \in net /\ op = "none" /\ op' = "recover" /\ tstate' = tstate
        /\ tstate \notin {"committing", "committed"}
    BY <1>6 DEF ServeRollback, Take, txnVars
  <2>2. phase[tid] \in {"rollback", "rolled_back"} /\ pc[tid] \in {"rollback", "done"}
    BY <1>1, <2>1 DEF EditOK, Recorded
  <2>3. Prepare(tid)'
    BY <1>1, <1>2, <2>2 DEF EditOK, Prepare, Taken
  <2>4. Verdict(tid)'
    BY <1>1, <1>2, <1>4, <2>1, <2>2 DEF EditOK, Verdict, Aborted
  <2> QED
    BY <2>3, <2>4, <1>1, <1>2, <1>3 DEF EditInv, EditOK, PendingInv
<1>7. CASE Committing
  <2>1. op = "finalize" /\ op' = op /\ tstate = "ready" /\ tstate' = "committing"
    BY <1>7 DEF Committing, opVars
  <2>2. Prepare(tid)'
    BY <1>1, <1>2, <1>4, <2>1 DEF EditOK, Prepare, Taken
  <2>3. Verdict(tid)'
    BY <1>1, <1>2, <1>4, <2>1 DEF EditOK, Verdict, Aborted
  <2> QED
    BY <2>2, <2>3, <1>1, <1>2, <1>3 DEF EditInv, EditOK, PendingInv
<1>8. CASE Ask
  <2>1. /\ op = "none" /\ op' = "ask" /\ tstate = "ready" /\ tstate' = tstate
        /\ asked' # "pending"
        /\ asked' = Decision(tid, flight[tid] = "live")
    BY <1>8 DEF Ask, txnVars
  <2>2. Watched(tid) =>
          /\ asked' = IF tid \in committed THEN "finalize" ELSE "rollback"
          /\ tid \notin committed => Aborted(tid)
    BY <1>1, <2>1, DecisionTold DEF IInv
  <2>3. Prepare(tid)'
    BY <1>1, <1>2, <1>4, <2>1, <2>2 DEF EditOK, Control, Recorded, Prepare, Taken, Aborted
  <2>4. Verdict(tid)'
    BY <1>1, <1>2, <1>4, <2>1, <2>2 DEF EditOK, Verdict, Aborted
  <2> QED
    BY <2>3, <2>4, <1>1, <1>2, <1>3 DEF EditInv, EditOK, PendingInv
<1>9. CASE Obey
  <2>1. /\ op = "ask"
        /\ \/ asked = "finalize" /\ op' = "finalize" /\ tstate' = "committing"
           \/ asked = "rollback" /\ op' = "recover" /\ tstate' = tstate
    BY <1>9 DEF Obey
  <2>2. Prepare(tid)'
    BY <1>1, <1>2, <1>4, <2>1 DEF EditOK, Prepare, Taken
  <2>3. Verdict(tid)'
    BY <1>1, <1>2, <1>4, <2>1 DEF EditOK, Verdict, Aborted, IInv, OpInv
  <2> QED
    BY <2>2, <2>3, <1>1, <1>2, <1>3 DEF EditInv, EditOK, PendingInv
<1>10. CASE Resume
  <2>1. /\ op = "none" /\ tstate # "ready" /\ tstate' = tstate
        /\ IF tstate \in {"committing", "committed"} THEN op' = "finalize" ELSE op' = "recover"
    BY <1>10 DEF Resume, txnVars
  <2>2. Prepare(tid)'
    BY <1>1, <1>2, <1>4, <2>1 DEF EditOK, Prepare, Taken
  <2>3. Verdict(tid)'
    BY <1>1, <1>2, <1>4, <2>1 DEF EditOK, Verdict, Aborted
  <2> QED
    BY <2>2, <2>3, <1>1, <1>2, <1>3 DEF EditInv, EditOK, PendingInv
<1> QED
  BY <1>5, <1>6, <1>7, <1>8, <1>9, <1>10

LEMMA StepEdit ==
  ASSUME IInv, EditInv, [Next]_vars
  PROVE  EditInv'
<1>1. TypeOK
  BY DEF IInv
<1>2. CASE UNCHANGED vars
  <2>1. UNCHANGED <<row, phase, prev, req, flight, pc, answer, net, committed, applied, undone, direct, stale>>
        /\ UNCHANGED <<tid, tprev, tnext, tstate, disk, op, asked>>
    BY <1>2 DEF vars, panelVars, callVars, txnVars, hostVars, opVars, history
  <2>2. \A k \in Job : SamePanel(k) /\ SameNode(k)
    BY <2>1 DEF SamePanel, SameNode, Taken, UnderWay, Resolved
  <2>3. PendingInv'
    BY <2>1 DEF EditInv, PendingInv, Resolved
  <2> QED
    BY <2>2, <2>3, OthersKeep DEF EditInv
<1>3. CASE \E j \in Job : Load(j) \/ PanelStep(j)
  BY <1>1, <1>3, LoadEdit, CreateEdit, DowngradeEdit, DirectAnsweredEdit, WriteDirectEdit, PrepareAnsweredEdit,
     PrepareFailedEdit, CommitRowEdit, CommitFailsEdit, MarkCommittedEdit, DecideFinalizeEdit,
     DecideRollbackEdit, DecidePendingEdit, SettledEdit DEF PanelStep
<1>4. CASE \E j \in Job : Serve(j)
  <2>1. "finalize" \in Call
    BY DEF Call
  <2> QED
    BY <1>4, <2>1, HostStepEdit, AnswerEdit, ServePrepareEdit, OperationEdit DEF Serve
<1>5. CASE HelperStep \/ Operator
  <2>1. CASE Committing \/ Obey \/ Operator
    <3>1. ~Resolved
      BY <2>1 DEF IInv, OpInv, Resolved, Committing, Obey, Operator, Ask, Resume
    <3>2. tid \in Job
      BY <3>1 DEF EditInv, PendingInv
    <3> QED
      BY <2>1, <3>2, OperationEdit DEF Operator
  <2> QED
    BY <1>5, <2>1, HostStepEdit, ApplyEdit, ResolveEdit DEF HelperStep
<1>6. CASE PanelCrash
  BY <1>1, <1>6, PanelCrashEdit
<1>7. CASE HelperCrash \/ Reboot
  BY <1>7, HostStepEdit
<1> QED
  BY <1>2, <1>3, <1>4, <1>5, <1>6, <1>7 DEF Next

LEMMA InitEdit == Init => EditInv
<1> SUFFICES ASSUME Init PROVE EditInv
  OBVIOUS
<1>1. /\ row = Installed /\ net = {} /\ tid = None /\ tstate = "none"
      /\ committed = {} /\ applied = {} /\ undone = {} /\ direct = {} /\ stale = {}
      /\ disk["journal"] = Installed
      /\ \A j \in Job : phase[j] = "none" /\ pc[j] = "idle" /\ flight[j] = "no" /\ j # None
  BY JobAssumption DEF Init, File
<1>2. PendingInv
  BY <1>1 DEF PendingInv, Resolved
<1>3. \A j \in Job : EditOK(j)
  BY <1>1 DEF EditOK, Control, Recorded, Prepare, Untouched, Verdict, Watched, Taken, UnderWay, Resolved
<1> QED
  BY <1>2, <1>3 DEF EditInv

LEMMA AlwaysEdit == Spec => [](IInv /\ EditInv)
<1>1. Init => IInv /\ EditInv
  BY InitIInv, InitEdit
<1>2. IInv /\ EditInv /\ [Next]_vars => (IInv /\ EditInv)'
  BY StepIInv, StepEdit
<1> QED
  BY <1>1, <1>2, PTL DEF Spec

\* Edits that have a job and do not overlap leave the panel's row and the node
\* in agreement whenever none is under way: whichever calls and answers are lost
\* or late, and whoever dies in between.
THEOREM RowIsTold == Spec => []RowTellsNode
<1>1. IInv /\ EditInv => RowTellsNode
  BY DEF IInv, EditInv, PendingInv, RowTellsNode, Quiet
<1> QED
  BY <1>1, AlwaysEdit, PTL

--------------------------------------------------------------------------------
(* Part 3: the refinement of SettingsEdit, what each step is for the fates of
   edits. *)

LEMMA EditKeeps ==
  ASSUME \A k \in Job : PanelFate(k)' = PanelFate(k) /\ NodeFate(k)' = NodeFate(k)
  PROVE  UNCHANGED Edit!vars
BY DEF Edit!vars, panelFate, nodeFate

LEMMA EditAborts ==
  ASSUME \A k \in Job : /\ NodeFate(k)' = NodeFate(k)
                        /\ \/ PanelFate(k)' = PanelFate(k)
                           \/ PanelFate(k) = "open" /\ PanelFate(k)' = "aborted"
  PROVE  Edit!Next
<1> DEFINE S == {k \in Job : PanelFate(k) = "open" /\ PanelFate(k)' = "aborted"}
<1>1. Edit!Abort(S)
  BY DEF Edit!Abort, panelFate, nodeFate
<1> QED
  BY <1>1 DEF Edit!Next

LEMMA EditOvertakes ==
  ASSUME NEW S \in SUBSET Job,
         \A k \in Job : /\ PanelFate(k)' = IF k \in S THEN "overtaken" ELSE PanelFate(k)
                        /\ NodeFate(k)' = IF k \in S THEN "working" ELSE NodeFate(k)
  PROVE  Edit!Next
<1>1. Edit!Overtake(S)
  BY DEF Edit!Overtake, panelFate, nodeFate
<1> QED
  BY <1>1 DEF Edit!Next

LEMMA EditCommits ==
  ASSUME NEW j \in Job, NEW S \in SUBSET Job, j \notin S,
         PanelFate(j) = "open", NodeFate(j) \notin {"undone", "applied"},
         \A k \in Job : /\ PanelFate(k)' = IF k \in S THEN "overtaken"
                                           ELSE IF k = j THEN "committed" ELSE PanelFate(k)
                        /\ NodeFate(k)' = IF k \in S THEN "working" ELSE NodeFate(k)
  PROVE  Edit!Next
<1>1. Edit!Commit(j, S)
  BY DEF Edit!Commit, panelFate, nodeFate
<1> QED
  BY <1>1 DEF Edit!Next

LEMMA NodeMoves ==
  ASSUME NEW j \in Job,
         \A k \in Job : PanelFate(k)' = PanelFate(k),
         \A k \in Job \ {j} : NodeFate(k)' = NodeFate(k),
         \/ NodeFate(j)' = NodeFate(j)
         \/ NodeFate(j) = "working" /\ NodeFate(j)' = "ready"
         \/ NodeFate(j) = "ready" /\ PanelFate(j) = "committed" /\ NodeFate(j)' = "applied"
         \/ NodeFate(j) = "working" /\ PanelFate(j) # "committed" /\ NodeFate(j)' = "undone"
         \/ NodeFate(j) = "ready" /\ PanelFate(j) = "aborted" /\ NodeFate(j)' = "undone"
  PROVE  [Edit!Next]_Edit!vars
<1>1. panelFate' = panelFate /\ panelFate[j] = PanelFate(j) /\ nodeFate[j] = NodeFate(j)
  BY DEF panelFate, nodeFate
<1>2. nodeFate' = [nodeFate EXCEPT ![j] = NodeFate(j)']
  BY DEF nodeFate
<1>3. CASE NodeFate(j)' = NodeFate(j)
  BY <1>3, EditKeeps
<1>4. CASE NodeFate(j) = "working" /\ NodeFate(j)' = "ready"
  <2>1. Edit!Ready(j)
    BY <1>1, <1>2, <1>4 DEF Edit!Ready
  <2> QED
    BY <2>1 DEF Edit!Next
<1>5. CASE NodeFate(j) = "ready" /\ PanelFate(j) = "committed" /\ NodeFate(j)' = "applied"
  <2>1. Edit!Apply(j)
    BY <1>1, <1>2, <1>5 DEF Edit!Apply
  <2> QED
    BY <2>1 DEF Edit!Next
<1>6. CASE /\ \/ NodeFate(j) = "working" /\ PanelFate(j) # "committed"
              \/ NodeFate(j) = "ready" /\ PanelFate(j) = "aborted"
           /\ NodeFate(j)' = "undone"
  <2>1. Edit!Undo(j)
    BY <1>1, <1>2, <1>6 DEF Edit!Undo
  <2> QED
    BY <2>1 DEF Edit!Next
<1> QED
  BY <1>3, <1>4, <1>5, <1>6

\* A step of the panel other than a write of the row opens or aborts edits.
LEMMA PanelSteps ==
  ASSUME TypeOK, EditInv, NEW j \in Job, Load(j) \/ PanelStep(j), ~WriteDirect(j), ~CommitRow(j)
  PROVE  Edit!Next
<1>1. EditOK(j)
  BY DEF EditInv
<1>2. UNCHANGED <<row, committed, applied, undone, stale, tid, tstate>>
  BY DEF PanelStep, Load, Create, Downgrade, DirectAnswered, PrepareAnswered, PrepareFailed, CommitFails,
     MarkCommitted, DecideFinalize, DecideRollback, DecidePending, Settled, Leave, panelVars, history, txnVars
<1>3. \A k \in Job \ {j} : pc'[k] = pc[k] /\ phase'[k] = phase[k] /\ prev'[k] = prev[k] /\ req'[k] = req[k]
  <2> USE DEF SetPhase, Goto, panelVars, TypeOK
  <2>1. CASE Load(j)
    BY <2>1 DEF Load
  <2>2. CASE Create(j) \/ Downgrade(j) \/ DirectAnswered(j)
    BY <2>2 DEF Create, Downgrade, DirectAnswered, Send
  <2>3. CASE PrepareAnswered(j) \/ PrepareFailed(j) \/ CommitFails(j)
    BY <2>3 DEF PrepareAnswered, PrepareFailed, CommitFails
  <2>4. CASE MarkCommitted(j)
    BY <2>4 DEF MarkCommitted, Leave, Send
  <2>5. CASE DecideFinalize(j)
    BY <2>5 DEF DecideFinalize, Send
  <2>6. CASE DecideRollback(j)
    BY <2>6 DEF DecideRollback, Send
  <2>7. CASE DecidePending(j)
    BY <2>7 DEF DecidePending, Leave
  <2>8. CASE Settled(j)
    BY <2>8 DEF Settled, Leave
  <2> QED
    BY <2>1, <2>2, <2>3, <2>4, <2>5, <2>6, <2>7, <2>8 DEF PanelStep
<1>4. \A k \in Job \ {j} : PanelFate(k)' = PanelFate(k) /\ NodeFate(k)' = NodeFate(k)
  BY <1>2, <1>3 DEF PanelFate, NodeFate, Watched, Aborted
<1>5. /\ NodeFate(j)' = NodeFate(j)
      /\ \/ PanelFate(j)' = PanelFate(j)
         \/ PanelFate(j) = "open" /\ PanelFate(j)' = "aborted"
  <2> USE DEF PanelFate, NodeFate, Watched, Aborted
  <2>1. CASE Load(j)
    BY <1>1, <1>2, <2>1 DEF EditOK, Control, Load, Goto
  <2>2. CASE Create(j)
    BY <1>1, <1>2, <2>2 DEF EditOK, Control, Recorded, Taken, Create, SetPhase, Send, Goto, TypeOK
  <2>3. CASE Downgrade(j) \/ DirectAnswered(j)
    BY <1>1, <1>2, <2>3 DEF EditOK, Control, Recorded, Downgrade, DirectAnswered, Send, Goto, TypeOK, panelVars
  <2>4. CASE PrepareAnswered(j) \/ PrepareFailed(j) \/ CommitFails(j)
    BY <1>1, <1>2, <2>4 DEF EditOK, Control, PrepareAnswered, PrepareFailed, CommitFails, SetPhase, Goto, TypeOK, panelVars
  <2>5. CASE MarkCommitted(j)
    <3>1. /\ j \in committed /\ phase[j] = "ready" /\ phase'[j] \in {"complete", "committed"}
          /\ UNCHANGED <<prev, req>>
      BY <1>1, <2>5 DEF EditOK, Control, MarkCommitted, SetPhase, Leave, Send, Goto, TypeOK
    <3> QED
      BY <1>2, <3>1
  <2>6. CASE DecideFinalize(j) \/ DecideRollback(j) \/ DecidePending(j)
    <3>1. /\ pc[j] = "decide" /\ phase[j] \in {"preparing", "ready"}
          /\ UNCHANGED <<prev, req>>
          /\ phase'[j] # "none"
          /\ \/ Decision(j, FALSE) = "finalize" /\ pc'[j] = "finalize" /\ phase'[j] = "committed"
             \/ Decision(j, FALSE) = "rollback" /\ pc'[j] = "rollback" /\ phase'[j] = "rollback"
             \/ Decision(j, FALSE) = "pending" /\ pc'[j] = "done" /\ phase' = phase
      BY <1>1, <2>6 DEF EditOK, Control, DecideFinalize, DecideRollback, DecidePending, SetPhase, Leave, Send,
         Goto, TypeOK
    <3>2. Watched(j) => row = IF j \in committed THEN req[j] ELSE prev[j]
      BY <1>1, <3>1 DEF EditOK, Untouched, UnderWay
    <3>3. Watched(j) => Decision(j, FALSE) = IF j \in committed THEN "finalize" ELSE "rollback"
      BY <3>1, <3>2 DEF Decision
    <3> QED
      BY <1>2, <3>1, <3>3
  <2>7. CASE Settled(j)
    <3>1. /\ UNCHANGED <<prev, req>> /\ phase[j] \in {"committed", "rollback"}
          /\ phase'[j] # "none"
          /\ phase[j] = "rollback" => phase'[j] \in {"rollback", "rolled_back"}
      BY <1>1, <2>7 DEF EditOK, Control, Settled, SetPhase, Leave, Goto, TypeOK
    <3> QED
      BY <1>1, <1>2, <3>1 DEF EditOK, Verdict
  <2> QED
    BY <2>1, <2>2, <2>3, <2>4, <2>5, <2>6, <2>7 DEF PanelStep
<1> QED
  BY <1>4, <1>5, EditAborts

\* A write of the row commits its edit, and overtakes those under way.
LEMMA RowWrites ==
  ASSUME TypeOK, EditInv, NEW j \in Job, WriteDirect(j) \/ CommitRow(j)
  PROVE  Edit!Next
<1>1. EditOK(j)
  BY DEF EditInv
<1>2. /\ committed' = committed \cup {j} /\ stale' = Overtaken(j)
      /\ UNCHANGED <<phase, prev, req, applied, undone, tid, tstate>>
      /\ \A k \in Job \ {j} : pc'[k] = pc[k]
  BY DEF WriteDirect, CommitRow, Goto, TypeOK, txnVars, history
<1>3. stale \subseteq stale' /\ j \notin stale' \ stale /\ stale' \in SUBSET Job
  BY <1>2 DEF Overtaken, TypeOK
<1>4. \A k \in Job \ {j} : /\ PanelFate(k)' = IF k \in stale' THEN "overtaken" ELSE PanelFate(k)
                           /\ NodeFate(k)' = IF k \in stale' THEN "working" ELSE NodeFate(k)
  BY <1>2, <1>3 DEF PanelFate, NodeFate, Watched, Aborted
<1>5. CASE Watched(j)
  <2>1. CommitRow(j) /\ pc[j] = "commit" /\ j \notin stale'
    BY <1>1, <1>3, <1>5 DEF EditOK, Control, Recorded, Watched, WriteDirect, CommitRow
  <2>2. PanelFate(j) = "open"
    BY <1>1, <1>5, <2>1 DEF EditOK, Control, Watched, PanelFate, Aborted
  <2>3. NodeFate(j) \notin {"undone", "applied"}
    <3>1. CASE answer[j] = "same"
      BY <1>1, <2>1, <3>1 DEF EditOK, Prepare, Taken, NodeFate
    <3>2. CASE answer[j] = "ready"
      BY <1>1, <1>5, <2>1, <3>2 DEF EditOK, Prepare, EditInv, PendingInv, Resolved, NodeFate
    <3> QED
      BY <1>1, <2>1, <3>1, <3>2 DEF EditOK, Control
  <2>4. PanelFate(j)' = "committed" /\ NodeFate(j)' = NodeFate(j)
    BY <1>2, <1>5, <2>1 DEF PanelFate, NodeFate, Watched
  <2> QED
    BY <1>3, <1>4, <2>1, <2>2, <2>3, <2>4, EditCommits
<1>6. CASE ~Watched(j)
  <2>1. /\ PanelFate(j)' = IF j \in stale' THEN "overtaken" ELSE PanelFate(j)
        /\ NodeFate(j)' = IF j \in stale' THEN "working" ELSE NodeFate(j)
    BY <1>2, <1>3, <1>6 DEF PanelFate, NodeFate, Watched
  <2> QED
    BY <1>3, <1>4, <2>1, EditOvertakes
<1> QED
  BY <1>5, <1>6

LEMMA PanelDies ==
  ASSUME EditInv, PanelCrash
  PROVE  Edit!Next
<1>1. /\ pc' = [j \in Job |-> IF pc[j] = "idle" THEN "idle" ELSE "done"]
      /\ UNCHANGED <<phase, prev, req, committed, applied, undone, stale, tid, tstate>>
  BY DEF PanelCrash, txnVars, history
<1>2. ASSUME NEW k \in Job
      PROVE  /\ NodeFate(k)' = NodeFate(k)
             /\ \/ PanelFate(k)' = PanelFate(k)
                \/ PanelFate(k) = "open" /\ PanelFate(k)' = "aborted"
  BY <1>1 DEF PanelFate, NodeFate, Watched, Aborted
<1> QED
  BY <1>2, EditAborts

\* Where nothing but the node's state changes, only the pending edit moves.
LEMMA NodeSteps ==
  ASSUME IInv, EditInv, NEW j \in Job, Serve(j) \/ HelperStep \/ Operator \/ HelperCrash \/ Reboot
  PROVE  [Edit!Next]_Edit!vars
<1>1. UNCHANGED <<pc, phase, prev, req, committed, stale>>
  BY DEF Serve, HelperStep, Operator, Refuse, ServePrepare, PrepareSame, ServeFinalize, FinalizeAgain,
     ServeRollback, RollbackAgain, AddRules, Switched, RestartNext, BecomeReady, ApplyFails, SwitchFile,
     RestoreFile, Committing, SwitchJournal, Complete, RolledBack, Obey, Ask, Resume, HelperCrash, Reboot,
     panelVars, callVars, history
<1>2. \A k \in Job : PanelFate(k)' = PanelFate(k) /\ Watched(k)' = Watched(k)
  BY <1>1 DEF PanelFate, Watched, Aborted
<1>3. CASE BecomeReady
  <2>1. /\ tstate \in Undoing \ {"ready"} /\ tstate' = "ready" /\ UNCHANGED <<tid, applied, undone>>
    BY <1>3 DEF BecomeReady, IInv, OpInv, txnVars, history
  <2>2. PICK i \in Job : i = tid /\ i \notin applied \cup undone
    BY <2>1 DEF EditInv, PendingInv, Undoing, Resolved
  <2>3. \A k \in Job \ {i} : NodeFate(k)' = NodeFate(k)
    BY <1>2, <2>1, <2>2 DEF NodeFate
  <2>4. NodeFate(i) = "working" /\ NodeFate(i)' \in {"working", "ready"}
    BY <1>2, <2>1, <2>2 DEF NodeFate, Undoing
  <2> QED
    BY <1>2, <2>3, <2>4, NodeMoves
<1>4. CASE Complete \/ RolledBack
  <2>1. /\ ~Resolved /\ Resolved'
        /\ UNCHANGED tid
        /\ \/ /\ op = "finalize" /\ tstate = "committed"
              /\ applied' = applied \cup {tid} /\ undone' = undone
           \/ /\ op = "recover" /\ tstate \in Undoing
              /\ undone' = undone \cup {tid} /\ applied' = applied
    BY <1>4 DEF Complete, RolledBack, IInv, OpInv, Undoing, Resolved
  <2>2. PICK i \in Job : i = tid /\ i \notin applied \cup undone /\ EditOK(i)
    BY <2>1 DEF EditInv, PendingInv
  <2>3. \A k \in Job \ {i} : NodeFate(k)' = NodeFate(k)
    BY <1>2, <2>1, <2>2 DEF NodeFate
  <2>4. CASE ~Watched(i)
    <3>1. NodeFate(i)' = NodeFate(i)
      BY <1>2, <2>2, <2>4 DEF NodeFate
    <3> QED
      BY <1>2, <2>3, <3>1, NodeMoves
  <2>5. CASE Watched(i) /\ op = "finalize"
    <3>1. NodeFate(i) = "ready" /\ NodeFate(i)' = "applied"
      BY <1>2, <2>1, <2>2, <2>5 DEF NodeFate
    <3>2. PanelFate(i) = "committed"
      BY <2>1, <2>2, <2>5 DEF EditOK, Verdict, PanelFate, Watched
    <3> QED
      BY <1>2, <2>3, <3>1, <3>2, NodeMoves
  <2>6. CASE Watched(i) /\ op = "recover"
    <3>1. NodeFate(i) = (IF tstate = "ready" THEN "ready" ELSE "working") /\ NodeFate(i)' = "undone"
      BY <1>2, <2>1, <2>2, <2>6 DEF NodeFate, Undoing
    <3>2. i \notin committed /\ (tstate = "ready" => Aborted(i))
      BY <2>1, <2>2, <2>6 DEF EditOK, Verdict
    <3>3. PanelFate(i) # "committed" /\ (tstate = "ready" => PanelFate(i) = "aborted")
      BY <2>6, <3>2 DEF PanelFate, Watched
    <3> QED
      BY <1>2, <2>3, <3>1, <3>3, NodeMoves
  <2> QED
    BY <2>1, <2>4, <2>5, <2>6
<1>5. CASE ~BecomeReady /\ ~Complete /\ ~RolledBack
  <2>1. /\ UNCHANGED <<applied, undone>>
        /\ \/ UNCHANGED <<tid, tstate>>
           \/ tid' = tid /\ {tstate, tstate'} \subseteq Early
           \/ tid' = tid /\ {tstate, tstate'} \subseteq {"ready", "committing", "committed"}
           \/ Resolved /\ tstate' = "prepared"
    BY <1>5 DEF IInv, OpInv, Undoing, Early,
       Serve, HelperStep, Operator, Refuse, ServePrepare, PrepareSame, ServeFinalize, FinalizeAgain,
       ServeRollback, RollbackAgain, AddRules, Switched, RestartNext, ApplyFails, SwitchFile,
       RestoreFile, Committing, SwitchJournal, Obey, Ask, Resume, HelperCrash, Reboot, txnVars, history
  <2>2. \A k \in Job : NodeFate(k)' = NodeFate(k)
    BY <1>2, <2>1 DEF NodeFate, Resolved, Early
  <2> QED
    BY <1>2, <2>2, EditKeeps
<1> QED
  BY <1>3, <1>4, <1>5

\* The edit of a node's settings is one step for the panel and one for the node:
\* whatever is lost, late or killed, the node applies for good what the row has
\* got, and undoes what the row will never get, unless another edit changed the
\* row in between.
THEOREM EditRefined == Spec => ImplementsEdit
<1>1. Init => Edit!Init
  BY DEF Init, Edit!Init, panelFate, nodeFate, PanelFate, NodeFate, Watched
<1>2. IInv /\ EditInv /\ [Next]_vars => [Edit!Next]_Edit!vars
  <2> SUFFICES ASSUME IInv, EditInv, [Next]_vars
               PROVE  [Edit!Next]_Edit!vars
    OBVIOUS
  <2>1. TypeOK
    BY DEF IInv
  <2>2. CASE UNCHANGED vars
    <3>1. UNCHANGED <<pc, phase, prev, req, committed, stale, tid, tstate, applied, undone>>
      BY <2>2 DEF vars, panelVars, callVars, txnVars, history
    <3>2. \A k \in Job : PanelFate(k)' = PanelFate(k) /\ NodeFate(k)' = NodeFate(k)
      BY <3>1 DEF PanelFate, NodeFate, Watched, Aborted
    <3> QED
      BY <3>2, EditKeeps
  <2>3. CASE \E j \in Job : Load(j) \/ PanelStep(j)
    BY <2>1, <2>3, PanelSteps, RowWrites
  <2>4. CASE \E j \in Job : Serve(j)
    BY <2>4, NodeSteps
  <2>5. CASE PanelCrash
    BY <2>5, PanelDies
  <2>6. CASE HelperStep \/ Operator \/ HelperCrash \/ Reboot
    <3>1. CASE \E j \in Job : TRUE
      BY <2>6, <3>1, NodeSteps
    <3>2. CASE ~ \E j \in Job : TRUE
      BY <3>2 DEF Edit!vars, panelFate, nodeFate
    <3> QED
      BY <3>1, <3>2
  <2> QED
    BY <2>2, <2>3, <2>4, <2>5, <2>6 DEF Next
<1> QED
  BY <1>1, <1>2, AlwaysEdit, PTL DEF Spec, ImplementsEdit, Edit!Spec
================================================================================
