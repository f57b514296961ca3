-------------------------- MODULE UserRenameProofs --------------------------
(***************************************************************************)
(* Theorems about UserRename for every set of nodes, with and without      *)
(* crashes and node deletions.                                             *)
(***************************************************************************)
EXTENDS UserRename, TLAPS

-----------------------------------------------------------------------------
(***************************************************************************)
(* What the panel may conclude from the replies of a node agent.           *)
(***************************************************************************)

\* A status call leaves the certificate alone and moves the CCD entry only
\* the way it was asked to.
LEMMA StatusReply ==
  ASSUME NEW id \in Identity, NEW on \in BOOLEAN,
         NEW r \in StatusReplies(id, on)
  PROVE  /\ r.to \in Identity
         /\ r.to = id \/ r.to = Switched(id, on)
         /\ r.ok => r.to = Switched(id, on)
<1>1. \/ r = [to |-> id, ok |-> FALSE]
      \/ r = [to |-> Switched(id, on), ok |-> TRUE]
      \/ r = [to |-> Switched(id, on), ok |-> FALSE]
  BY Zenon DEF StatusReplies, Unserved
<1>2. Switched(id, on) \in Identity
  BY DEF Switched, Identity
<1>3. CASE r = [to |-> id, ok |-> FALSE]
  BY <1>3
<1>4. CASE r = [to |-> Switched(id, on), ok |-> TRUE]
  BY <1>2, <1>4
<1>5. CASE r = [to |-> Switched(id, on), ok |-> FALSE]
  BY <1>2, <1>5
<1> QED  BY <1>1, <1>3, <1>4, <1>5

\* A confirmed build is whole; any other reply leaves some identity.
LEMMA BuildReply ==
  ASSUME NEW id \in Identity, NEW r \in BuildReplies(id)
  PROVE  /\ r.to \in Identity
         /\ r.ok => r.to = Built(id)
<1> DEFINE half == [cert |-> "valid", ccd |-> id.ccd]
<1>1. \/ r = [to |-> id, ok |-> FALSE]
      \/ r = [to |-> Built(id), ok |-> TRUE]
      \/ r = [to |-> Built(id), ok |-> FALSE]
      \/ r = [to |-> half, ok |-> FALSE]
  BY Zenon DEF BuildReplies, Unserved
<1>2. Built(id) \in Identity /\ half \in Identity
  BY DEF Built, Identity, CertState
<1> HIDE DEF half
<1>3. CASE r = [to |-> id, ok |-> FALSE]
  BY <1>3
<1>4. CASE r = [to |-> Built(id), ok |-> TRUE]
  BY <1>2, <1>4
<1>5. CASE r = [to |-> Built(id), ok |-> FALSE]
  BY <1>2, <1>5
<1>6. CASE r = [to |-> half, ok |-> FALSE]
  BY <1>2, <1>6
<1> QED  BY <1>1, <1>3, <1>4, <1>5, <1>6

\* A delete never gives anything back, and a confirmed delete leaves no
\* certificate.
LEMMA DeleteReply ==
  ASSUME NEW id \in Identity, NEW r \in DeleteReplies(id)
  PROVE  /\ r.to \in Identity
         /\ r.to.ccd => id.ccd
         /\ MayConnect(r.to) => MayConnect(id)
         /\ id.cert = "none" => r.to.cert = "none"
         /\ r.ok => r.to.cert = "none"
<1> DEFINE Cert == {"none", id.cert, Unpublished(id)}
<1>1. \E c \in Cert : r.to \in Left(id, c) /\ (r.ok => c = "none")
  <2>1. CASE \E t \in Left(id, "none") : r = [to |-> t, ok |-> TRUE]
    BY <2>1
  <2>2. CASE \E t \in Left(id, "none") \cup Left(id, id.cert) \cup Left(id, Unpublished(id)) :
               r = [to |-> t, ok |-> FALSE]
    BY <2>2
  <2> QED  BY <2>1, <2>2, Zenon DEF DeleteReplies
<1>2. PICK c \in Cert : r.to \in Left(id, c) /\ (r.ok => c = "none")
  BY <1>1
<1>3. c \in CertState /\ (id.cert = "none" => c = "none")
  BY DEF Unpublished, Identity, CertState
<1>4. r.to = [cert |-> c, ccd |-> FALSE] \/ r.to = [cert |-> c, ccd |-> id.ccd]
  BY <1>2 DEF Left
<1>5. r.ok => r.to.cert = "none"
  BY <1>2, <1>4
<1>6. CASE r.to = [cert |-> c, ccd |-> FALSE]
  BY <1>3, <1>5, <1>6 DEF MayConnect, Identity
<1>7. CASE r.to = [cert |-> c, ccd |-> id.ccd]
  <2>1. r.to.cert = c /\ r.to.ccd = id.ccd
    BY <1>7
  <2>2. r.to \in Identity
    BY <1>3, <1>7 DEF Identity
  <2>3. MayConnect(r.to) => MayConnect(id)
    BY <1>3, <2>1 DEF MayConnect
  <2> QED  BY <1>3, <1>5, <2>1, <2>2, <2>3
<1> QED  BY <1>4, <1>6, <1>7

USE DEF facts, evidence, job, panel, nodes, loop, Goto

-----------------------------------------------------------------------------
(***************************************************************************)
(* Lemmas about the loops and the calls.                                   *)
(***************************************************************************)

\* A refused call is one of the replies of every call.
LEMMA ServedReply ==
  ASSUME NEW n, NEW id, NEW replies, Unserved(id) \subseteq replies,
         NEW r \in Served(n, replies, id)
  PROVE  r \in replies
  BY DEF Served

LEMMA RefusalIsAReply ==
  ASSUME NEW id, NEW on
  PROVE  /\ Unserved(id) \subseteq BuildReplies(id)
         /\ Unserved(id) \subseteq StatusReplies(id, on)
         /\ id \in Identity => Unserved(id) \subseteq DeleteReplies(id)
<1>1. ASSUME id \in Identity  PROVE Unserved(id) \subseteq DeleteReplies(id)
  <2>1. id = [cert |-> id.cert, ccd |-> id.ccd]
    BY <1>1 DEF Identity
  <2>2. id \in Left(id, id.cert)
    BY <2>1 DEF Left
  <2> QED  BY <2>2 DEF DeleteReplies, Unserved
<1> QED  BY <1>1 DEF BuildReplies, StatusReplies

\* The next node of a loop is unique.
LEMMA FirstUnique ==
  ASSUME NEW S, S \subseteq Node, NEW m, NEW n, First(S, m), First(S, n)
  PROVE  m = n
  BY NodeAssumption DEF First

-----------------------------------------------------------------------------
(***************************************************************************)
(* The parts of the invariant that only follow the control of the job.     *)
(***************************************************************************)

LEMMA LockStep ==
  ASSUME TypeOK, LiveJobHoldsLock, ControlInv, [Next]_vars
  PROVE  LiveJobHoldsLock'
<1>1. ASSUME NEW n \in Node, Stage(n)  PROVE LiveJobHoldsLock'
  BY <1>1 DEF LiveJobHoldsLock, Stage, CreateNew, CreateTimeout, RecordStaged,
     VerifyStaged, PreserveInactive, StageMissing, Unstage, UnstageMissing
<1>2. ASSUME NEW n \in Node, Cutover(n)  PROVE LiveJobHoldsLock'
  BY <1>2 DEF LiveJobHoldsLock, ControlInv, Running, Cutover, DisableOld,
     DisableMissing, ConfirmDisabled, RestoreOld, DiscardNew, RollbackMissing
<1>3. ASSUME NEW n \in Node, Cleanup(n)  PROVE LiveJobHoldsLock'
  BY <1>3 DEF LiveJobHoldsLock, Cleanup, RevokeOld, InspectRevoked,
     InspectFail, RevokeMissing
<1>4. CASE JobStep
  BY <1>4 DEF LiveJobHoldsLock, ControlInv, Running, Terminal, JobStep, Claim,
     PreflightPass, PreflightRaise, StartStaging, VerifyRaise, StageRaise,
     StagingDone, UnstageDone, ConfirmRaise, StartRollback, DisablingDone,
     RestoreDone, RollbackDone, Commit, CommitRaise, StartRevoking, Complete,
     CleanupPending, HandlerRollback, HandlerFail, HandlerPass, HandlerKeep,
     Release
<1>5. CASE Queue \/ TakeName \/ Crash \/ \E n \in Node : Outside(n)
  BY <1>5 DEF LiveJobHoldsLock, Queue, TakeName, Crash, Outside, Connect,
     Leave, BuildLands, BuildFails, Revive, DeleteNode
<1>6. CASE UNCHANGED vars
  BY <1>6 DEF LiveJobHoldsLock, vars
<1> QED  BY <1>1, <1>2, <1>3, <1>4, <1>5, <1>6 DEF Next, Worker, NodeStep

\* The columns follow the one commit that moves the name.
LEMMA NameStep ==
  ASSUME TypeOK, NameInv, ControlInv, [Next]_vars
  PROVE  NameInv'
<1> USE DEF NameInv, ControlInv, Running, Terminal
<1>1. ASSUME NEW n \in Node, Stage(n)  PROVE NameInv'
  BY <1>1 DEF Stage, CreateNew, CreateTimeout, RecordStaged, VerifyStaged,
     PreserveInactive, StageMissing, Unstage, UnstageMissing, StageRaise
<1>2. ASSUME NEW n \in Node, Cutover(n)  PROVE NameInv'
  BY <1>2 DEF Cutover, DisableOld, DisableMissing, ConfirmDisabled,
     RestoreOld, DiscardNew, RollbackMissing, StartRollback
<1>3. ASSUME NEW n \in Node, Cleanup(n)  PROVE NameInv'
  BY <1>3 DEF Cleanup, RevokeOld, InspectRevoked, InspectFail, RevokeMissing
<1>4. CASE JobStep
  BY <1>4 DEF JobStep, Claim, PreflightPass, PreflightRaise,
     StartStaging, VerifyRaise, StageRaise, StagingDone, UnstageDone,
     ConfirmRaise, StartRollback, DisablingDone, RestoreDone, RollbackDone,
     Commit, CommitRaise, StartRevoking, Complete, CleanupPending,
     HandlerRollback, HandlerFail, HandlerPass, HandlerKeep, Release
<1>5. CASE Queue \/ TakeName \/ Crash \/ \E n \in Node : Outside(n)
  BY <1>5 DEF Queue, TakeName, Crash, Outside, Connect,
     Leave, BuildLands, BuildFails, Revive, DeleteNode
<1>6. CASE UNCHANGED vars
  BY <1>6 DEF vars
<1> QED  BY <1>1, <1>2, <1>3, <1>4, <1>5, <1>6 DEF Next, Worker, NodeStep

\* The worker stays where the state of the job says.
LEMMA ControlStep ==
  ASSUME TypeOK, ControlInv, [Next]_vars
  PROVE  ControlInv'
<1> USE DEF ControlInv, Running, Terminal
<1>1. ASSUME NEW n \in Node, Stage(n)  PROVE ControlInv'
  BY <1>1 DEF Stage, CreateNew, CreateTimeout, RecordStaged, VerifyStaged,
     PreserveInactive, StageMissing, Unstage, UnstageMissing, StageRaise
<1>2. ASSUME NEW n \in Node, Cutover(n)  PROVE ControlInv'
  BY <1>2 DEF Cutover, DisableOld, DisableMissing, ConfirmDisabled,
     RestoreOld, DiscardNew, RollbackMissing, StartRollback
<1>3. ASSUME NEW n \in Node, Cleanup(n)  PROVE ControlInv'
  BY <1>3 DEF Cleanup, RevokeOld, InspectRevoked, InspectFail, RevokeMissing
<1>4. CASE JobStep
  BY <1>4 DEF JobStep, Claim, PreflightPass, PreflightRaise,
     StartStaging, VerifyRaise, StageRaise, StagingDone, UnstageDone,
     ConfirmRaise, StartRollback, DisablingDone, RestoreDone, RollbackDone,
     Commit, CommitRaise, StartRevoking, Complete, CleanupPending,
     HandlerRollback, HandlerFail, HandlerPass, HandlerKeep, Release
<1>5. CASE Queue \/ TakeName \/ Crash \/ \E n \in Node : Outside(n)
  BY <1>5 DEF Queue, TakeName, Crash, Outside, Connect,
     Leave, BuildLands, BuildFails, Revive, DeleteNode
<1>6. CASE UNCHANGED vars
  BY <1>6 DEF vars
<1> QED  BY <1>1, <1>2, <1>3, <1>4, <1>5, <1>6 DEF Next, Worker, NodeStep

\* Evidence appears only in the stages that collect it.
LEMMA FreshStep ==
  ASSUME TypeOK, FreshInv, ControlInv, [Next]_vars
  PROVE  FreshInv'
<1> USE DEF FreshInv, ControlInv, Running, Terminal
<1>1. ASSUME NEW n \in Node, Stage(n)  PROVE FreshInv'
  BY <1>1 DEF Stage, CreateNew, CreateTimeout, RecordStaged, VerifyStaged,
     PreserveInactive, StageMissing, Unstage, UnstageMissing, StageRaise
<1>2. ASSUME NEW n \in Node, Cutover(n)  PROVE FreshInv'
  BY <1>2 DEF Cutover, DisableOld, DisableMissing, ConfirmDisabled,
     RestoreOld, DiscardNew, RollbackMissing, StartRollback
<1>3. ASSUME NEW n \in Node, Cleanup(n)  PROVE FreshInv'
  BY <1>3 DEF Cleanup, RevokeOld, InspectRevoked, InspectFail, RevokeMissing
<1>4. CASE JobStep
  BY <1>4 DEF JobStep, Claim, PreflightPass, PreflightRaise,
     StartStaging, VerifyRaise, StageRaise, StagingDone, UnstageDone,
     ConfirmRaise, StartRollback, DisablingDone, RestoreDone, RollbackDone,
     Commit, CommitRaise, StartRevoking, Complete, CleanupPending,
     HandlerRollback, HandlerFail, HandlerPass, HandlerKeep, Release
<1>5. CASE Queue \/ TakeName \/ Crash \/ \E n \in Node : Outside(n)
  BY <1>5 DEF Queue, TakeName, Crash, Outside, Connect,
     Leave, BuildLands, BuildFails, Revive, DeleteNode
<1>6. CASE UNCHANGED vars
  BY <1>6 DEF vars
<1> QED  BY <1>1, <1>2, <1>3, <1>4, <1>5, <1>6 DEF Next, Worker, NodeStep

-----------------------------------------------------------------------------
(***************************************************************************)
(* Types. They need FreshInv: preflight replaces the snapshot, which is    *)
(* harmless only because no evidence and no loop refers to the old one.    *)
(***************************************************************************)

\* Whatever a node answers, it holds an identity afterwards.
LEMMA CallType ==
  ASSUME NEW n \in Node, NEW f \in [Node -> Identity], NEW on \in BOOLEAN,
         NEW r,
         \/ r \in Served(n, BuildReplies(f[n]), f[n])
         \/ r \in Served(n, StatusReplies(f[n], on), f[n])
         \/ r \in Served(n, DeleteReplies(f[n]), f[n])
  PROVE  r.to \in Identity /\ [f EXCEPT ![n] = r.to] \in [Node -> Identity]
<1>1. \/ r \in BuildReplies(f[n])
      \/ r \in StatusReplies(f[n], on)
      \/ r \in DeleteReplies(f[n])
  BY ServedReply, RefusalIsAReply, Zenon
<1>2. r.to \in Identity
  BY <1>1, BuildReply, StatusReply, DeleteReply
<1> QED  BY <1>2

LEMMA StageTypes ==
  ASSUME TypeOK, ControlInv, NEW n \in Node, Stage(n)
  PROVE  TypeOK'
<1> USE DEF TypeOK, Control, First
<1>1. CASE CreateNew(n)
  BY <1>1, CallType DEF CreateNew, StageRaise
<1>2. CASE CreateTimeout(n)
  BY <1>2 DEF CreateTimeout, StageRaise
<1>3. CASE RecordStaged(n)
  BY <1>3 DEF RecordStaged
<1>4. CASE VerifyStaged(n)
  BY <1>4 DEF VerifyStaged
<1>5. CASE PreserveInactive(n)
  <2>1. PICK r \in Served(n, StatusReplies(newId[n], FALSE), newId[n]) :
          /\ newId' = [newId EXCEPT ![n] = r.to]
          /\ IF r.ok THEN pc' = "create" /\ todo' = todo \ {n} /\ UNCHANGED bad
                     ELSE StageRaise
    BY <1>5 DEF PreserveInactive
  <2>2. newId' \in [Node -> Identity]
    BY <2>1, CallType
  <2>3. pc' \in Control /\ todo' \subseteq snap /\ bad' \subseteq snap
    BY <2>1 DEF StageRaise
  <2> QED  BY <1>5, <2>2, <2>3 DEF PreserveInactive
<1>6. CASE StageMissing(n)
  BY <1>6 DEF StageMissing, StageRaise
<1>7. CASE Unstage(n)
  BY <1>7, CallType DEF Unstage
<1>8. CASE UnstageMissing(n)
  BY <1>8 DEF UnstageMissing
<1> QED  BY <1>1, <1>2, <1>3, <1>4, <1>5, <1>6, <1>7, <1>8 DEF Stage

LEMMA CutoverTypes ==
  ASSUME TypeOK, ControlInv, NEW n \in Node, Cutover(n)
  PROVE  TypeOK'
<1> USE DEF TypeOK, Control, First
<1>1. CASE DisableOld(n)
  BY <1>1, CallType DEF DisableOld, StartRollback
<1>2. CASE DisableMissing(n)
  BY <1>2 DEF DisableMissing, StartRollback
<1>3. CASE ConfirmDisabled(n)
  BY <1>3 DEF ConfirmDisabled, State, Running
<1>4. CASE RestoreOld(n)
  BY <1>4, CallType, ZenonT(30) DEF RestoreOld
<1>5. CASE DiscardNew(n)
  BY <1>5, CallType DEF DiscardNew
<1>6. CASE RollbackMissing(n)
  BY <1>6 DEF RollbackMissing, State, Terminal
<1> QED  BY <1>1, <1>2, <1>3, <1>4, <1>5, <1>6 DEF Cutover

LEMMA CleanupTypes ==
  ASSUME TypeOK, ControlInv, NEW n \in Node, Cleanup(n)
  PROVE  TypeOK'
<1> USE DEF TypeOK, Control, First
<1>1. CASE RevokeOld(n)
  BY <1>1, CallType DEF RevokeOld
<1>2. CASE InspectRevoked(n)
  BY <1>2 DEF InspectRevoked
<1>3. CASE InspectFail(n)
  BY <1>3 DEF InspectFail
<1>4. CASE RevokeMissing(n)
  BY <1>4 DEF RevokeMissing
<1> QED  BY <1>1, <1>2, <1>3, <1>4 DEF Cleanup

LEMMA JobTypes ==
  ASSUME TypeOK, NameInv, FreshInv, JobStep
  PROVE  TypeOK'
<1> USE DEF TypeOK, Control, State, Running, Terminal
<1>1. CASE PreflightPass
  BY <1>1 DEF PreflightPass, NameInv, FreshInv
<1>2. CASE \/ Claim \/ PreflightRaise \/ StartStaging \/ VerifyRaise
           \/ StagingDone \/ UnstageDone
  BY <1>2 DEF Claim, PreflightRaise, StartStaging, VerifyRaise, StageRaise,
     StagingDone, UnstageDone
<1>3. CASE \/ ConfirmRaise \/ DisablingDone \/ RestoreDone \/ RollbackDone
           \/ Commit \/ CommitRaise
  BY <1>3 DEF ConfirmRaise, StartRollback, DisablingDone, RestoreDone,
     RollbackDone, Commit, CommitRaise
<1>4. CASE StartRevoking \/ Complete \/ CleanupPending
  BY <1>4 DEF StartRevoking, Complete, CleanupPending
<1>5. CASE \/ HandlerRollback \/ HandlerFail \/ HandlerPass \/ HandlerKeep
           \/ Release
  BY <1>5 DEF HandlerRollback, StartRollback, HandlerFail, HandlerPass,
     HandlerKeep, Release
<1> QED  BY <1>1, <1>2, <1>3, <1>4, <1>5 DEF JobStep

LEMMA TypeStep ==
  ASSUME TypeOK, NameInv, ControlInv, FreshInv, [Next]_vars
  PROVE  TypeOK'
<1>1. ASSUME NEW n \in Node, BuildLands(n)  PROVE TypeOK'
  <2>1. Built(newId[n]) \in Identity
    BY DEF Built, Identity, CertState
  <2> QED  BY <1>1, <2>1 DEF BuildLands, TypeOK
<1>5. ASSUME NEW n \in Node, Revive(n)  PROVE TypeOK'
  <2>1. oldId[n] \in Identity
    BY <1>5 DEF TypeOK
  <2>2. /\ Built(oldId[n]) \in Identity /\ Switched(oldId[n], TRUE) \in Identity
        /\ [cert |-> "valid", ccd |-> oldId[n].ccd] \in Identity
    BY <2>1 DEF Built, Switched, Identity, CertState
  <2> QED  BY <1>5, <2>2 DEF Revive, TypeOK
<1>2. ASSUME NEW n \in Node,
             Connect(n) \/ Leave(n) \/ BuildFails(n) \/ DeleteNode(n)
      PROVE  TypeOK'
  BY <1>2 DEF TypeOK, Connect, Leave, BuildFails, DeleteNode
<1>3. CASE Queue \/ TakeName \/ Crash
  BY <1>3 DEF TypeOK, State, Running, Control, Queue, TakeName, Crash
<1>4. CASE UNCHANGED vars
  BY <1>4 DEF TypeOK, vars
<1> QED
  BY <1>1, <1>2, <1>3, <1>4, <1>5, StageTypes, CutoverTypes, CleanupTypes, JobTypes
  DEF Next, Worker, NodeStep, Outside

-----------------------------------------------------------------------------
(***************************************************************************)
(* The evidence: what is recorded as staged when the name moves.           *)
(***************************************************************************)
LEMMA StagedStep ==
  ASSUME TypeOK, NameInv, ControlInv, FreshInv, StagedInv, [Next]_vars
  PROVE  StagedInv'
<1> USE DEF StagedInv
<1>1. ASSUME NEW n \in Node, Stage(n)  PROVE StagedInv'
  <2>1. CASE CreateNew(n)
    BY <2>1 DEF CreateNew, StageRaise
  <2>2. CASE RecordStaged(n)
    <3>1. state = "staging" /\ name = "old"
      BY <2>2 DEF RecordStaged, ControlInv, NameInv, TypeOK
    <3>2. \A m \in todo : First(todo, m) => m = n
      BY <2>2, FirstUnique DEF RecordStaged, TypeOK
    <3> QED  BY <2>2, <3>1, <3>2 DEF RecordStaged
  <2>3. CASE VerifyStaged(n)
    <3>1. n \in staged
      BY <2>3 DEF VerifyStaged, First
    <3> QED  BY <2>3, <3>1 DEF VerifyStaged
  <2>4. CASE PreserveInactive(n)
    <3>1. n \in staged
      BY <2>4 DEF PreserveInactive, First
    <3> QED  BY <2>4, <3>1 DEF PreserveInactive, StageRaise
  <2>5. CASE CreateTimeout(n) \/ StageMissing(n)
    BY <2>5 DEF CreateTimeout, StageMissing, StageRaise
  <2>6. CASE Unstage(n) \/ UnstageMissing(n)
    BY <2>6 DEF Unstage, UnstageMissing
  <2> QED  BY <1>1, <2>1, <2>2, <2>3, <2>4, <2>5, <2>6 DEF Stage
<1>2. ASSUME NEW n \in Node, Cutover(n)  PROVE StagedInv'
  <2>1. CASE ConfirmDisabled(n)
    BY <2>1 DEF ConfirmDisabled
  <2>2. CASE DisableOld(n) \/ DisableMissing(n)
    BY <2>2 DEF DisableOld, DisableMissing, StartRollback
  <2>3. CASE RestoreOld(n) \/ DiscardNew(n) \/ RollbackMissing(n)
    BY <2>3 DEF RestoreOld, DiscardNew, RollbackMissing
  <2> QED  BY <1>2, <2>1, <2>2, <2>3 DEF Cutover
<1>3. ASSUME NEW n \in Node, Cleanup(n)  PROVE StagedInv'
  BY <1>3 DEF Cleanup, RevokeOld, InspectRevoked, InspectFail, RevokeMissing
<1>4. CASE JobStep
  <2>1. CASE PreflightPass
    BY <2>1 DEF PreflightPass
  <2>2. CASE StartStaging
    <3>1. name = "old"
      BY <2>2 DEF StartStaging, NameInv, TypeOK
    <3> QED  BY <2>2, <3>1 DEF StartStaging
  <2>3. CASE StagingDone
    BY <2>3 DEF StagingDone, TypeOK
  <2>4. CASE Commit
    BY <2>4 DEF Commit
  <2>5. CASE UnstageDone \/ RollbackDone \/ Complete \/ CleanupPending
    BY <2>5 DEF UnstageDone, RollbackDone, Complete, CleanupPending
  <2>6. CASE HandlerRollback \/ HandlerFail \/ HandlerPass \/ HandlerKeep
    BY <2>6 DEF HandlerRollback, StartRollback, HandlerFail, HandlerPass,
       HandlerKeep
  <2>7. CASE \/ Claim \/ PreflightRaise \/ VerifyRaise \/ ConfirmRaise
             \/ DisablingDone \/ RestoreDone \/ CommitRaise \/ StartRevoking
             \/ Release
    BY <2>7 DEF Claim, PreflightRaise, VerifyRaise, StageRaise, ConfirmRaise,
       StartRollback, DisablingDone, RestoreDone, CommitRaise, StartRevoking,
       Release
  <2> QED
    BY <1>4, <2>1, <2>2, <2>3, <2>4, <2>5, <2>6, <2>7 DEF JobStep
<1>5. CASE Queue \/ TakeName \/ Crash \/ \E n \in Node : Outside(n)
  BY <1>5 DEF Queue, TakeName, Crash, Outside, Connect, Leave, BuildLands,
     BuildFails, Revive, DeleteNode
<1>6. CASE UNCHANGED vars
  BY <1>6 DEF vars
<1> QED  BY <1>1, <1>2, <1>3, <1>4, <1>5, <1>6 DEF Next, Worker, NodeStep

-----------------------------------------------------------------------------
(***************************************************************************)
(* The old identity after the commit.                                      *)
(***************************************************************************)

\* What a step of the clean-up may do to the old identity.
LEMMA RevokeEffect ==
  ASSUME TypeOK, ControlInv, NEW n \in Node, RevokeOld(n)
  PROVE  /\ \A m \in Node : m # n => oldId'[m] = oldId[m]
         /\ oldId'[n] \in Identity
         /\ oldId'[n].ccd => oldId[n].ccd
         /\ MayConnect(oldId'[n]) => MayConnect(oldId[n])
         /\ oldId[n].cert = "none" => oldId'[n].cert = "none"
         /\ revived' = revived \/ (revived' = revived \ {n} /\ oldId'[n].cert = "none")
         /\ pc' = "inspect" => oldId'[n].cert = "none" /\ todo' = todo /\ bad' = bad
         /\ pc' # "inspect" => todo' = todo \ {n} /\ bad' = bad \cup {n}
         /\ pc' \in {"revoke", "inspect"}
         /\ listed' \subseteq listed
<1>1. oldId[n] \in Identity /\ oldId \in [Node -> Identity]
  BY DEF TypeOK
<1>2. PICK r \in Served(n, DeleteReplies(oldId[n]), oldId[n]) :
        /\ oldId' = [oldId EXCEPT ![n] = r.to]
        /\ revived' = IF r.ok THEN revived \ {n} ELSE revived
        /\ IF r.ok THEN pc' = "inspect" /\ UNCHANGED <<todo, bad>>
                   ELSE pc' = "revoke" /\ todo' = todo \ {n} /\ bad' = bad \cup {n}
  BY DEF RevokeOld
<1>3. r \in DeleteReplies(oldId[n])
  BY <1>1, <1>2, ServedReply, RefusalIsAReply
<1>4. oldId'[n] = r.to /\ \A m \in Node : m # n => oldId'[m] = oldId[m]
  BY <1>1, <1>2
<1>5. /\ r.to \in Identity
      /\ r.to.ccd => oldId[n].ccd
      /\ MayConnect(r.to) => MayConnect(oldId[n])
      /\ oldId[n].cert = "none" => r.to.cert = "none"
      /\ r.ok => r.to.cert = "none"
  BY <1>1, <1>3, DeleteReply
<1>6. listed' \subseteq listed
  BY DEF RevokeOld
<1>7. CASE r.ok
  BY <1>2, <1>4, <1>5, <1>6, <1>7
<1>8. CASE ~r.ok
  BY <1>2, <1>4, <1>5, <1>6, <1>8
<1> QED  BY <1>7, <1>8

\* A node whose old identity is gone takes no client under the old name.
LEMMA GoneTakesNoClient ==
  ASSUME NEW n \in Node, OldGone(n), NEW m \in Node, Connect(m)
  PROVE  OldGone(n)'
<1>1. ~MayConnect(oldId[n])
  BY DEF MayConnect, OldGone
<1> QED  BY <1>1 DEF OldGone, Connect

LEMMA RevokedStep ==
  ASSUME TypeOK, NameInv, ControlInv, FreshInv, RevokedInv, [Next]_vars
  PROVE  RevokedInv'
<1> USE DEF RevokedInv
<1>1. ASSUME NEW n \in Node, RevokeOld(n)  PROVE RevokedInv'
  <2>1. ASSUME NEW m \in revoked  PROVE OldGone(m)' \/ m \in revived'
    <3>1. m \in Node /\ (OldGone(m) \/ m \in revived) /\ n \in todo /\ n \in rows
      BY <1>1, <2>1 DEF TypeOK, RevokeOld, First
    <3>2. CASE m # n
      BY <1>1, <3>1, <3>2, RevokeEffect DEF OldGone
    <3>3. m # n
      BY <1>1, <2>1, <3>1 DEF RevokeOld
    <3> QED  BY <3>2, <3>3
  <2>2. \A m \in todo : First(todo, m) => m = n
    BY <1>1, FirstUnique DEF RevokeOld, TypeOK
  <2>3. state \in {"revoking_old", "cleanup_pending"} /\ UNCHANGED <<state, snap, revoked>>
    BY <1>1 DEF RevokeOld, ControlInv
  <2>4. pc' = "inspect" => \A m \in todo' : First(todo', m) => oldId'[m].cert = "none"
    BY <1>1, <2>2, RevokeEffect
  <2>5. snap \subseteq revoked \cup todo' \cup bad'
    BY <1>1, RevokeEffect DEF RevokeOld
  <2>6. revoked' \cap todo' = {}
    BY <1>1, RevokeEffect DEF RevokeOld
  <2> QED  BY <2>1, <2>3, <2>4, <2>5, <2>6
<1>2. ASSUME NEW n \in Node, InspectRevoked(n)  PROVE RevokedInv'
  <2>1. (oldId[n].cert = "none" \/ n \in revived) /\ n \notin listed
    BY <1>2 DEF InspectRevoked, First
  <2> QED  BY <1>2, <2>1 DEF InspectRevoked, OldGone, ControlInv
<1>3. ASSUME NEW n \in Node, InspectFail(n) \/ RevokeMissing(n)
      PROVE  RevokedInv'
  BY <1>3 DEF InspectFail, RevokeMissing, OldGone
<1>4. ASSUME NEW n \in Node, Stage(n)  PROVE RevokedInv'
  <2>1. UNCHANGED <<revoked, oldId, listed, snap, revived>>
    BY <1>4 DEF Stage, CreateNew, CreateTimeout, RecordStaged, VerifyStaged,
       PreserveInactive, StageMissing, Unstage, UnstageMissing, StageRaise
  <2>2. state' = state /\ state # "completed" /\ pc' \notin {"revoke", "inspect"}
    BY <1>4 DEF Stage, CreateNew, CreateTimeout, RecordStaged, VerifyStaged,
       PreserveInactive, StageMissing, Unstage, UnstageMissing, StageRaise,
       ControlInv
  <2> QED  BY <2>1, <2>2 DEF OldGone
<1>5. ASSUME NEW n \in Node, Cutover(n)  PROVE RevokedInv'
  <2>1. /\ revoked' = {} /\ state' # "completed"
        /\ pc' \notin {"revoke", "inspect"}
    BY <1>5 DEF Cutover, DisableOld, DisableMissing, ConfirmDisabled,
       RestoreOld, DiscardNew, RollbackMissing, StartRollback, ControlInv,
       NameInv, TypeOK
  <2> QED  BY <2>1
<1>6. CASE JobStep
  <2>1. CASE PreflightPass
    BY <2>1 DEF PreflightPass, NameInv
  <2>2. CASE StartRevoking
    BY <2>2 DEF StartRevoking, OldGone
  <2>3. CASE Complete
    BY <2>3 DEF Complete, OldGone, TypeOK
  <2>4. CASE CleanupPending \/ Commit \/ UnstageDone \/ RollbackDone
    BY <2>4 DEF CleanupPending, Commit, UnstageDone, RollbackDone, OldGone
  <2>5. CASE \/ Claim \/ PreflightRaise \/ StartStaging \/ VerifyRaise
             \/ StagingDone \/ ConfirmRaise \/ DisablingDone \/ RestoreDone
             \/ CommitRaise
    BY <2>5 DEF Claim, PreflightRaise, StartStaging, VerifyRaise, StageRaise,
       StagingDone, ConfirmRaise, StartRollback, DisablingDone, RestoreDone,
       CommitRaise, OldGone
  <2>6. CASE \/ HandlerRollback \/ HandlerFail \/ HandlerPass \/ HandlerKeep
             \/ Release
    BY <2>6 DEF HandlerRollback, StartRollback, HandlerFail, HandlerPass,
       HandlerKeep, Release, OldGone
  <2> QED  BY <1>6, <2>1, <2>2, <2>3, <2>4, <2>5, <2>6 DEF JobStep
<1>7. ASSUME NEW n \in Node, Connect(n)  PROVE RevokedInv'
  <2>1. \A m \in revoked : OldGone(m)' \/ m \in revived'
    BY <1>7, GoneTakesNoClient DEF TypeOK, Connect
  <2> QED  BY <1>7, <2>1 DEF Connect
<1>8. ASSUME NEW n \in Node,
             Leave(n) \/ BuildLands(n) \/ BuildFails(n) \/ DeleteNode(n)
      PROVE  RevokedInv'
  BY <1>8 DEF Leave, BuildLands, BuildFails, DeleteNode, OldGone
<1>11. ASSUME NEW n \in Node, Revive(n)  PROVE RevokedInv'
  <2>1. /\ UNCHANGED <<state, snap, revoked, pc, todo, bad, listed>> /\ revived' = revived \cup {n}
        /\ \A m \in Node : m # n => oldId'[m] = oldId[m]
    BY <1>11 DEF Revive, TypeOK
  <2> QED  BY <2>1 DEF OldGone, TypeOK
<1>9. CASE Queue \/ TakeName \/ Crash
  BY <1>9 DEF Queue, TakeName, Crash, OldGone
<1>10. CASE UNCHANGED vars
  BY <1>10 DEF vars, OldGone
<1> QED
  BY <1>1, <1>2, <1>3, <1>4, <1>5, <1>6, <1>7, <1>8, <1>9, <1>10, <1>11
  DEF Next, Worker, NodeStep, Cleanup, Outside

-----------------------------------------------------------------------------
(***************************************************************************)
(* The theorems.                                                           *)
(***************************************************************************)

\* The inductive invariant holds in every reachable state.
THEOREM Invariance == Spec => []IInv
<1>1. Init => IInv
  <2>1. Init => TypeOK
    <3>1. /\ \A b \in BOOLEAN : [cert |-> "valid", ccd |-> b] \in Identity
          /\ Absent \in Identity /\ Built(Absent) \in Identity
      BY DEF Absent, Built, Identity, CertState
    <3> QED  BY <3>1 DEF Init, TypeOK, State, Control
  <2> QED
    BY <2>1 DEF Init, IInv, LiveJobHoldsLock, Running, NameInv, ControlInv,
       FreshInv, StagedInv, RevokedInv
<1>2. IInv /\ [Next]_vars => IInv'
  BY TypeStep, LockStep, NameStep, ControlStep, FreshStep, StagedStep,
     RevokedStep DEF IInv
<1> QED  BY <1>1, <1>2, PTL DEF Spec

\* Every variable keeps its type: the evidence of a job and the lists of its
\* loops never mention a node outside the snapshot.
THEOREM TypeCorrect == Spec => []TypeOK
<1>1. IInv => TypeOK
  BY DEF IInv
<1> QED  BY <1>1, Invariance, PTL

\* No crash, failed call or deleted node separates a live job from its lock.
THEOREM JobAndLock == Spec => []LiveJobHoldsLock
<1>1. IInv => LiveJobHoldsLock
  BY DEF IInv
<1> QED  BY <1>1, Invariance, PTL

\* The name never moves before every node of the snapshot is recorded.
THEOREM NameAfterStaging == Spec => []NameFollowsStaging
<1>1. IInv => NameFollowsStaging
  BY DEF IInv, StagedInv, NameFollowsStaging
<1> QED  BY <1>1, Invariance, PTL

\* A completed job has removed the old identity from its whole snapshot; where
\* there is one again, a late reader of the old name has built it since.
THEOREM CompletionRevokes == Spec => []CompletedMeansRevoked
<1>1. IInv => CompletedMeansRevoked
  BY DEF IInv, RevokedInv, CompletedMeansRevoked
<1> QED  BY <1>1, Invariance, PTL

\* After the commit the old identity is touched by the clean-up, which can only
\* take away, and by those who read the old name before.
LEMMA AfterCommit ==
  ASSUME IInv, name = "new", [Next]_vars
  PROVE  \/ UNCHANGED <<oldId, revived>>
         \/ \E n \in Node : RevokeOld(n) \/ Revive(n)
<1>1. pc \notin {"create", "record", "verify", "preserve", "unstage",
                 "disable", "confirm", "restore", "discard"}
  BY DEF IInv, NameInv, ControlInv
<1>2. ASSUME NEW n \in Node, Stage(n) \/ Cutover(n)  PROVE FALSE
  BY <1>1, <1>2 DEF Stage, CreateNew, CreateTimeout, RecordStaged,
     VerifyStaged, PreserveInactive, StageMissing, Unstage, UnstageMissing,
     Cutover, DisableOld, DisableMissing, ConfirmDisabled, RestoreOld,
     DiscardNew, RollbackMissing
<1>3. ASSUME NEW n \in Node,
             InspectRevoked(n) \/ InspectFail(n) \/ RevokeMissing(n)
      PROVE  UNCHANGED <<oldId, revived>>
  BY <1>3 DEF InspectRevoked, InspectFail, RevokeMissing
<1>4. CASE JobStep
  BY <1>4 DEF JobStep, Claim, PreflightPass, PreflightRaise, StartStaging,
     VerifyRaise, StagingDone, UnstageDone, ConfirmRaise, DisablingDone,
     RestoreDone, RollbackDone, Commit, CommitRaise, StartRevoking, Complete,
     CleanupPending, HandlerRollback, HandlerFail, HandlerPass, HandlerKeep,
     Release
<1>5. CASE Queue \/ TakeName \/ Crash \/ \E n \in Node : Outside(n)
  BY <1>5 DEF Queue, TakeName, Crash, Outside, Connect, Leave, BuildLands,
     BuildFails, Revive, DeleteNode
<1>6. CASE UNCHANGED vars
  BY <1>6 DEF vars
<1> QED
  BY <1>2, <1>3, <1>4, <1>5, <1>6 DEF Next, Worker, NodeStep, Cleanup

LEMMA ShrinkStep ==
  ASSUME IInv, [Next]_vars
  PROVE  OldOnlyShrinks
<1> SUFFICES ASSUME name = "new", NEW n \in snap
             PROVE  \/ Revive(n)
                    \/ /\ oldId'[n].ccd => oldId[n].ccd
                       /\ MayConnect(oldId'[n]) => MayConnect(oldId[n])
  BY DEF OldOnlyShrinks
<1>1. CASE oldId' = oldId
  BY <1>1
<1>2. ASSUME NEW m \in Node, RevokeOld(m) \/ Revive(m), ~Revive(n)
      PROVE  /\ oldId'[n].ccd => oldId[n].ccd
             /\ MayConnect(oldId'[n]) => MayConnect(oldId[n])
  <2>1. n \in Node /\ oldId \in [Node -> Identity]
    BY DEF IInv, TypeOK
  <2>2. CASE n = m
    BY <1>2, <2>2, RevokeEffect DEF IInv
  <2>3. CASE n # m
    <3>1. oldId'[n] = oldId[n]
      BY <1>2, <2>1, <2>3, RevokeEffect DEF IInv, Revive
    <3> QED  BY <3>1
  <2> QED  BY <2>2, <2>3
<1> QED  BY <1>1, <1>2, AfterCommit

\* Nothing the job does gives the old identity back once the name has moved,
\* whatever late readers of the old name do in between.
THEOREM NoReturn == Spec => OldNeverReturns
<1>1. IInv /\ [Next]_vars => [OldOnlyShrinks]_vars
  BY ShrinkStep
<1> QED  BY <1>1, Invariance, PTL DEF Spec, OldNeverReturns

-----------------------------------------------------------------------------
(***************************************************************************)
(* The job implements RenameContract.                                      *)
(***************************************************************************)

\* The phase of the contract a state stands for.
PhaseAgrees ==
  /\ name = "old" /\ state \notin Terminal => phaseBar = "open"
  /\ name = "new" /\ state \notin Terminal => phaseBar = "switched"
  /\ name = "old" /\ state \in Terminal => phaseBar = "aborted"
  /\ name = "new" /\ state = "completed" => phaseBar = "done"
  /\ name = "new" /\ state = "failed" => phaseBar = "abandoned"

LEMMA PhaseOf ==
  /\ TypeOK /\ NameInv => PhaseAgrees
  /\ TypeOK' /\ NameInv' => PhaseAgrees'
  BY DEF TypeOK, NameInv, Terminal, phaseBar, PhaseAgrees

\* How one step moves the columns the contract looks at.
LEMMA ColumnStep ==
  ASSUME IInv, [Next]_vars
  PROVE  \/ name' = name /\ state \notin Terminal /\ state' \notin Terminal
            /\ (name = "new" => snap' = snap)
         \/ name' = name /\ state' \in Terminal /\ UNCHANGED <<snap, oldId, revived>>
            /\ (state \in Terminal => state' = state)
         \/ Commit
         \/ \E n \in Node : Revive(n)
<1> USE DEF IInv, TypeOK, ControlInv, NameInv, Running, Terminal
<1>1. ASSUME NEW n \in Node, Stage(n)
      PROVE  name' = name /\ state' = state /\ snap' = snap /\ state \notin Terminal
  BY <1>1 DEF Stage, CreateNew, CreateTimeout, RecordStaged, VerifyStaged,
     PreserveInactive, StageMissing, Unstage, UnstageMissing, StageRaise
<1>2. ASSUME NEW n \in Node, Cutover(n)
      PROVE  /\ name' = name /\ snap' = snap /\ state \notin Terminal
             /\ state' \in Terminal => UNCHANGED <<oldId, revived>>
  BY <1>2 DEF Cutover, DisableOld, DisableMissing, ConfirmDisabled,
     RestoreOld, DiscardNew, RollbackMissing, StartRollback
<1>3. ASSUME NEW n \in Node, Cleanup(n)
      PROVE  name' = name /\ state' = state /\ snap' = snap /\ state \notin Terminal
  BY <1>3 DEF Cleanup, RevokeOld, InspectRevoked, InspectFail, RevokeMissing
<1>4. ASSUME JobStep, ~Commit
      PROVE  /\ name' = name /\ UNCHANGED <<oldId, revived>>
             /\ state \in Terminal => state' = state
             /\ snap' = snap \/ PreflightPass
  BY <1>4 DEF JobStep, Claim, PreflightPass, PreflightRaise, StartStaging,
     VerifyRaise, StageRaise, StagingDone, UnstageDone, ConfirmRaise,
     StartRollback, DisablingDone, RestoreDone, RollbackDone, CommitRaise,
     StartRevoking, Complete, CleanupPending, HandlerRollback, HandlerFail,
     HandlerPass, HandlerKeep, Release
<1>5. PreflightPass => name = "old" /\ state' \notin Terminal /\ state \notin Terminal
  BY DEF PreflightPass
<1>6. CASE Queue \/ TakeName \/ Crash \/ \E n \in Node : Outside(n)
  BY <1>6 DEF Queue, TakeName, Crash, Outside, Connect, Leave, BuildLands,
     BuildFails, DeleteNode
<1>7. CASE UNCHANGED vars
  BY <1>7 DEF vars
<1> QED
  BY <1>1, <1>2, <1>3, <1>4, <1>5, <1>6, <1>7 DEF Next, Worker, NodeStep

\* After the commit the job's share of the old identity only shrinks: what others
\* give back leaves it.
LEMMA UsableShrinks ==
  ASSUME IInv, TypeOK', snap' = snap,
         \/ UNCHANGED <<oldId, revived>>
         \/ \E n \in Node : RevokeOld(n) \/ Revive(n)
  PROVE  usableBar' \subseteq usableBar
<1>1. snap \subseteq Node /\ revived \subseteq Node
  BY DEF IInv, TypeOK
<1>2. CASE UNCHANGED <<oldId, revived>>
  BY <1>2 DEF usableBar
<1>3. ASSUME NEW n \in Node, RevokeOld(n)
      PROVE  usableBar' \subseteq usableBar
  <2>1. /\ \A m \in Node : m # n => oldId'[m] = oldId[m]
        /\ oldId[n].cert = "none" => oldId'[n].cert = "none"
        /\ revived' = revived \/ (revived' = revived \ {n} /\ oldId'[n].cert = "none")
    BY <1>3, RevokeEffect DEF IInv
  <2> QED  BY <1>1, <2>1 DEF usableBar
<1>4. ASSUME NEW n \in Node, Revive(n)
      PROVE  usableBar' \subseteq usableBar
  <2>1. revived' = revived \cup {n} /\ \A m \in Node : m # n => oldId'[m] = oldId[m]
    BY <1>4 DEF Revive, IInv, TypeOK
  <2> QED  BY <1>1, <2>1 DEF usableBar
<1> QED  BY <1>2, <1>3, <1>4

\* Crashes, retries, failed calls, deleted nodes and late readers included, every
\* run of a job is a run of the contract.
THEOREM Refinement == Spec => ImplementsContract
<1>1. Init => Contract!Init
  BY DEF Init, Contract!Init, phaseBar, usableBar, Terminal
<1>2. ASSUME IInv, IInv', [Next]_vars
      PROVE  Contract!Next \/ UNCHANGED <<phaseBar, usableBar>>
  <2>1. TypeOK /\ NameInv /\ TypeOK' /\ NameInv' /\ PhaseAgrees /\ PhaseAgrees'
    BY <1>2, PhaseOf DEF IInv
  <2>2. usableBar' \in SUBSET Node
    BY <2>1 DEF usableBar, TypeOK
  <2>3. CASE Commit
    <3>1. /\ name = "old" /\ state \notin Terminal
          /\ name' = "new" /\ state' \notin Terminal
      BY <2>1, <2>3 DEF Commit, NameInv, TypeOK, Terminal
    <3>2. phaseBar = "open" /\ phaseBar' = "switched"
      BY <2>1, <3>1 DEF PhaseAgrees, Terminal
    <3>3. usableBar' = usableBar
      BY <2>3 DEF Commit, usableBar
    <3> QED  BY <3>2, <3>3 DEF Contract!Next, Contract!Switch
  <2>4. CASE name' = name /\ name = "old"
             /\ state \notin Terminal /\ state' \notin Terminal
    <3>1. phaseBar = "open" /\ phaseBar' = "open"
      BY <2>1, <2>4 DEF PhaseAgrees, Terminal
    <3> QED  BY <2>2, <3>1 DEF Contract!Next, Contract!Prepare
  <2>5. CASE name' = name /\ name = "new" /\ snap' = snap
             /\ state \notin Terminal /\ state' \notin Terminal
    <3>1. phaseBar = "switched" /\ phaseBar' = "switched"
      BY <2>1, <2>5 DEF PhaseAgrees, Terminal
    <3>2. usableBar' \subseteq usableBar
      BY <1>2, <2>1, <2>5, AfterCommit, UsableShrinks
    <3> QED  BY <3>1, <3>2 DEF Contract!Next, Contract!Retire
  <2>6. CASE name' = name /\ state' \in Terminal
             /\ UNCHANGED <<snap, oldId, revived>> /\ (state \in Terminal => state' = state)
    <3>1. usableBar' = usableBar
      BY <2>6 DEF usableBar
    <3>2. CASE state \in Terminal
      BY <2>6, <3>1, <3>2 DEF phaseBar
    <3>3. CASE state \notin Terminal /\ name = "old"
      <4>1. phaseBar = "open" /\ phaseBar' = "aborted"
        BY <2>1, <2>6, <3>3 DEF PhaseAgrees, Terminal
      <4> QED  BY <3>1, <4>1 DEF Contract!Next, Contract!Abort
    <3>4. CASE state \notin Terminal /\ name = "new" /\ state' = "completed"
      <4>1. phaseBar = "switched" /\ phaseBar' = "done"
        BY <2>1, <2>6, <3>4 DEF PhaseAgrees, Terminal
      <4>2. usableBar' = {}
        BY <1>2, <3>4 DEF IInv, RevokedInv, OldGone, usableBar
      <4> QED  BY <3>1, <4>1, <4>2 DEF Contract!Next, Contract!Finish
    <3>5. CASE state \notin Terminal /\ name = "new" /\ state' = "failed"
      <4>1. phaseBar = "switched" /\ phaseBar' = "abandoned"
        BY <2>1, <2>6, <3>5 DEF PhaseAgrees, Terminal
      <4> QED  BY <3>1, <4>1 DEF Contract!Next, Contract!Abandon
    <3> QED
      BY <2>1, <2>6, <3>2, <3>3, <3>4, <3>5 DEF NameInv, Terminal, TypeOK
  <2>7. ASSUME NEW n \in Node, Revive(n)
        PROVE  Contract!Next \/ UNCHANGED <<phaseBar, usableBar>>
    <3>1. /\ state' = state /\ name' = name /\ snap' = snap /\ state \in State
          /\ phaseBar' = phaseBar
      BY <2>1, <2>7 DEF Revive, phaseBar, TypeOK
    <3>2. usableBar' \subseteq usableBar
      BY <1>2, <2>1, <2>7, <3>1, UsableShrinks
    <3> QED  BY <2>2, <3>1, <3>2 DEF Contract!Next, Contract!Prepare, Contract!Retire
  <2> QED
    BY <1>2, <2>1, <2>3, <2>4, <2>5, <2>6, <2>7, ColumnStep DEF TypeOK
<1>3. IInv /\ IInv' /\ [Next]_vars => [Contract!Next]_<<phaseBar, usableBar>>
  BY <1>2
<1> QED  BY <1>1, <1>3, Invariance, PTL DEF Spec, Contract!Spec, ImplementsContract

-----------------------------------------------------------------------------
(***************************************************************************)
(* The cutover, as long as the worker does not die. Until a step fails the *)
(* run is ahead: what it has passed is ready, what it has switched off     *)
(* stays off, and no build is under way that could land later. A step that *)
(* fails ends the job before the name moves.                               *)
(***************************************************************************)
Ahead == \/ state \in {"none", "queued"}
         \/ pc \in {"create", "record", "verify", "preserve", "disable", "confirm"}
         \/ pc = "loop" /\ state \in {"preflight", "staging", "cutover"}

\* A run that stops has ended its job or moved the name.
StopsInv == pc = "idle" => state \notin {"preflight", "staging", "cutover", "revoking_old"}

\* With the first old identity recorded as off the job is in its cutover.
OffInv == /\ state \in {"none", "queued", "preflight", "staging"} => disabled = {}
          /\ state \in {"none", "queued", "preflight"} => staged = {} /\ pc \in {"idle", "loop", "handler"}

\* The new identities of the nodes the staging loop has passed, and the one
\* of the node it is at.
Prepared == snap \ IF pc \in {"create", "record", "verify", "preserve"} THEN todo ELSE {}
ReadyInv ==
  /\ Ahead /\ state \in {"staging", "cutover"} => \A n \in Prepared : NewReady(n)
  /\ pc \in {"record", "verify", "preserve"} =>
       \A n \in todo : First(todo, n) => newId[n] = [cert |-> "valid", ccd |-> TRUE]
  /\ pc = "preserve" => ~wasActive

\* The old identities of the nodes the disabling loop has passed.
GoneInv ==
  /\ pc \in {"disable", "confirm"} => \A n \in snap \ todo : OldOff(n)
  /\ pc = "loop" /\ state = "cutover" => \A n \in snap : OldOff(n)
  /\ pc = "confirm" => \A n \in todo : First(todo, n) => n \in revived \/ ~oldId[n].ccd

CleanInv == /\ Ahead => building = {}
            /\ StopsInv /\ OffInv /\ ReadyInv /\ GoneInv

\* A new identity that is switched off is what an inactive user had.
LEMMA SwitchedOff ==
  ASSUME NEW id, id = [cert |-> "valid", ccd |-> TRUE], NEW on \in BOOLEAN, ~on
  PROVE  Switched(id, FALSE) = [cert |-> "valid", ccd |-> on]
<1>1. on = FALSE
  OBVIOUS
<1>2. Switched(id, FALSE) = [cert |-> "valid", ccd |-> FALSE]
  BY DEF Switched
<1> QED  BY <1>1, <1>2

\* The staging loop: a node leaves it prepared, or the run is no longer ahead.
LEMMA CleanStage ==
  ASSUME IInv, CleanInv, NEW n \in Node, Stage(n)
  PROVE  CleanInv'
<1> USE DEF CleanInv, Ahead, StopsInv, OffInv, ReadyInv, GoneInv, Prepared, NewReady, OldOff
<1>1. /\ state = "staging" /\ snap \subseteq Node /\ todo \subseteq snap /\ wasActive \in BOOLEAN
      /\ newId \in [Node -> Identity]
  BY DEF IInv, TypeOK, ControlInv, Stage, CreateNew, CreateTimeout, RecordStaged, VerifyStaged,
     PreserveInactive, StageMissing, Unstage, UnstageMissing
<1>2. First(todo, n) => \A m \in todo : First(todo, m) => m = n
  BY <1>1, FirstUnique
<1>3. CASE CreateNew(n)
  <2>1. PICK r \in Served(n, BuildReplies(newId[n]), newId[n]) :
          /\ newId' = [newId EXCEPT ![n] = r.to]
          /\ IF r.ok THEN pc' = "record" /\ UNCHANGED <<todo, bad>> ELSE StageRaise
    BY <1>3 DEF CreateNew
  <2>2. r \in BuildReplies(newId[n])
    BY ServedReply, RefusalIsAReply, Zenon
  <2>3. CASE r.ok
    <3>1. r.to = [cert |-> "valid", ccd |-> TRUE]
      BY <1>1, <2>2, <2>3, BuildReply DEF Built
    <3>2. n \in todo /\ newId'[n] = [cert |-> "valid", ccd |-> TRUE]
      BY <1>1, <1>3, <2>1, <3>1 DEF CreateNew, First
    <3>3. \A m \in snap \ todo : newId'[m] = newId[m]
      BY <1>1, <2>1, <3>2
    <3> QED  BY <1>1, <1>2, <1>3, <2>1, <2>3, <3>2, <3>3 DEF CreateNew
  <2>4. CASE ~r.ok
    BY <1>1, <1>3, <2>1, <2>4 DEF CreateNew, StageRaise
  <2> QED  BY <2>3, <2>4
<1>4. CASE RecordStaged(n)
  BY <1>1, <1>4 DEF RecordStaged
<1>5. CASE VerifyStaged(n)
  <2>1. n \in todo /\ newId[n] = [cert |-> "valid", ccd |-> TRUE]
    BY <1>5 DEF VerifyStaged, First
  <2> QED  BY <1>1, <1>5, <2>1 DEF VerifyStaged
<1>6. CASE PreserveInactive(n)
  <2>1. PICK r \in Served(n, StatusReplies(newId[n], FALSE), newId[n]) :
          /\ newId' = [newId EXCEPT ![n] = r.to]
          /\ IF r.ok THEN pc' = "create" /\ todo' = todo \ {n} /\ UNCHANGED bad
                     ELSE StageRaise
    BY <1>6 DEF PreserveInactive
  <2>2. r \in StatusReplies(newId[n], FALSE)
    BY ServedReply, RefusalIsAReply, Zenon
  <2>3. n \in todo /\ newId[n] = [cert |-> "valid", ccd |-> TRUE] /\ ~wasActive
    BY <1>6 DEF PreserveInactive, First
  <2>4. CASE r.ok
    <3>1. r.to = Switched(newId[n], FALSE)
      BY <1>1, <2>2, <2>4, StatusReply
    <3>2. r.to = [cert |-> "valid", ccd |-> wasActive]
      BY <1>1, <2>3, <3>1, SwitchedOff
    <3>3. newId'[n] = [cert |-> "valid", ccd |-> wasActive]
      BY <1>1, <2>1, <3>2
    <3>4. \A m \in snap \ todo : newId'[m] = newId[m]
      BY <1>1, <2>1, <2>3
    <3> QED  BY <1>1, <1>6, <2>1, <2>4, <3>3, <3>4 DEF PreserveInactive
  <2>5. CASE ~r.ok
    BY <1>1, <1>6, <2>1, <2>5 DEF PreserveInactive, StageRaise
  <2> QED  BY <2>4, <2>5
<1>7. CASE CreateTimeout(n) \/ StageMissing(n)
  BY <1>1, <1>7 DEF CreateTimeout, StageMissing, StageRaise
<1>8. CASE Unstage(n) \/ UnstageMissing(n)
  BY <1>1, <1>8 DEF Unstage, UnstageMissing
<1> QED  BY <1>3, <1>4, <1>5, <1>6, <1>7, <1>8 DEF Stage

\* The disabling loop: a node leaves it switched off, not listed and recorded.
LEMMA CleanCutover ==
  ASSUME IInv, CleanInv, NEW n \in Node, Cutover(n)
  PROVE  CleanInv'
<1> USE DEF CleanInv, Ahead, StopsInv, OffInv, ReadyInv, GoneInv, Prepared, NewReady, OldOff
<1>1. /\ state \in {"staging", "cutover"} /\ snap \subseteq Node /\ todo \subseteq snap
      /\ oldId \in [Node -> Identity] /\ listed \subseteq Node
  BY DEF IInv, TypeOK, ControlInv, Cutover, DisableOld, DisableMissing, ConfirmDisabled,
     RestoreOld, DiscardNew, RollbackMissing
<1>2. First(todo, n) => n \in todo /\ \A m \in todo : First(todo, m) => m = n
  BY <1>1, FirstUnique DEF First
<1>3. CASE DisableOld(n)
  <2>1. PICK r \in Served(n, StatusReplies(oldId[n], FALSE), oldId[n]) :
          /\ oldId' = [oldId EXCEPT ![n] = r.to]
          /\ revived' = IF r.ok THEN revived \ {n} ELSE revived
          /\ IF r.ok THEN pc' = "confirm" /\ UNCHANGED <<todo, bad>>
                     ELSE StartRollback
    BY <1>3 DEF DisableOld
  <2>2. r \in StatusReplies(oldId[n], FALSE)
    BY ServedReply, RefusalIsAReply, Zenon
  <2>3. /\ n \in todo /\ listed' \subseteq listed
        /\ \A m \in snap \ todo : oldId'[m] = oldId[m]
    BY <1>1, <1>2, <1>3, <2>1 DEF DisableOld
  <2>4. CASE r.ok
    <3>1. r.to = Switched(oldId[n], FALSE)
      BY <1>1, <2>2, <2>4, StatusReply
    <3>2. ~oldId'[n].ccd
      BY <1>1, <2>1, <3>1 DEF Switched
    <3> QED  BY <1>1, <1>2, <1>3, <2>1, <2>3, <2>4, <3>2 DEF DisableOld
  <2>5. CASE ~r.ok
    BY <1>1, <1>3, <2>1, <2>5 DEF DisableOld, StartRollback
  <2> QED  BY <2>4, <2>5
<1>4. CASE ConfirmDisabled(n)
  <2>1. n \in todo /\ (n \in revived \/ ~oldId[n].ccd) /\ n \notin listed
    BY <1>2, <1>4 DEF ConfirmDisabled
  <2> QED  BY <1>1, <1>4, <2>1 DEF ConfirmDisabled
<1>5. CASE DisableMissing(n)
  BY <1>1, <1>5 DEF DisableMissing, StartRollback
<1>6. CASE RestoreOld(n) \/ DiscardNew(n) \/ RollbackMissing(n)
  BY <1>1, <1>6 DEF RestoreOld, DiscardNew, RollbackMissing
<1> QED  BY <1>3, <1>4, <1>5, <1>6 DEF Cutover

\* What comes after the name has moved touches no new identity.
LEMMA CleanCleanup ==
  ASSUME IInv, CleanInv, NEW n \in Node, Cleanup(n)
  PROVE  CleanInv'
<1> USE DEF CleanInv, Ahead, StopsInv, OffInv, ReadyInv, GoneInv, Prepared
<1>1. state \in {"revoking_old", "cleanup_pending"} /\ pc' \in {"revoke", "inspect", "handler"}
      /\ state' = state /\ pc \in {"revoke", "inspect"}
  BY DEF IInv, ControlInv, Cleanup, RevokeOld, InspectRevoked, InspectFail, RevokeMissing
<1> QED  BY <1>1

\* The worker between its loops.
LEMMA CleanJob ==
  ASSUME IInv, CleanInv, JobStep
  PROVE  CleanInv'
<1> USE DEF CleanInv, Ahead, StopsInv, OffInv, ReadyInv, GoneInv, Prepared, NewReady, OldOff
<1>1. snap \subseteq Node /\ todo \subseteq snap /\ staged \subseteq snap /\ disabled \subseteq snap
  BY DEF IInv, TypeOK
<1>2. CASE Claim \/ PreflightPass \/ PreflightRaise
  BY <1>1, <1>2 DEF Claim, PreflightPass, PreflightRaise, Running, IInv, FreshInv
<1>3. CASE StartStaging
  BY <1>1, <1>3 DEF StartStaging
<1>4. CASE StagingDone
  BY <1>1, <1>4 DEF StagingDone, IInv, ControlInv
<1>5. CASE DisablingDone
  BY <1>1, <1>5 DEF DisablingDone, IInv, ControlInv
<1>6. CASE VerifyRaise \/ ConfirmRaise
  BY <1>1, <1>6 DEF VerifyRaise, StageRaise, ConfirmRaise, StartRollback, IInv, ControlInv
<1>7. CASE UnstageDone \/ RestoreDone \/ RollbackDone
  BY <1>1, <1>7 DEF UnstageDone, RestoreDone, RollbackDone, IInv, ControlInv
<1>8. CASE Commit \/ CommitRaise \/ StartRevoking \/ Complete \/ CleanupPending
  BY <1>1, <1>8 DEF Commit, CommitRaise, StartRevoking, Complete, CleanupPending, IInv, ControlInv
<1>9. CASE HandlerRollback \/ HandlerFail \/ HandlerPass \/ HandlerKeep \/ Release
  BY <1>1, <1>9 DEF HandlerRollback, StartRollback, HandlerFail, HandlerPass, HandlerKeep, Release,
     IInv, ControlInv, Running, Terminal
<1> QED  BY <1>2, <1>3, <1>4, <1>5, <1>6, <1>7, <1>8, <1>9 DEF JobStep

\* Nobody connects with an identity that is switched off.
LEMMA CleanOutside ==
  ASSUME IInv, CleanInv, \/ Queue \/ TakeName \/ \E n \in Node : Outside(n)
                         \/ UNCHANGED vars
  PROVE  CleanInv'
<1> USE DEF CleanInv, Ahead, StopsInv, OffInv, ReadyInv, GoneInv, Prepared, NewReady, OldOff
<1>1. snap \subseteq Node /\ newId \in [Node -> Identity] /\ listed \subseteq Node
  BY DEF IInv, TypeOK
<1>2. CASE Queue
  BY <1>1, <1>2 DEF Queue, IInv, FreshInv, ControlInv
<1>3. ASSUME NEW n \in Node, Connect(n)  PROVE CleanInv'
  BY <1>1, <1>3 DEF Connect, MayConnect
<1>4. ASSUME NEW n \in Node, BuildLands(n) \/ BuildFails(n)  PROVE CleanInv'
  BY <1>1, <1>4 DEF BuildLands, BuildFails
<1>5. ASSUME NEW n \in Node, Leave(n) \/ DeleteNode(n)  PROVE CleanInv'
  BY <1>1, <1>5 DEF Leave, DeleteNode
<1>6. CASE TakeName
  BY <1>1, <1>6 DEF TakeName
<1>7. CASE UNCHANGED vars
  BY <1>1, <1>7 DEF vars
<1>8. ASSUME NEW n \in Node, Revive(n)  PROVE CleanInv'
  <2>1. /\ UNCHANGED <<state, pc, todo, snap, staged, disabled, listed, wasActive, newId, building>>
        /\ revived' = revived \cup {n} /\ \A m \in Node : m # n => oldId'[m] = oldId[m]
    BY <1>8 DEF Revive, IInv, TypeOK
  <2>2. \A m \in snap : /\ OldOff(m) => OldOff(m)'
                        /\ m \in revived \/ ~oldId[m].ccd => m \in revived' \/ ~oldId'[m].ccd
    BY <1>1, <2>1
  <2>3. todo \subseteq snap
    BY DEF IInv, TypeOK
  <2>4. StopsInv' /\ OffInv' /\ ReadyInv'
    BY <1>1, <2>1
  <2>5. GoneInv'
    BY <1>1, <2>1, <2>2, <2>3 DEF First
  <2> QED  BY <2>1, <2>4, <2>5
<1> QED  BY <1>2, <1>3, <1>4, <1>5, <1>6, <1>7, <1>8 DEF Outside

\* As long as the worker does not die, the name moves only when the user can
\* connect under the new name on every node of the snapshot, if the account
\* was active, and under the old one only where somebody without the lock has
\* given it back: whatever calls are lost, builds land late, clients connect or
\* nodes are deleted.
THEOREM CleanMove ==
  ASSUME ~CanCrash
  PROVE  Spec => CutoverIsClean
<1>1. Init => CleanInv
  BY DEF Init, CleanInv, Ahead, StopsInv, OffInv, ReadyInv, GoneInv, Prepared
<1>2. IInv /\ CleanInv /\ [Next]_vars => CleanInv'
  BY CleanStage, CleanCutover, CleanCleanup, CleanJob, CleanOutside
  DEF Next, Worker, NodeStep, Crash
<1>3. ASSUME IInv, CleanInv, [Next]_vars, name' # name
      PROVE  \A n \in snap : NewReady(n) /\ OldOff(n)
  <2>1. Commit
    BY <1>3, ColumnStep DEF Revive
  <2> QED  BY <1>3, <2>1 DEF Commit, CleanInv, Ahead, ReadyInv, GoneInv, Prepared
<1>4. IInv /\ CleanInv /\ [Next]_vars => [name' # name => \A n \in snap : NewReady(n) /\ OldOff(n)]_vars
  BY <1>3
<1> QED  BY <1>1, <1>2, <1>4, Invariance, PTL DEF Spec, CutoverIsClean

=============================================================================
