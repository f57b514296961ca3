------------------------- MODULE NodeMaintenanceProofs -------------------------
(***************************************************************************)
(* Proofs about NodeMaintenance: its types, that the agent is whole        *)
(* whenever no operation is pending on it, and that traffic once counted   *)
(* stays counted through restores and recoveries.                          *)
(***************************************************************************)
EXTENDS NodeMaintenance, TLAPS

AgentJournal ==
    [state : AgentState, previous : Version, version : Version, pin : Protected]

DataJournal ==
    [state : DataState, mode : {"live", "offline"}, repairs : SUBSET File, saved : Content,
     source : Archived, pin : Protected, db : 0 .. MaxLedger,
     services : SUBSET Service, desired : SUBSET Service]

JournalsOK == agent \in AgentJournal /\ data \in DataJournal /\ pin \in Protected

\* Outside of a switch the running agent is the release that the pointer and
\* the journal name.
Named ==
    IF agent.state = "complete" THEN app = agent.version
    ELSE agent.state # "none" => app = agent.previous

SwitchOpen == agent.state \in {"switching", "switched"}

AgentInv == ~SwitchOpen => Named /\ running \in {app, Down}

\* Where an operation on the agent is, its journal says so.
UpgradeInv ==
    op = "upgrade" =>
        /\ at \in {"build", "canary", "switching", "pointer", "switched", "restart", "ready"}
        /\ at \in {"build", "canary"} => agent.state = "building"
        /\ at = "switching" => agent.state = "canary_verified"
        /\ at \in {"pointer", "switched", "restart", "ready"} => SwitchOpen
        /\ at \in {"switched", "restart", "ready"} => app = agent.version
        /\ at = "ready" => running = app

RollbackInv ==
    op = "rollback" =>
        /\ at \in {"switching", "pointer", "restart", "ready"}
        /\ at = "switching" => agent.state = "complete"
        /\ at # "switching" => SwitchOpen
        /\ at \in {"restart", "ready"} => app = agent.previous
        /\ at = "ready" => running = app

UndoInv ==
    op = "undo" =>
        /\ at \in {"restart", "ready"}
        /\ agent.state = "complete" \/ SwitchOpen
        /\ app = agent.version
        /\ at = "ready" => running = app

RecoverInv ==
    op = "recoverAgent" =>
        /\ at \in {"stop", "restart", "ready", "verify"}
        /\ ~AgentResolved
        /\ at # "stop" => app = agent.previous
        /\ at \in {"ready", "verify"} => running \in {app, Down}

\* A canary is known to the journal, and nobody gets past it.
CanaryInv ==
    canary =>
        /\ agent.state = "building"
        /\ op = "upgrade" => at = "canary"
        /\ op = "recoverAgent" => at = "stop"

\* From the snapshot of the counters on the agent that counts is stopped.
LedgerInv ==
    /\ op = "restore" =>
        /\ at \in {"quiescing", "stop"} =>
               running = Down \/ data.mode = "live" \/ "agent" \in data.services
        /\ at \in {"snapshot", "switching", "files"} => running = Down
        /\ at \in {"switching", "files"} => data.db = ledger
    /\ op = "recoverData" /\ at = "files" => running # Down \/ held = ledger

Inv ==
    /\ TypeOK /\ JournalsOK
    /\ AgentInv /\ UpgradeInv /\ RollbackInv /\ UndoInv /\ RecoverInv /\ CanaryInv
    /\ LedgerInv

-----------------------------------------------------------------------------
(* Types. *)

\* There is always a process number left.
LEMMA NewIsProcess ==
  NewProcess \in Process
<1>1. ASSUME NEW a, NEW b, NEW c, NEW d
      PROVE  \E p \in Process : p \notin {a, b, c, d}
  BY DEF Process
<1>2. \E p \in Process : p \notin {vpn, pin[1], agent.pin[1], data.pin[1]}
  BY <1>1
<1> QED
  BY <1>2 DEF NewProcess

\* The merge stays within the bound of the counters.
LEMMA TypeOfMerged ==
  ASSUME TypeOK, JournalsOK
  PROVE  Merged \in 0 .. MaxLedger
<1>1. data.source.ledger \in 0 .. MaxLedger /\ data.db \in 0 .. MaxLedger
  BY DEF JournalsOK, DataJournal, Archived
<1> QED
  BY <1>1 DEF TypeOK, Merged, Higher

\* The snapshot of the VPN.
LEMMA TypeOfSnap ==
  ASSUME TypeOK
  PROVE  Snap \in Protected
<1>1. disk["pki"] \in {"good", "bad"}
  BY DEF TypeOK, Content, File
<1> QED
  BY <1>1 DEF TypeOK, Snap, Protected

\* Writing a state into a journal changes nothing else in it.
LEMMA AgentSet ==
  ASSUME JournalsOK, NEW s \in AgentState, SetAgent(s)
  PROVE  /\ agent' \in AgentJournal
         /\ agent'.state = s /\ agent'.previous = agent.previous
         /\ agent'.version = agent.version /\ agent'.pin = agent.pin
  BY DEF JournalsOK, AgentJournal, SetAgent

LEMMA DataSet ==
  ASSUME JournalsOK, NEW s \in DataState, SetData(s)
  PROVE  /\ data' \in DataJournal
         /\ data'.state = s /\ data'.mode = data.mode /\ data'.services = data.services
         /\ data'.repairs = data.repairs /\ data'.db = data.db
  BY DEF JournalsOK, DataJournal, SetData

LEMMA TypeOfClosed ==
  ASSUME NEW s \in DataState
  PROVE  Closed(s) \in DataJournal
<1>1. AllGood \in Content
  BY DEF AllGood, Content
<1>2. [disk |-> AllGood, ledger |-> 0] \in Archived
  BY <1>1, BoundAssumption DEF Archived
<1>3. <<0, "good">> \in Protected
  BY DEF Protected, Process
<1> QED
  BY <1>1, <1>2, <1>3, BoundAssumption DEF Closed, DataJournal

\* A failure is counted within its bound.
LEMMA TypeOfFaults ==
  ASSUME TypeOK, NEW checks, Failure(checks)
  PROVE  faults' \in 0 .. MaxFaults
<1>1. CASE faults < MaxFaults /\ faults' = faults + 1
  BY <1>1, BoundAssumption DEF TypeOK
<1>2. CASE UNCHANGED faults
  BY <1>2 DEF TypeOK
<1> QED
  BY <1>1, <1>2 DEF Failure

LEMMA TypeStep ==
  ASSUME TypeOK, JournalsOK, [Next]_vars
  PROVE  TypeOK' /\ JournalsOK'
<1> USE DEF TypeOK, JournalsOK
<1>0. /\ agent.state \in AgentState /\ agent.previous \in Version /\ agent.version \in Version
      /\ agent.pin \in Protected
      /\ data.state \in DataState /\ data.repairs \subseteq File /\ data.saved \in Content
      /\ data.source \in Archived /\ data.pin \in Protected /\ data.db \in 0 .. MaxLedger
      /\ <<0, "good">> \in Protected
  BY DEF AgentJournal, DataJournal, Protected, Process
<1>1. CASE UNCHANGED vars
  BY <1>1 DEF vars, host, helper
<1>2. CASE Backup \/ \E v \in Version : Upgrade(v)
  <2>1. Archive \in SUBSET Archived
    BY DEF Archive, Archived
  <2>2. CASE Backup
    BY <2>1, <2>2 DEF Backup, helper
  <2>3. ASSUME NEW v \in Version, Upgrade(v)  PROVE TypeOK' /\ JournalsOK'
    <3>1. agent' \in AgentJournal /\ pin' \in Protected /\ agent'.state = "building"
      BY <2>3, TypeOfSnap DEF Upgrade, AgentJournal, AgentState
    <3> QED
      BY <2>1, <2>3, <3>1, BoundAssumption DEF Upgrade, Order, AgentState
  <2> QED
    BY <1>2, <2>2, <2>3
<1>3. CASE Rollback \/ RecoverAgent \/ RecoverData
  BY <1>0, <1>3, TypeOfSnap, BoundAssumption DEF Rollback, RecoverAgent, RecoverData, Order, host
<1>4. CASE RestoreLive \/ RestoreOffline
  <2>1. Active \in SUBSET Service /\ {"agent"} \in SUBSET Service
    BY DEF Active, Service
  <2>2. PICK mode \in {"live", "offline"}, a \in Archived, desired \in SUBSET Service :
          Prepare(mode, a, desired)
    BY <1>4, <2>1 DEF RestoreLive, RestoreOffline
  <2>3. a.disk \in Content /\ Differs(a.disk) \subseteq File
    BY <2>2 DEF Archived, Differs
  <2>4. data' \in DataJournal /\ pin' \in Protected /\ data'.state = "prepared"
        /\ data'.repairs = Differs(a.disk)
    BY <2>1, <2>2, <2>3, TypeOfSnap, BoundAssumption DEF Prepare, DataJournal, DataState
  <2>5. UNCHANGED <<host, agent, todo, held, faults, outages>> /\ orders' \in 0 .. MaxOrders
    BY <1>4, BoundAssumption DEF RestoreLive, RestoreOffline, Order
  <2> QED
    BY <2>3, <2>4, <2>5 DEF host, DataState
<1>5. CASE StartCanary \/ Pointer \/ RestartAgent \/ RecoverPointer
  BY <1>0, <1>5 DEF StartCanary, Pointer, RestartAgent, RecoverPointer
<1>6. CASE CanaryVerified \/ Switching \/ Switched
  BY <1>0, <1>6, AgentSet DEF CanaryVerified, Switching, Switched, AgentState, host
<1>7. CASE AgentReady
  <2>1. PICK s \in {"complete", "rolled_back"} : SetAgent(s)
    BY <1>7 DEF AgentReady
  <2> QED
    BY <1>0, <1>7, <2>1, AgentSet, BoundAssumption DEF AgentReady, Idle, AgentState, host
<1>8. CASE UpgradeFails \/ RollbackFails \/ RecoverAgentFails
  <2>1. faults' \in 0 .. MaxFaults
    BY <1>8, TypeOfFaults DEF UpgradeFails, RollbackFails, RecoverAgentFails
  <2>2. CASE UpgradeFails
    BY <1>0, <2>1, <2>2 DEF UpgradeFails
  <2>3. CASE RollbackFails
    BY <1>0, <2>1, <2>3 DEF RollbackFails
  <2>4. CASE RecoverAgentFails
    BY <1>0, <2>1, <2>4, BoundAssumption DEF RecoverAgentFails, Idle, host
  <2> QED
    BY <1>8, <2>2, <2>3, <2>4
<1>9. CASE Quiescing \/ SwitchingData \/ Healthy
  BY <1>0, <1>9, DataSet DEF Quiescing, SwitchingData, Healthy, host, DataState
<1>10. CASE StopServices
  <2>1. data' \in DataJournal
    BY <1>10, DataSet DEF StopServices, DataState
  <2> QED
    BY <1>10, <2>1 DEF StopServices, DataJournal
<1>11. CASE SaveLedger
  <2>1. data' \in DataJournal
    BY <1>11 DEF SaveLedger, DataJournal
  <2> QED
    BY <1>11, <2>1 DEF SaveLedger, host, DataJournal
<1>12. CASE HoldLedger \/ RecoverBegin
  BY <1>0, <1>12 DEF HoldLedger, RecoverBegin, host
<1>13. ASSUME NEW f \in File, WriteFile(f)  PROVE TypeOK' /\ JournalsOK'
  <2>1. data.saved[f] \in {"good", "bad"} /\ data.source.disk[f] \in {"good", "bad"}
    BY <1>0 DEF Content, Archived
  <2>2. disk' \in Content
    BY <1>13, <2>1 DEF WriteFile, Content
  <2> QED
    BY <1>13, <2>2 DEF WriteFile
<1>14. CASE SwitchLedger
  <2>1. data' \in DataJournal
    BY <1>14, DataSet DEF SwitchLedger, DataState
  <2> QED
    BY <1>14, <2>1, TypeOfMerged DEF SwitchLedger, DataJournal
<1>15. CASE StartServices
  BY <1>15, NewIsProcess DEF StartServices
<1>16. CASE CompleteData \/ RolledBack
  <2>1. data' \in DataJournal
    BY <1>16, TypeOfClosed DEF CompleteData, RolledBack, DataState
  <2> QED
    BY <1>0, <1>16, <2>1, BoundAssumption DEF CompleteData, RolledBack, Idle, host, DataJournal
<1>17. CASE RestoreFails \/ RecoverDataFails
  <2>1. faults' \in 0 .. MaxFaults
    BY <1>17, TypeOfFaults DEF RestoreFails, RecoverDataFails
  <2> QED
    BY <1>0, <1>17, <2>1, BoundAssumption DEF RestoreFails, RecoverDataFails, Idle, host
<1>18. CASE Sample
  BY <1>18, BoundAssumption DEF Sample, helper
<1>19. CASE Kill
  BY <1>0, <1>19, BoundAssumption DEF Kill, Idle, host
<1>20. CASE Reboot \/ VpnRestarts
  <2>1. vpn' \in Process /\ outages' \in 0 .. MaxOutages
    BY <1>20, NewIsProcess, BoundAssumption DEF Reboot, VpnRestarts, Outage
  <2>2. CASE Reboot
    <3>1. /\ UNCHANGED <<app, disk, ledger, arch, agent, data, faults, orders>>
          /\ running' = app /\ todo' = {} /\ held' = 0 /\ pin' = <<0, "good">>
      BY <2>2 DEF Reboot, Idle
    <3>2. vup' \in BOOLEAN /\ canary' \in BOOLEAN
      BY <2>2, Zenon DEF Reboot
    <3> QED
      BY <1>0, <2>1, <3>1, <3>2, BoundAssumption
  <2>3. CASE VpnRestarts
    BY <2>1, <2>3 DEF VpnRestarts, helper
  <2> QED
    BY <1>20, <2>2, <2>3
<1>21. CASE Damage
  <2>1. disk' \in Content /\ ledger' \in 0 .. MaxLedger /\ outages' \in 0 .. MaxOutages
    BY <1>21, BoundAssumption DEF Damage, Content, Outage
  <2> QED
    BY <1>21, <2>1 DEF Damage, helper
<1> QED
  BY <1>1, <1>2, <1>3, <1>4, <1>5, <1>6, <1>7, <1>8, <1>9, <1>10, <1>11, <1>12, <1>13, <1>14, <1>15,
     <1>16, <1>17, <1>18, <1>19, <1>20, <1>21 DEF Next, AgentStep, DataStep

-----------------------------------------------------------------------------
(* The agent. *)

AgentPart == AgentInv /\ UpgradeInv /\ RollbackInv /\ UndoInv /\ RecoverInv /\ CanaryInv

LEMMA AgentPartStep ==
  ASSUME TypeOK, JournalsOK, AgentPart, [Next]_vars
  PROVE  AgentPart'
<1> USE DEF AgentPart, AgentInv, UpgradeInv, RollbackInv, UndoInv, RecoverInv, CanaryInv, Named, SwitchOpen,
        AgentResolved, Final
<1>1. CASE UNCHANGED vars
  BY <1>1 DEF vars, host, helper
<1>2. CASE Backup \/ \E v \in Version : Upgrade(v)
  BY <1>2 DEF Backup, Upgrade, Order, Goto, helper
<1>3. CASE Rollback \/ RecoverAgent \/ RecoverData
  BY <1>3 DEF Rollback, RecoverAgent, RecoverData, Order, Goto, host
<1>4. CASE RestoreLive \/ RestoreOffline
  <2>1. op' = "restore" /\ UNCHANGED <<host, agent>>
    BY <1>4 DEF RestoreLive, RestoreOffline, Prepare, Goto
  <2> QED
    BY <2>1 DEF host
<1>5. CASE StartCanary \/ Pointer \/ RestartAgent
  BY <1>5 DEF StartCanary, Pointer, RestartAgent, Goto
<1>6. CASE CanaryVerified \/ Switching \/ Switched
  BY <1>6, AgentSet DEF CanaryVerified, Switching, Switched, Goto, host, AgentState
<1>7. CASE AgentReady
  <2>1. agent'.state = (IF op \in {"upgrade", "undo"} THEN "complete" ELSE "rolled_back")
        /\ agent'.previous = agent.previous /\ agent'.version = agent.version
    BY <1>7, AgentSet DEF AgentReady, AgentState
  <2> QED
    BY <1>7, <2>1 DEF AgentReady, Idle, host
<1>8. CASE RecoverPointer
  BY <1>8 DEF RecoverPointer, Goto, JournalsOK, AgentJournal, AgentState
<1>9. CASE UpgradeFails
  <2>1. UNCHANGED <<app, running, agent>>
    BY <1>9 DEF UpgradeFails
  <2>3. canary' = FALSE \/ canary' = canary
    BY <1>9, Zenon DEF UpgradeFails
  <2>2. op = "upgrade" /\ op' = "recoverAgent" /\ at' = "stop" /\ agent.state \in AgentState
    BY <1>9 DEF UpgradeFails, Goto, TypeOK
  <2> QED
    BY <2>1, <2>2, <2>3 DEF AgentState
<1>14. CASE RollbackFails
  BY <1>14 DEF RollbackFails, Goto
<1>15. CASE RecoverAgentFails
  BY <1>15 DEF RecoverAgentFails, Idle, host
<1>10. CASE DataStep
  <2>1. /\ op \in {"restore", "recoverData"} /\ op' \in {"restore", "recoverData", "none"}
        /\ UNCHANGED <<app, canary, agent>>
        /\ running' \in {running, Down, app}
    BY <1>10 DEF DataStep, Quiescing, StopServices, SaveLedger, HoldLedger, SwitchingData, WriteFile,
       SwitchLedger, StartServices, Healthy, CompleteData, RestoreFails, RecoverBegin, RolledBack,
       RecoverDataFails, Goto, Idle, host
  <2> QED
    BY <2>1
<1>11. CASE Sample \/ Kill \/ VpnRestarts
  BY <1>11 DEF Sample, Kill, VpnRestarts, Idle, helper, host
<1>12. CASE Reboot
  BY <1>12 DEF Reboot, Idle
<1>13. CASE Damage
  BY <1>13 DEF Damage, helper
<1> QED
  BY <1>1, <1>2, <1>3, <1>4, <1>5, <1>6, <1>7, <1>8, <1>9, <1>10, <1>11, <1>12, <1>13,
     <1>14, <1>15 DEF Next, AgentStep

-----------------------------------------------------------------------------
(* The counters. *)

LEMMA LedgerStep ==
  ASSUME TypeOK, JournalsOK, LedgerInv, [Next]_vars
  PROVE  LedgerInv'
<1> USE DEF LedgerInv
<1>1. CASE op' \notin {"restore", "recoverData"}
  BY <1>1
<1>2. CASE UNCHANGED vars
  BY <1>2 DEF vars, host, helper
<1>3. CASE Backup
  BY <1>3 DEF Backup, helper
<1>4. CASE RestoreLive \/ RestoreOffline
  <2>1. op' = "restore" /\ at' = "quiescing" /\ data'.services = Active /\ running' = running
    BY <1>4 DEF RestoreLive, RestoreOffline, Prepare, Goto, host
  <2> QED
    BY <2>1 DEF Active
<1>5. CASE RecoverData \/ RestoreFails
  BY <1>5 DEF RecoverData, RestoreFails, Goto
<1>6. CASE Quiescing \/ SwitchingData
  BY <1>6, DataSet DEF Quiescing, SwitchingData, Goto, host, DataState
<1>14. CASE SaveLedger \/ HoldLedger
  BY <1>14 DEF SaveLedger, HoldLedger, Goto, host, JournalsOK, DataJournal
<1>7. CASE StopServices
  BY <1>7 DEF StopServices, Stopped, Goto
<1>8. ASSUME NEW f \in File, WriteFile(f)  PROVE LedgerInv'
  BY <1>8 DEF WriteFile
<1>9. CASE SwitchLedger \/ StartServices \/ Healthy \/ CompleteData \/ RecoverBegin \/ RolledBack
  BY <1>9 DEF SwitchLedger, StartServices, Healthy, CompleteData, RecoverBegin, RolledBack, Goto, Idle
<1>10. CASE Sample
  BY <1>10 DEF Sample, helper
<1>11. CASE VpnRestarts
  BY <1>11 DEF VpnRestarts, helper
<1>12. CASE Damage
  BY <1>12 DEF Damage, helper
<1>13. CASE AgentStep \/ RecoverAgent \/ Rollback \/ Kill \/ Reboot \/ RecoverDataFails
            \/ \E v \in Version : Upgrade(v)
  <2>1. op' \notin {"restore", "recoverData"}
    BY <1>13 DEF AgentStep, StartCanary, CanaryVerified, Switching, Pointer, Switched, RestartAgent,
       AgentReady, RecoverPointer, UpgradeFails, RollbackFails, RecoverAgentFails, RecoverAgent, Rollback,
       Kill, Reboot, RecoverDataFails, Upgrade, Goto, Idle
  <2> QED
    BY <1>1, <2>1
<1> QED
  BY <1>2, <1>3, <1>4, <1>5, <1>6, <1>7, <1>8, <1>9, <1>10, <1>11, <1>12, <1>13, <1>14 DEF Next, DataStep

\* Only the sampler, the merge and damage touch the counters.
LEMMA CountersStep ==
  ASSUME TypeOK, JournalsOK, LedgerInv, [Next]_vars
  PROVE  ledger' >= ledger \/ ledger' = 0 \/ WriterLeft
<1>1. CASE SwitchLedger
  <2>1. data.source.ledger \in 0 .. MaxLedger /\ data.db \in 0 .. MaxLedger /\ ledger \in 0 .. MaxLedger
        /\ held \in 0 .. MaxLedger
    BY DEF JournalsOK, DataJournal, Archived, TypeOK
  <2>2. op = "recoverData" /\ running = Down => held = ledger
    BY <1>1 DEF SwitchLedger, LedgerInv
  <2>3. op = "restore" => data.db = ledger
    BY <1>1 DEF SwitchLedger, LedgerInv
  <2> QED
    BY <1>1, <2>1, <2>2, <2>3 DEF SwitchLedger, Merged, Higher, WriterLeft
<1>2. CASE Sample \/ Damage
  <2>1. ledger \in Nat /\ (ledger' \in {ledger, ledger + 1} \/ ledger' = 0)
    <3>1. ledger \in Nat
      BY BoundAssumption DEF TypeOK
    <3>2. CASE Sample
      BY <3>1, <3>2 DEF Sample
    <3>3. CASE Damage
      BY <3>1, <3>3 DEF Damage
    <3> QED
      BY <1>2, <3>2, <3>3
  <2> QED
    BY <2>1
<1>3. CASE ~SwitchLedger /\ ~Sample /\ ~Damage
  <2>1. ledger' = ledger
    BY <1>3 DEF vars, host, Next, AgentStep, DataStep, Backup, Upgrade, Rollback, RecoverAgent, RestoreLive,
       RestoreOffline, RecoverData, StartCanary, CanaryVerified, Switching, Pointer, Switched, RestartAgent,
       AgentReady, RecoverPointer, UpgradeFails, RollbackFails, RecoverAgentFails, Quiescing, StopServices,
       SaveLedger, HoldLedger, SwitchingData, WriteFile, StartServices, Healthy, CompleteData, RestoreFails,
       RecoverBegin, RolledBack, RecoverDataFails, Kill, Reboot, VpnRestarts
  <2> QED
    BY <2>1 DEF TypeOK
<1> QED
  BY <1>1, <1>2, <1>3

-----------------------------------------------------------------------------
(* The theorems. *)

LEMMA InitInv == Init => Inv
<1> SUFFICES ASSUME Init PROVE Inv
  OBVIOUS
<1>1. AllGood \in Content /\ data \in DataJournal /\ 1 \in Version /\ <<0, "good">> \in Protected
  BY TypeOfClosed, VersionAssumption DEF Init, DataState, AllGood, Content, Version, Protected, Process
<1>2. agent \in AgentJournal
  BY <1>1 DEF Init, AgentJournal, AgentState
<1>4. TypeOK /\ JournalsOK
  <2>1. agent.state \in AgentState /\ data.state \in DataState /\ data.repairs \subseteq File
    BY <1>1, <1>2 DEF AgentJournal, DataJournal
  <2>2. disk \in Content /\ ledger \in 0 .. MaxLedger /\ held \in 0 .. MaxLedger /\ vpn \in Process
    BY <1>1, BoundAssumption DEF Init, Process
  <2>3. faults \in 0 .. MaxFaults /\ outages \in 0 .. MaxOutages /\ orders \in 0 .. MaxOrders
    BY BoundAssumption DEF Init
  <2> QED
    BY <1>1, <1>2, <2>1, <2>2, <2>3 DEF Init, TypeOK, JournalsOK
<1>3. AgentPart /\ LedgerInv
  BY DEF Init, AgentPart, AgentInv, UpgradeInv, RollbackInv, UndoInv, RecoverInv, CanaryInv, Named, SwitchOpen,
     LedgerInv
<1> QED
  BY <1>3, <1>4 DEF Inv, AgentPart

LEMMA AlwaysInv == Spec => []Inv
<1>1. Init => Inv
  BY InitInv
<1>2. Inv /\ [Next]_vars => Inv'
  BY TypeStep, AgentPartStep, LedgerStep DEF Inv, AgentPart
<1> QED
  BY <1>1, <1>2, PTL DEF Spec

\* Types: what the host, the journals and the helper may hold.
THEOREM MaintenanceTypes == Spec => []TypeOK
<1>1. Inv => TypeOK
  BY DEF Inv
<1> QED
  BY <1>1, AlwaysInv, PTL

\* However often upgrades, rollbacks and recoveries are killed, fail or are cut
\* short by a reboot: a node with no operation pending runs the release that its
\* pointer and its journal name, and no canary.
THEOREM AgentIsWhole == Spec => []WholeWhenResolved
<1>1. Inv => WholeWhenResolved
  BY DEF Inv, WholeWhenResolved, AgentInv, CanaryInv, Named, SwitchOpen, AgentResolved, Final
<1> QED
  BY <1>1, AlwaysInv, PTL

\* Restores and their recoveries never take traffic out of the accounting
\* database, whatever the archive, the saved copy and the sampler hold, but for
\* the agent that an offline recovery does not stop.
THEOREM CountersAreKept == Spec => CountersKept
<1>1. Inv /\ [Next]_vars => [ledger' >= ledger \/ ledger' = 0 \/ WriterLeft]_vars
  BY CountersStep DEF Inv
<1> QED
  BY <1>1, AlwaysInv, PTL DEF Spec, CountersKept
================================================================================
