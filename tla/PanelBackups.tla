---------------------------- MODULE PanelBackups ----------------------------
(***************************************************************************)
(* The backups of the panel's host: how the native commands make, rehearse,*)
(* pin, prune and read them back, and the retention of the panel itself.   *)
(*                                                                         *)
(* The native commands (backup, update, restore, rollback, recover) take   *)
(* turns under one lock and may die between any two steps. The panel's     *)
(* retention takes no lock: it runs when an administrator opens the list   *)
(* of backups, and a reboot may start the panel in the middle of anything. *)
(*                                                                         *)
(* Backups are numbered in the order they were made. What an operation     *)
(* does to the release, the database and the proxy is PanelHost's; here it *)
(* is one step, forward.                                                   *)
(***************************************************************************)
EXTENDS Naturals, FiniteSets

CONSTANTS MaxBackup,    \* bound on backups
          Checkpoints,  \* intact backups that pruning keeps, 3 in the code
          MaxHurt       \* bound on failures, kills and damage

VARIABLES postgres,  \* the database is PostgreSQL, and rehearsed in another one
          made,      \* backups there have been
          dirs,      \* their directories
          clones,    \* backups whose rehearsal database is on the server
          journal,   \* lifecycle-transaction.json and data-transaction.json
          last,      \* last-native-backup.json
          task,      \* the native command that runs
          removed,   \* history: backups the panel's retention removed
          stray,     \* history: databases of a createdb that took effect and failed
          hurt

vars == <<postgres, made, dirs, clones, journal, last, task, removed, stray, hurt>>

Backup == 1..MaxBackup
Journal == {"life", "data"}

\* state: "partial" has neither RESTORE_TEST_OK nor FAILED.json; whole: the
\* files are those of its checksums; record: its rehearsal database is named
\* in database-rehearsal.json; old: last changed before the retention time.
Directory(state, whole) ==
  [state |-> state, whole |-> whole, pinned |-> FALSE, old |-> FALSE, record |-> FALSE]
Absent == Directory("none", FALSE)
NoJournal == [state |-> "none", refs |-> {}, back |-> 0]

\* A command that is making no backup: its step, its journal, the backups it
\* names there and the one that its undoing reads.
Command(kind, where, j, refs, back) ==
  [kind |-> kind, at |-> where, of |-> j, cur |-> 0, refs |-> refs, back |-> back, spared |-> {}]
NoTask == Command("none", "idle", "life", {}, 0)

TypeOK ==
  /\ postgres \in BOOLEAN /\ made \in 0..MaxBackup
  /\ dirs \in [Backup -> [state : {"none", "partial", "verified", "failed"}, whole : BOOLEAN,
                          pinned : BOOLEAN, old : BOOLEAN, record : BOOLEAN]]
  /\ clones \subseteq Backup /\ last \in 0..MaxBackup
  /\ journal \in [Journal -> [state : {"none", "open", "complete", "rolled_back"},
                              refs : SUBSET Backup, back : 0..MaxBackup]]
  /\ task \in [kind : {"none", "backup", "update", "restore", "rollback", "recover"},
               at : {"idle", "cleanup", "probe", "rehearsals", "prune", "dump", "create", "restored",
                     "verify", "sealed", "made", "pin", "journal", "forward", "undo"},
               of : Journal, cur : 0..MaxBackup, refs : SUBSET Backup, back : 0..MaxBackup,
               spared : SUBSET Backup]
  /\ removed \subseteq Backup /\ stray \subseteq Backup /\ hurt \in Nat

Init == /\ postgres \in BOOLEAN /\ made = 0 /\ dirs = [b \in Backup |-> Absent]
        /\ clones = {} /\ journal = [j \in Journal |-> NoJournal] /\ last = 0
        /\ task = NoTask /\ removed = {} /\ stray = {} /\ hurt = 0

----------------------------------------------------------------------------
Idle == task.kind = "none"
At(where) == task.at = where
Hurt == hurt < MaxHurt /\ hurt' = hurt + 1

Open(j) == journal[j].state = "open"
Refs(j) == journal[j].refs
Intact == {b \in Backup : dirs[b].state = "verified" /\ dirs[b].whole}
Newest(S) == {b \in S : Cardinality({c \in S : c > b}) < Checkpoints}

\* What is written to a directory makes it young.
Write(b, d) == dirs' = [dirs EXCEPT ![b] = [d EXCEPT !.old = FALSE]]
SetJournal(j, state, refs, back) ==
  journal' = [journal EXCEPT ![j] = [state |-> state, refs |-> refs, back |-> back]]
Goto(where) == task' = [task EXCEPT !.at = where]

\* assert_transactions_idle
TransactionsIdle == \A j \in Journal : ~Open(j)
Starts(kind) == Idle /\ TransactionsIdle /\ task' = Command(kind, "rehearsals", "life", {}, 0)

----------------------------------------------------------------------------
(* What starts an operation.                                               *)

MakeBackup == Starts("backup") /\ UNCHANGED <<postgres, made, dirs, clones, journal, last, removed, stray, hurt>>
Update     == Starts("update") /\ UNCHANGED <<postgres, made, dirs, clones, journal, last, removed, stray, hurt>>

\* A restore names its source in the journal before anything else.
RestoreFrom(b) ==
  /\ Idle /\ TransactionsIdle
  /\ SetJournal("data", "open", {b}, 0)
  /\ task' = Command("restore", IF postgres THEN "probe" ELSE "rehearsals", "data", {b}, 0)

RestoreDatabase(b) ==
  /\ dirs[b].state \in {"verified", "failed"} /\ dirs[b].whole
  /\ RestoreFrom(b)
  /\ UNCHANGED <<postgres, made, dirs, clones, last, removed, stray, hurt>>

\* An upload becomes a backup like any other, and is restored.
RestoreUpload ==
  /\ made < MaxBackup /\ made' = made + 1
  /\ Write(made + 1, Directory("verified", TRUE))
  /\ RestoreFrom(made + 1)
  /\ UNCHANGED <<postgres, clones, last, removed, stray, hurt>>

\* The copy stops half-way; or the rehearsal of an upload of the first format
\* does, whose database is written down nowhere.
UploadFails ==
  /\ Idle /\ TransactionsIdle /\ made < MaxBackup /\ made' = made + 1 /\ Hurt
  /\ \/ Write(made + 1, Directory("partial", FALSE)) /\ UNCHANGED <<clones, stray>>
     \/ postgres /\ clones' = clones \cup {made + 1} /\ stray' = stray \cup {made + 1} /\ UNCHANGED dirs
  /\ UNCHANGED <<postgres, journal, last, task, removed>>

RollbackRelease ==
  /\ Idle /\ TransactionsIdle /\ journal["life"].state = "complete"
  /\ SetJournal("data", "open", {}, 0)
  /\ task' = Command("rollback", "forward", "data", {}, 0)
  /\ UNCHANGED <<postgres, made, dirs, clones, last, removed, stray, hurt>>

\* The clone that a PostgreSQL restore switches to is made and compared.
Probe ==
  /\ At("probe") /\ Goto("rehearsals")
  /\ UNCHANGED <<postgres, made, dirs, clones, journal, last, removed, stray, hurt>>

----------------------------------------------------------------------------
(* make_backup: what earlier ones left behind, then the backup.            *)

\* recover_backup_rehearsals. A drop that fails, and a record that is not an
\* hour old, leave the rest as it is.
RecoverRehearsal(b) ==
  /\ At("rehearsals") /\ dirs[b].record
  /\ clones' = clones \ {b}
  /\ Write(b, [dirs[b] EXCEPT !.record = FALSE, !.state = IF @ = "verified" THEN @ ELSE "failed"])
  /\ UNCHANGED <<postgres, made, journal, last, task, removed, stray, hurt>>

\* What pruning keeps is looked up once; without an intact backup it is all.
Spared(newest) ==
  IF Intact = {} THEN Backup
  ELSE Refs("life") \cup Refs("data") \cup (Backup \cap {newest}) \cup Newest(Intact)

EndRehearsals ==
  /\ At("rehearsals")
  /\ task' = [task EXCEPT !.at = "prune", !.spared = Spared(last)]
  /\ UNCHANGED <<postgres, made, dirs, clones, journal, last, removed, stray, hurt>>

\* prune_native_backups removes some, as the setting and errors will have it.
Prune(b) ==
  /\ At("prune") \/ At("made")
  /\ b \notin task.spared /\ dirs[b].old /\ ~dirs[b].pinned
  /\ \/ dirs[b].state = "failed" /\ ~dirs[b].record
     \/ dirs[b].state = "verified" /\ dirs[b].whole
  /\ dirs' = [dirs EXCEPT ![b] = Absent]
  /\ UNCHANGED <<postgres, made, clones, journal, last, task, removed, stray, hurt>>

Allocate ==
  /\ At("prune") /\ made < MaxBackup /\ made' = made + 1
  /\ Write(made + 1, Directory("partial", FALSE))
  /\ task' = [task EXCEPT !.at = "dump", !.cur = made + 1]
  /\ UNCHANGED <<postgres, clones, journal, last, removed, stray, hurt>>

\* The rehearsal database is written down before it is created.
Dump ==
  /\ At("dump")
  /\ IF postgres THEN Write(task.cur, [dirs[task.cur] EXCEPT !.record = TRUE]) /\ Goto("create")
                 ELSE UNCHANGED dirs /\ Goto("verify")
  /\ UNCHANGED <<postgres, made, clones, journal, last, removed, stray, hurt>>

CreateClone ==
  /\ At("create")
  /\ clones' = clones \cup {task.cur} /\ Goto("restored")
  /\ UNCHANGED <<postgres, made, dirs, journal, last, removed, stray, hurt>>

DropClone ==
  /\ At("restored")
  /\ clones' = clones \ {task.cur}
  /\ Write(task.cur, [dirs[task.cur] EXCEPT !.record = FALSE]) /\ Goto("verify")
  /\ UNCHANGED <<postgres, made, journal, last, removed, stray, hurt>>

\* metadata.json, SHA256SUMS and RESTORE_TEST_OK
Seal ==
  /\ At("verify")
  /\ Write(task.cur, [dirs[task.cur] EXCEPT !.state = "verified", !.whole = TRUE]) /\ Goto("sealed")
  /\ UNCHANGED <<postgres, made, clones, journal, last, removed, stray, hurt>>

\* The backup that was verified is the last one; what pruning keeps now is
\* looked up again.
NoteLast ==
  /\ At("sealed")
  /\ last' = task.cur
  /\ task' = [task EXCEPT !.at = "made", !.spared = Spared(last')]
  /\ UNCHANGED <<postgres, made, dirs, clones, journal, removed, stray, hurt>>

Made ==
  /\ At("made")
  /\ task' = IF task.kind = "backup" THEN NoTask
             ELSE [task EXCEPT !.at = "pin", !.refs = IF task.kind = "update" THEN {task.cur} ELSE @]
  /\ UNCHANGED <<postgres, made, dirs, clones, journal, last, removed, stray, hurt>>

----------------------------------------------------------------------------
(* A transaction: its backup is pinned, then named in its journal.         *)

\* The first backup of an update is not the one its undoing reads.
Pin ==
  /\ At("pin")
  /\ Write(task.cur, [dirs[task.cur] EXCEPT !.pinned = TRUE])
  /\ task' = [task EXCEPT !.at = "journal", !.refs = @ \cup {task.cur},
                          !.back = IF Open(task.of) THEN task.cur ELSE 0]
  /\ UNCHANGED <<postgres, made, clones, journal, last, removed, stray, hurt>>

WriteJournal ==
  /\ At("journal")
  /\ SetJournal(task.of, "open", task.refs, task.back)
  /\ task' = [task EXCEPT !.at = "forward", !.cur = 0]
  /\ UNCHANGED <<postgres, made, dirs, clones, last, removed, stray, hurt>>

\* An update builds and tries its release; with the writers paused it takes
\* another backup.
Canary ==
  /\ At("forward") /\ task.kind = "update" /\ task.back = 0
  /\ Goto("rehearsals")
  /\ UNCHANGED <<postgres, made, dirs, clones, journal, last, removed, stray, hurt>>

Complete ==
  /\ At("forward") /\ (task.kind = "update" => task.back # 0)
  /\ journal' = [j \in Journal |->
       CASE j = task.of -> [state |-> "complete", refs |-> task.refs, back |-> task.back]
         [] task.kind = "rollback" /\ j = "life" -> [journal[j] EXCEPT !.state = "rolled_back"]
         [] OTHER -> journal[j]]
  /\ task' = NoTask
  /\ UNCHANGED <<postgres, made, dirs, clones, last, removed, stray, hurt>>

\* restore_recorded_environment and recover_data_transaction read the backup.
Undo ==
  /\ At("undo")
  /\ IF task.back # 0 => dirs[task.back].whole
     THEN SetJournal(task.of, "rolled_back", task.refs, task.back)
     ELSE UNCHANGED journal
  /\ task' = NoTask
  /\ UNCHANGED <<postgres, made, dirs, clones, last, removed, stray, hurt>>

----------------------------------------------------------------------------
(* recover_transaction: every rehearsal that is written down is cleaned up *)
(* first, then the open journal's transaction is undone.                   *)

Recover ==
  /\ Idle
  /\ task' = Command("recover", "cleanup", "life", {}, 0)
  /\ UNCHANGED <<postgres, made, dirs, clones, journal, last, removed, stray, hurt>>

CleanRehearsal(b) ==
  /\ At("cleanup") /\ dirs[b].record
  /\ clones' = clones \ {b}
  /\ Write(b, [dirs[b] EXCEPT !.record = FALSE])
  /\ UNCHANGED <<postgres, made, journal, last, task, removed, stray, hurt>>

UndoOf(j) == Command("recover", "undo", j, Refs(j), journal[j].back)

EndCleanup ==
  /\ At("cleanup") /\ \A b \in Backup : ~dirs[b].record
  /\ task' = IF Open("data") THEN UndoOf("data") ELSE IF Open("life") THEN UndoOf("life") ELSE NoTask
  /\ UNCHANGED <<postgres, made, dirs, clones, journal, last, removed, stray, hurt>>

----------------------------------------------------------------------------
(* Failures.                                                               *)

\* A transaction with a journal is undone by whoever runs it.
Unwind ==
  IF Open(task.of) THEN Command(task.kind, "undo", task.of, task.refs, task.back) ELSE NoTask

\* FAILED.json is written, unless that fails too.
MarkFailed(d) == \E s \in {"failed", d.state} : Write(task.cur, [d EXCEPT !.state = s])

BackupFails ==
  /\ Hurt /\ task' = Unwind
  /\ \/ /\ At("dump") \/ At("verify") \/ At("sealed")
        /\ MarkFailed(dirs[task.cur])
        /\ UNCHANGED <<clones, stray>>
     \/ /\ At("create")  \* the record goes, whatever the command had done
        /\ MarkFailed([dirs[task.cur] EXCEPT !.record = FALSE])
        /\ \/ UNCHANGED <<clones, stray>>
           \/ clones' = clones \cup {task.cur} /\ stray' = stray \cup {task.cur}
     \/ /\ At("restored")  \* the drop itself may be what fails
        /\ \/ clones' = clones \ {task.cur} /\ MarkFailed([dirs[task.cur] EXCEPT !.record = FALSE])
           \/ UNCHANGED clones /\ MarkFailed(dirs[task.cur])
        /\ UNCHANGED stray
  /\ UNCHANGED <<postgres, made, journal, last, removed>>

StepFails ==
  /\ Hurt
  /\ \/ task.at \in {"rehearsals", "prune", "made", "pin", "journal", "forward"} /\ task' = Unwind
     \/ task.at \in {"cleanup", "probe", "undo"} /\ task' = NoTask
  /\ UNCHANGED <<postgres, made, dirs, clones, journal, last, removed, stray>>

Kill ==
  /\ ~Idle /\ Hurt /\ task' = NoTask
  /\ UNCHANGED <<postgres, made, dirs, clones, journal, last, removed, stray>>

\* A file of a backup is not what it was when it was made.
Damage(b) ==
  /\ dirs[b].whole /\ b # task.cur /\ Hurt
  /\ dirs' = [dirs EXCEPT ![b].whole = FALSE]
  /\ UNCHANGED <<postgres, made, clones, journal, last, task, removed, stray>>

\* The retention time passes; no command runs that long.
Age ==
  /\ Idle
  /\ dirs' = [b \in Backup |-> [dirs[b] EXCEPT !.old = (dirs[b].state # "none")]]
  /\ UNCHANGED <<postgres, made, clones, journal, last, task, removed, stray, hurt>>

\* Wrong: whatever is old goes.
RetentionForAll(b) ==
  /\ dirs[b].old
  /\ dirs' = [dirs EXCEPT ![b] = Absent] /\ removed' = removed \cup {b}
  /\ UNCHANGED <<postgres, made, clones, journal, last, task, stray, hurt>>

\* _apply_retention of the panel: only a pin holds a directory.
ApplyRetention(b) ==
  /\ dirs[b].old /\ ~dirs[b].pinned
  /\ dirs' = [dirs EXCEPT ![b] = Absent] /\ removed' = removed \cup {b}
  /\ UNCHANGED <<postgres, made, clones, journal, last, task, stray, hurt>>

Next ==
  \/ MakeBackup \/ Update \/ RestoreUpload \/ UploadFails \/ RollbackRelease \/ Probe
  \/ EndRehearsals \/ Allocate \/ Dump \/ CreateClone \/ DropClone \/ Seal \/ NoteLast \/ Made
  \/ Pin \/ WriteJournal \/ Canary \/ Complete \/ Undo \/ Recover \/ EndCleanup
  \/ BackupFails \/ StepFails \/ Kill \/ Age
  \/ \E b \in Backup : \/ RestoreDatabase(b) \/ RecoverRehearsal(b) \/ Prune(b)
                       \/ CleanRehearsal(b) \/ Damage(b) \/ ApplyRetention(b)

Spec == Init /\ [][Next]_vars

----------------------------------------------------------------------------
(* What recovery needs is there. An open journal's undoing finds the backup   *)
(* it is to read, verified and pinned, and every other backup it names is     *)
(* gone only where the panel's retention removed it; and every rehearsal      *)
(* database is written down in its backup, unless retention removed that or   *)
(* the createdb that made it failed.                                          *)
RecoveryFinds ==
  /\ \A j \in Journal : Open(j) =>
       /\ journal[j].back # 0 => dirs[journal[j].back].state = "verified" /\ dirs[journal[j].back].pinned
       /\ \A b \in Refs(j) : dirs[b].state # "none" \/ b \in removed
  /\ clones \subseteq {b \in Backup : dirs[b].record} \cup removed \cup stray
=============================================================================
