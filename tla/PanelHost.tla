----------------------------- MODULE PanelHost -----------------------------
(***************************************************************************)
(* The host of the panel: updates, code rollbacks, data restores and       *)
(* changes of the panel's own settings, each a sequence of steps under one *)
(* operation lock with a durable journal, and the operator's recover.      *)
(*                                                                         *)
(* A release is a directory with its frontend build and its .env, which a  *)
(* release installed by an update only links to (home). The panel process  *)
(* runs the release and the .env it was last started with. Interrupted     *)
(* operations leave their journal; failing ones undo what they did.        *)
(*                                                                         *)
(* A setting is one number for the administrator's name and the panel's    *)
(* path, rows are identities of committed rows; file modes, checksums and  *)
(* the isolated canary databases are left out.                             *)
(***************************************************************************)
EXTENDS Naturals, Sequences

CONSTANTS MaxRelease,   \* releases there can be, the first one included
          SchemaOf,     \* the migration head each release's code is for
          Backend,      \* kinds of database to consider
          MaxSettings,  \* bound on settings changes
          MaxRestores,  \* bound on restores
          MaxRow,       \* bound on committed rows
          MaxFaults     \* bound on failing steps, kills and reboots

\* 0 stands for a database that is not there.
ASSUME HostAssumption == /\ MaxRelease \in Nat \ {0} /\ MaxRestores \in Nat
                         /\ Backend \subseteq {"sqlite", "postgresql"}
                         /\ \A r \in 1..MaxRelease : SchemaOf[r] \in Nat \ {0}

VARIABLES backend,  \* "sqlite" or "postgresql"
          app,      \* what is at /opt/pvnetwork-panel
          built,    \* number of release directories
          home,     \* the release whose directory holds a release's .env
          env,      \* the .env of each release that has its own
          dist,     \* the setting each release's frontend is built for
          dbs,      \* databases
          panel,    \* the panel process
          timers,   \* TRUE while the panel's timers run
          site,     \* the managed proxy: upstream port, and open or 503
          journal,  \* lifecycle-transaction.json and data-transaction.json
          job,      \* the last settings change
          helper,   \* TRUE while a settings helper waits for the lock
          saved,    \* the backup an operator took, if any
          op,       \* "idle", "forward", "undo" (by the operation), "recover"
          of,       \* the journal the running operation works on
          todo,     \* its steps to come
          restores, changes, written, faults

host == <<backend, app, built, home, env, dist, dbs, panel, timers, site>>
files == <<app, built, home, env, dist, dbs>>
bounds == <<restores, changes, written, faults>>
vars == <<host, journal, job, helper, saved, op, of, todo, bounds>>

Release == 1..MaxRelease
Database == 1..MaxRestores + 1
Final == {"none", "complete", "rolled_back"}
Early == {"preparing", "building", "canary_verified"}

InPlace == app.at \in {"root", "link"}
Live == env[home[app.rel]]
Started == [up |-> InPlace, rel |-> app.rel, env |-> Live]
Compatible(old, head) == old = head \/ <<old, head>> = <<1, 2>>

PendingJob == job.status \notin Final
Unfinished(j) == journal[j].state \notin Final
Pending == PendingJob \/ Unfinished("life") \/ Unfinished("data")

FirstEnv == [setting |-> 0, port |-> 1, db |-> 1, generation |-> FALSE]
NoJob == [status |-> "none", old |-> FirstEnv, new |-> FirstEnv, tracked |-> FALSE]
NoRecord == [kind |-> "none", state |-> "none", prev |-> 1, to |-> 1, port |-> 0,
             timers |-> FALSE, backup |-> {}, clone |-> 0]

Init == /\ backend \in Backend
        /\ app \in [at : {"root", "link"}, rel : {1}]
        /\ built = 1
        /\ home = [r \in Release |-> r]
        /\ env = [r \in Release |-> FirstEnv]
        /\ dist = [r \in Release |-> 0]
        /\ dbs = [d \in Database |-> [rows |-> {}, head |-> IF d = 1 THEN SchemaOf[1] ELSE 0, owner |-> 0]]
        /\ panel = Started
        /\ timers = TRUE
        /\ site = [port |-> 1, open |-> TRUE]
        /\ journal = [j \in {"life", "data"} |-> NoRecord]
        /\ job = NoJob
        /\ helper = FALSE
        /\ saved = {}
        /\ op = "idle" /\ of = "life" /\ todo = <<>>
        /\ restores = 0 /\ changes = 0 /\ written = 0 /\ faults = 0

----------------------------------------------------------------------------
(* Steps. A running operation takes the step at the head of todo.          *)

Begin(o, j, steps) == op' = o /\ of' = j /\ todo' = steps
Step(s) == /\ todo # <<>> /\ Head(todo) = s
           /\ todo' = Tail(todo)
           /\ op' = IF Len(todo) = 1 THEN "idle" ELSE op
           /\ UNCHANGED <<of, backend, helper, saved, bounds>>
Set(state) == journal' = [journal EXCEPT ![of].state = state]
SetJob(status) == job' = [job EXCEPT !.status = status]
\* Of a final journal a later operation reads the state and, of an update,
\* its releases; the rest is forgotten.
Finish(j, state) ==
  journal' = [journal EXCEPT ![j] = [NoRecord EXCEPT !.state = state, !.kind = journal[j].kind,
                                                     !.prev = IF j = "life" THEN journal[j].prev ELSE 1,
                                                     !.to = IF j = "life" THEN journal[j].to ELSE 1]]
FinishJob(status) == job' = [NoJob EXCEPT !.status = status]
WriteEnv(r, e) == env' = [env EXCEPT ![r] = e]

\* The lock is free and every journal is final.
MayStart == op = "idle" /\ ~Pending
OwnedSite == site = [port |-> Live.port, open |-> TRUE]

Pause == <<"close", "note", "stop_timers", "stop_panel">>
Adoption == IF app.at = "root" THEN <<"detach", "attach">> ELSE <<>>
Open == <<"open", "resume">>

Update ==
  /\ MayStart /\ OwnedSite /\ built < MaxRelease
  /\ built' = built + 1
  /\ journal' = [journal EXCEPT !["life"] =
       [NoRecord EXCEPT !.kind = "update", !.state = "preparing", !.prev = app.rel, !.to = built + 1, !.port = Live.port]]
  /\ Begin("forward", "life",
           <<"build", "canary", "maintenance">> \o Pause \o <<"backup", "migrating", "migrate", "generation">>
           \o Adoption \o <<"link", "switch", "restart", "health", "verified">> \o Open \o <<"complete">>)
  /\ UNCHANGED <<backend, app, home, env, dist, dbs, panel, timers, site, job, helper, saved, bounds>>

\* Going back to the retained release of the last completed update.
RollbackRelease ==
  LET last == journal["life"] IN
  /\ MayStart /\ OwnedSite /\ last.state = "complete"
  /\ Compatible(SchemaOf[last.prev], dbs[Live.db].head)
  /\ journal' = [journal EXCEPT !["data"] =
       [NoRecord EXCEPT !.kind = "rollback", !.state = "maintenance", !.prev = app.rel, !.to = last.prev, !.port = Live.port]]
  /\ Begin("forward", "data", Pause \o <<"switch", "restart", "health">> \o Open \o <<"release_undone", "complete">>)
  /\ UNCHANGED <<host, job, helper, saved, bounds>>

RestoreDatabase ==
  /\ MayStart /\ OwnedSite /\ restores < MaxRestores
  /\ \E b \in saved : b.head = SchemaOf[app.rel]
  /\ restores' = restores + 1
  /\ LET pg == backend = "postgresql" IN
     /\ journal' = [journal EXCEPT !["data"] =
          [NoRecord EXCEPT !.kind = "restore", !.state = IF pg THEN "preparing" ELSE "maintenance", !.prev = app.rel,
                           !.to = app.rel, !.port = Live.port, !.clone = IF pg THEN restores + 2 ELSE 0]]
     /\ Begin("forward", "data", (IF pg THEN <<"clone", "maintenance">> ELSE <<>>) \o Pause
                                  \o <<"backup", "load", "restart", "health">> \o Open \o <<"complete">>)
  /\ UNCHANGED <<host, job, helper, saved, changes, written, faults>>

\* A verified backup is taken between two operations, or by the timer.
MakeBackup ==
  /\ MayStart
  /\ saved' = {dbs[Live.db]}
  /\ UNCHANGED <<host, journal, job, helper, op, of, todo, bounds>>

----------------------------------------------------------------------------
(* The steps of the three operations.                                      *)

Build == /\ Step("build") /\ Set("building")
         /\ dist' = [dist EXCEPT ![journal[of].to] = Live.setting]
         /\ UNCHANGED <<app, built, home, env, dbs, panel, timers, site, job>>

\* Before the candidate is tried: another head than the one there is, or the
\* one migration that only adds a table, is refused.
Migratable == Compatible(dbs[Live.db].head, SchemaOf[journal["life"].to])
Canary == Step("canary") /\ Migratable /\ Set("canary_verified") /\ UNCHANGED <<files, panel, timers, site, job>>

Maintenance == Step("maintenance") /\ Set("maintenance") /\ UNCHANGED <<files, panel, timers, site, job>>

CloseSite == /\ Step("close")
             /\ site' = [site EXCEPT !.open = FALSE]
             /\ UNCHANGED <<files, panel, timers, journal, job>>

NoteTimers == /\ Step("note")
              /\ journal' = [journal EXCEPT ![of].timers = timers]
              /\ UNCHANGED <<files, panel, timers, site, job>>

StopTimers == Step("stop_timers") /\ timers' = FALSE /\ UNCHANGED <<files, panel, site, journal, job>>

StopPanel == /\ Step("stop_panel")
             /\ panel' = [panel EXCEPT !.up = FALSE]
             /\ UNCHANGED <<files, timers, site, journal, job>>

\* The second backup, of the paused panel, is the one a recovery goes back to.
FinalBackup ==
  /\ Step("backup")
  /\ journal' = [journal EXCEPT ![of].backup = {[db |-> dbs[Live.db], env |-> Live]},
                                ![of].state = IF journal[of].kind = "restore" THEN "restoring" ELSE @]
  /\ UNCHANGED <<files, panel, timers, site, job>>

Migrating == Step("migrating") /\ Set("migrating") /\ UNCHANGED <<files, panel, timers, site, job>>

MigrateAdditive ==
  /\ Step("migrate") /\ Set("migrated")
  /\ dbs' = [dbs EXCEPT ![Live.db].head = SchemaOf[journal[of].to]]
  /\ UNCHANGED <<app, built, home, env, dist, panel, timers, site, job>>

AddGeneration == /\ Step("generation")
                 /\ WriteEnv(home[app.rel], [Live EXCEPT !.generation = TRUE])
                 /\ UNCHANGED <<app, built, home, dist, dbs, panel, timers, site, journal, job>>

\* A rooted installation is renamed into the releases and then linked to.
Detach == Step("detach") /\ app' = [app EXCEPT !.at = "gone"]
          /\ UNCHANGED <<built, home, env, dist, dbs, panel, timers, site, journal, job>>
Attach == Step("attach") /\ app' = [app EXCEPT !.at = "link"] /\ Set("rooted_adopted")
          /\ UNCHANGED <<built, home, env, dist, dbs, panel, timers, site, job>>

RuntimeLinks == /\ Step("link") /\ Set("switching")
                /\ home' = [home EXCEPT ![journal[of].to] = home[journal[of].prev]]
                /\ UNCHANGED <<app, built, env, dist, dbs, panel, timers, site, job>>

AtomicPointer == Step("switch") /\ app' = [at |-> "link", rel |-> journal[of].to]
                 /\ UNCHANGED <<built, home, env, dist, dbs, panel, timers, site, journal, job>>

Restart == Step("restart") /\ panel' = Started /\ UNCHANGED <<files, timers, site, journal, job>>

Healthy == panel.up /\ panel.rel = app.rel /\ panel.env.port = journal[of].port
Health == Step("health") /\ Healthy /\ UNCHANGED <<files, panel, timers, site, journal, job>>

HealthVerified == Step("verified") /\ Set("health_verified") /\ UNCHANGED <<files, panel, timers, site, job>>

OpenSite == Step("open") /\ site' = [port |-> journal[of].port, open |-> TRUE]
            /\ UNCHANGED <<files, panel, timers, journal, job>>

ResumeWriters == Step("resume") /\ timers' = (timers \/ journal[of].timers)
                 /\ UNCHANGED <<files, panel, site, journal, job>>

\* The update's journal first, then the rollback's own.
ReleaseRolledBack == /\ Step("release_undone")
                     /\ Finish("life", "rolled_back")
                     /\ UNCHANGED <<files, panel, timers, site, job>>

Complete == /\ Step("complete")
            /\ Finish(of, "complete")
            /\ UNCHANGED <<files, panel, timers, site, job>>

Clone == /\ Step("clone")
         /\ \E b \in saved : dbs' = [dbs EXCEPT ![journal[of].clone] = b]
         /\ UNCHANGED <<app, built, home, env, dist, panel, timers, site, journal, job>>

\* SQLite is replaced in place; PostgreSQL by pointing .env at the clone.
Load == /\ Step("load")
        /\ IF backend = "sqlite"
           THEN (\E b \in saved : dbs' = [dbs EXCEPT ![Live.db] = b]) /\ UNCHANGED env
           ELSE WriteEnv(home[app.rel], [Live EXCEPT !.db = journal[of].clone]) /\ UNCHANGED dbs
        /\ UNCHANGED <<app, built, home, dist, panel, timers, site, journal, job>>

----------------------------------------------------------------------------
(* Undoing, by the failing operation itself or by recover.                 *)

Back == <<"restart", "health", "open", "resume", "undone">>
ReleaseBack == <<"pointer">> \o Back

\* Wrong: a failed update goes back to the rows of its backup, too.
UndoLifeRows == IF journal["life"].state \in Early THEN <<"undone">>
                ELSE <<"pointer", "database", "environment">> \o Back

UndoLife == IF journal["life"].state \in Early THEN <<"undone">>
            ELSE <<"pointer", "environment">> \o Back

\* Wrong: a failed restore leaves the rows it loaded.
UndoDataLoaded ==
  CASE journal["data"].state = "preparing" -> <<"drop", "undone">>
    [] journal["data"].state # "preparing" /\ journal["data"].kind = "restore" ->
         <<"stop_panel", "pointer", "environment", "drop">> \o Back
    [] OTHER -> <<"stop_panel">> \o ReleaseBack

UndoData ==
  CASE journal["data"].state = "preparing" -> <<"drop", "undone">>
    [] journal["data"].state # "preparing" /\ journal["data"].kind = "restore" ->
         <<"stop_panel", "pointer", "database", "environment", "drop">> \o Back
    [] OTHER -> <<"stop_panel">> \o ReleaseBack

\* recover repairs a missing pointer as well, the failing update does not.
PointerBack ==
  /\ Step("pointer")
  /\ app' = IF app.at = "link" \/ (app.at = "gone" /\ op = "recover") THEN [at |-> "link", rel |-> journal[of].prev] ELSE app
  /\ UNCHANGED <<built, home, env, dist, dbs, panel, timers, site, journal, job>>

DatabaseBack ==
  /\ Step("database")
  /\ dbs' = IF backend = "sqlite" /\ journal[of].backup # {}
            THEN [dbs EXCEPT ![Live.db] = (CHOOSE b \in journal[of].backup : TRUE).db] ELSE dbs
  /\ UNCHANGED <<app, built, home, env, dist, panel, timers, site, journal, job>>

\* Writing .env where nothing is makes a directory with nothing else in it.
RestoreRecordedEnvironment ==
  /\ Step("environment")
  /\ IF journal[of].backup = {} THEN UNCHANGED <<app, env>>
     ELSE /\ app' = IF app.at = "gone" THEN [app EXCEPT !.at = "bare"] ELSE app
          /\ IF InPlace THEN WriteEnv(home[app.rel], (CHOOSE b \in journal[of].backup : TRUE).env) ELSE UNCHANGED env
  /\ UNCHANGED <<built, home, dist, dbs, panel, timers, site, journal, job>>

CleanupRecordedDatabase ==
  /\ Step("drop")
  /\ dbs' = IF journal[of].clone = 0 THEN dbs
            ELSE [dbs EXCEPT ![journal[of].clone] = [rows |-> {}, head |-> 0, owner |-> 0]]
  /\ journal' = [journal EXCEPT ![of].clone = 0]
  /\ UNCHANGED <<app, built, home, env, dist, panel, timers, site, job>>

RolledBack == Step("undone") /\ Finish(of, "rolled_back") /\ UNCHANGED <<files, panel, timers, site, job>>
----------------------------------------------------------------------------
(* Settings: the route writes a queued job and starts a helper of its own. *)

\* A change of the port alone is one with less to do, and left out.
Wanted == {e \in [setting : {Live.setting, changes + 1}, port : 1..2, db : {Live.db}, generation : BOOLEAN] : e.setting # Live.setting /\ e.generation}

\* A start that fails, or is not heard of in time, is told as rolled back.
Apply ==
  /\ op = "idle" /\ ~PendingJob /\ changes < MaxSettings
  /\ panel.up /\ site.open /\ site.port = panel.env.port
  /\ changes' = changes + 1
  /\ \/ /\ \E e \in Wanted : job' = [status |-> "queued", old |-> Live, new |-> e,
                                     tracked |-> dbs[Live.db].owner = Live.setting]
        /\ helper' = TRUE
     \/ FinishJob("rolled_back") /\ helper' \in BOOLEAN
  /\ UNCHANGED <<host, journal, saved, op, of, todo, restores, written, faults>>

\* The helper gets the lock; it leaves the job alone if it may not run it.
ApplyHelper ==
  /\ helper /\ op = "idle"
  /\ helper' = FALSE
  /\ IF PendingJob /\ ~Unfinished("life") /\ ~Unfinished("data")
     THEN Begin("forward", "job", <<"check", "try", "switching", "exchange", "replace", "principal",
                                    "restart", "verifying", "verify", "proxy", "applied">>)
     ELSE UNCHANGED <<op, of, todo>>
  /\ UNCHANGED <<host, journal, job, saved, bounds>>

HelperGivesUp == helper /\ op # "idle" /\ helper' = FALSE
                 /\ UNCHANGED <<host, journal, job, saved, op, of, todo, bounds>>

Check == Step("check") /\ Live = job.old /\ SetJob("building") /\ UNCHANGED <<files, panel, timers, site, journal>>
TryCandidate == Step("try") /\ SetJob("canary") /\ UNCHANGED <<files, panel, timers, site, journal>>
Switching == Step("switching") /\ Live = job.old /\ SetJob("switching")
             /\ UNCHANGED <<files, panel, timers, site, journal>>

ExchangeDist == /\ Step("exchange") /\ dist' = [dist EXCEPT ![app.rel] = job.new.setting]
                /\ UNCHANGED <<app, built, home, env, dbs, panel, timers, site, journal, job>>

\* The file replaces a link: from here on this release has an .env of its own.
ReplaceEnv(e) == /\ home' = [home EXCEPT ![app.rel] = app.rel]
                 /\ WriteEnv(app.rel, e)
ReplaceLive == Step("replace") /\ ReplaceEnv(job.new)
               /\ UNCHANGED <<app, built, dist, dbs, panel, timers, site, journal, job>>

MigratePrincipal(to) ==
  dbs' = IF job.tracked THEN [dbs EXCEPT ![Live.db].owner = to.setting] ELSE dbs
PrincipalForward == Step("principal") /\ MigratePrincipal(job.new)
                    /\ UNCHANGED <<app, built, home, env, dist, panel, timers, site, journal, job>>

Verifying == Step("verifying") /\ SetJob("verifying") /\ UNCHANGED <<files, panel, timers, site, journal>>
Canonical == panel.up /\ panel.env = Live /\ dist[app.rel] = Live.setting
Verify == Step("verify") /\ Canonical /\ UNCHANGED <<files, panel, timers, site, journal, job>>

SwitchProxy == /\ Step("proxy") /\ site.port = job.old.port
               /\ site' = [site EXCEPT !.port = job.new.port]
               /\ UNCHANGED <<files, panel, timers, journal, job>>
Applied == Step("applied") /\ FinishJob("complete") /\ UNCHANGED <<files, panel, timers, site, journal>>

SwitchedSome == Head(todo) \notin {"check", "try", "switching", "exchange"}
UndoChange == IF SwitchedSome THEN <<"dist_back", "env_back", "principal_back", "proxy_back", "restart", "verify", "unapplied">>
              ELSE <<"unapplied">>
\* Wrong: the proxy stays where it is; the old panel is looked for
\* before it is started.
RecoverChangeNoProxy == IF job.status \in {"queued", "building", "canary"} THEN <<"unapplied">>
                        ELSE <<"dist_back", "env_back", "principal_back", "restart", "verify", "unapplied">>
RecoverChangeEarlyVerify == IF job.status \in {"queued", "building", "canary"} THEN <<"unapplied">>
                            ELSE <<"dist_back", "env_back", "principal_back", "verify", "restart", "proxy_back", "unapplied">>
RecoverChange == IF job.status \in {"queued", "building", "canary"} THEN <<"unapplied">>
                 ELSE <<"dist_back", "env_back", "principal_back", "restart", "verify", "proxy_back", "unapplied">>

DistBack == Step("dist_back") /\ dist' = [dist EXCEPT ![app.rel] = job.old.setting]
            /\ UNCHANGED <<app, built, home, env, dbs, panel, timers, site, journal, job>>
EnvBack == /\ Step("env_back")
           /\ IF Live = job.old THEN UNCHANGED <<home, env>> ELSE ReplaceEnv(job.old)
           /\ UNCHANGED <<app, built, dist, dbs, panel, timers, site, journal, job>>
PrincipalBack == Step("principal_back") /\ MigratePrincipal(job.old)
                 /\ UNCHANGED <<app, built, home, env, dist, panel, timers, site, journal, job>>
ProxyBack == Step("proxy_back") /\ site' = [site EXCEPT !.port = job.old.port]
             /\ UNCHANGED <<files, panel, timers, journal, job>>
NotApplied == Step("unapplied") /\ FinishJob("rolled_back") /\ UNCHANGED <<files, panel, timers, site, journal>>
----------------------------------------------------------------------------
(* Failures, ends of the process, and the operator.                        *)

Refused == \/ Head(todo) = "canary" /\ ~Migratable
           \/ Head(todo) = "health" /\ ~Healthy
           \/ Head(todo) \in {"check", "switching"} /\ Live # job.old
           \/ Head(todo) = "verify" /\ ~Canonical
           \/ Head(todo) = "proxy" /\ site.port # job.old.port

\* A clone that fails raises before the operation would undo anything.
Handler == CASE of = "life" -> UndoLife
             [] of = "job" -> UndoChange
             [] of = "data" /\ Head(todo) = "clone" -> <<>>
             [] OTHER -> IF journal["data"].kind = "rollback" THEN ReleaseBack ELSE UndoData

Fails ==
  /\ todo # <<>>
  /\ IF Refused THEN UNCHANGED faults ELSE faults < MaxFaults /\ faults' = faults + 1
  /\ LET steps == IF op = "forward" THEN Handler ELSE <<>> IN
     /\ Begin(IF steps = <<>> THEN "idle" ELSE "undo", of, steps)
     /\ job' = IF of = "job" /\ op = "undo" THEN [job EXCEPT !.status = "recovery_required"] ELSE job
  /\ UNCHANGED <<host, journal, helper, saved, restores, changes, written>>

Kill == /\ todo # <<>> /\ faults < MaxFaults /\ faults' = faults + 1
        /\ Begin("idle", of, <<>>)
        /\ UNCHANGED <<host, journal, job, helper, saved, restores, changes, written>>

\* Panel and timers are enabled units: what was paused starts with the host.
Reboot == /\ faults < MaxFaults /\ faults' = faults + 1
          /\ Begin("idle", of, <<>>)
          /\ helper' = FALSE
          /\ panel' = Started /\ timers' = TRUE
          /\ UNCHANGED <<backend, files, site, journal, job, saved, restores, changes, written>>

\* recover: settings first, then the data journal, then the lifecycle's.
Recover ==
  /\ op = "idle" /\ Pending
  /\ CASE PendingJob -> Begin("recover", "job", RecoverChange)
       [] ~PendingJob /\ Unfinished("data") -> Begin("recover", "data", UndoData)
       [] OTHER -> Begin("recover", "life", UndoLife)
  /\ UNCHANGED <<host, journal, job, helper, saved, bounds>>

\* A customer through the proxy, or one of the timers' jobs, commits a row.
Write(d) ==
  /\ written < MaxRow /\ written' = written + 1
  /\ dbs' = [dbs EXCEPT ![d].rows = @ \cup {written + 1}]
  /\ UNCHANGED <<backend, app, built, home, env, dist, panel, timers, site, journal, job, helper, saved, op, of, todo,
                 restores, changes, faults>>
CustomerWrites == panel.up /\ site.open /\ site.port = panel.env.port /\ Write(panel.env.db)
JobWrites == timers /\ InPlace /\ Write(Live.db)
----------------------------------------------------------------------------
ReleaseStep == \/ Build \/ Canary \/ Migrating \/ MigrateAdditive \/ AddGeneration \/ Detach \/ Attach
               \/ RuntimeLinks \/ AtomicPointer \/ HealthVerified \/ ReleaseRolledBack
SharedStep == \/ Maintenance \/ CloseSite \/ NoteTimers \/ StopTimers \/ StopPanel \/ FinalBackup \/ Restart
              \/ Health \/ OpenSite \/ ResumeWriters \/ Complete \/ Clone \/ Load
UndoStep == \/ PointerBack \/ DatabaseBack \/ RestoreRecordedEnvironment \/ CleanupRecordedDatabase \/ RolledBack
SettingsStep == \/ Check \/ TryCandidate \/ Switching \/ ExchangeDist \/ ReplaceLive \/ PrincipalForward
                \/ Verifying \/ Verify \/ SwitchProxy \/ Applied
                \/ DistBack \/ EnvBack \/ PrincipalBack \/ ProxyBack \/ NotApplied
Runs == ReleaseStep \/ SharedStep \/ UndoStep \/ SettingsStep \/ Fails

Operator == \/ Update \/ RollbackRelease \/ RestoreDatabase \/ MakeBackup \/ Apply \/ Recover
Next == \/ Runs \/ Operator \/ ApplyHelper \/ HelperGivesUp
        \/ Kill \/ Reboot \/ CustomerWrites \/ JobWrites

Spec == Init /\ [][Next]_vars
\* Operations run on, a helper gets its answer, and the operator recovers.
FairSpec == Spec /\ WF_vars(Runs) /\ WF_vars(ApplyHelper) /\ WF_vars(Recover)
----------------------------------------------------------------------------
(* Every journal final and nothing running: the panel serves the release   *)
(* and the .env on disk, on the port the proxy forwards to, with the build *)
(* for its setting and a schema its code reads, the jobs run and no clone  *)
(* is left, whatever mixture of operations, failures and reboots led here. *)
WholeAtRest ==
  op = "idle" /\ ~Pending =>
    /\ InPlace /\ panel = Started /\ OwnedSite /\ timers
    /\ dist[app.rel] = Live.setting
    /\ Compatible(SchemaOf[app.rel], dbs[Live.db].head)
    /\ journal["data"].clone = 0

Tells(e) == /\ Live'.setting = e.setting /\ Live'.port = e.port /\ dist'[app'.rel] = e.setting
            /\ site'.port = e.port
            /\ job.tracked => dbs'[Live'.db].owner = e.setting
Undone(j) == /\ app'.rel = j.prev
             /\ \A b \in j.backup : /\ Live' = b.env
                                    /\ b.db.rows \subseteq dbs'[Live'.db].rows
                                    /\ b.db.head = dbs'[Live'.db].head \/ j.kind # "restore"
Done(j) == /\ app'.rel = j.to
           /\ j.kind = "restore" => \A b \in saved : b.rows \subseteq dbs'[Live'.db].rows /\ b.head = dbs'[Live'.db].head

(* What a journal says in the end is what happened: a settings change that *)
(* is complete moved .env, build, proxy and the administrator's row, a     *)
(* rolled back one none of them; an update, rollback or restore that is    *)
(* rolled back left release, .env and the rows of the paused panel.        *)
EndsWhole ==
  [][/\ PendingJob /\ ~PendingJob' => Tells(IF job'.status = "complete" THEN job.new ELSE job.old)
     /\ \A j \in {"life", "data"} :
          Unfinished(j) /\ ~Unfinished(j)' =>
            IF journal'[j].state = "complete" THEN Done(journal[j]) ELSE Undone(journal[j])]_vars

(* Outside of a restore no row is lost from the database in use, as long   *)
(* as no release's own .env names another one: updates, their recovery and *)
(* code rollbacks go on with the current rows.                             *)
RowsKept ==
  [][(journal["data"].kind = "restore" /\ Unfinished("data")) \/ (\E r \in 1..built : env[home[r]].db # Live.db)
       \/ dbs[Live.db].rows \subseteq dbs'[Live'.db].rows]_vars

(* A rollback that completes leaves the panel on the database it had.      *)
RollbackKeepsData ==
  [][journal["data"].kind = "rollback" /\ Unfinished("data") /\ journal'["data"].state = "complete"
       => Live'.db = env[home[journal["data"].prev]].db]_vars

(* The directory made where a rooted installation has been renamed: no     *)
(* action of the code gets a panel out of it.                              *)
Stranded == app.at = "bare"

(* What is interrupted is recovered, one failure after another.            *)
RecoveryEnds == Pending ~> (~Pending \/ Stranded)
=============================================================================
