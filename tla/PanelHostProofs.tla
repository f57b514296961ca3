--------------------------- MODULE PanelHostProofs ---------------------------
(***************************************************************************)
(* PanelHost for any number of releases, any schemas of theirs, either     *)
(* database and any bounds: whenever no operation runs and no journal or   *)
(* settings change is pending, the host is whole (WholeAtRest).            *)
(*                                                                         *)
(* Between two steps nothing is whole, so the invariant (IInv) says what   *)
(* each journal still stands for: a release, with a frontend, an .env and  *)
(* a schema that go together, to go back to (UpdateInv, RollbackInv,       *)
(* RestoreInv, JobInv), and where in its plan a running operation is       *)
(* (UpdatingInv to ChangingBackInv). That the next step is the one of the  *)
(* plan comes from the shape of todo (PlanInv), which every operation is   *)
(* begun with and every step keeps. The release that an update left is     *)
(* kept fit for a later rollback (RetainedInv), although restores and      *)
(* settings changes alter what it shares with the one in use.              *)
(***************************************************************************)
EXTENDS PanelHost, SequenceTheorems, TLAPS

(***************************************************************************)
(* What an operation has before it: every step of todo is followed by the  *)
(* next one of its plan, and the last one makes the journal final.         *)
(***************************************************************************)
at == IF todo = <<>> THEN "none" ELSE Head(todo)

StepName ==
  {"build", "canary", "maintenance", "close", "note", "stop_timers", "stop_panel", "backup", "migrating", "migrate",
   "generation", "detach", "attach", "link", "switch", "restart", "health", "verified", "open", "resume",
   "release_undone", "complete", "clone", "load", "pointer", "database", "environment", "drop", "undone",
   "check", "try", "switching", "exchange", "replace", "principal", "verifying", "verify", "proxy", "applied",
   "dist_back", "env_back", "principal_back", "proxy_back", "unapplied"}

L == journal["life"]
D == journal["data"]
Env == [setting : Nat, port : Nat, db : Database, generation : BOOLEAN]
Job == [status : {"none", "queued", "building", "canary", "switching", "verifying",
                  "recovery_required", "complete", "rolled_back"},
        old : Env, new : Env, tracked : BOOLEAN]
Copy == [rows : SUBSET Nat, head : Nat, owner : Nat]
Record ==
  [kind : {"none", "update", "rollback", "restore"},
   state : {"none", "preparing", "building", "canary_verified", "maintenance", "migrating", "migrated",
            "rooted_adopted", "switching", "health_verified", "restoring", "complete", "rolled_back"},
   prev : Release, to : Release, port : Nat, timers : BOOLEAN, backup : SUBSET [db : Copy, env : Env],
   clone : Database \cup {0}]

DataTyped ==
  /\ app \in [at : {"root", "link", "gone", "bare"}, rel : Release]
  /\ built \in Release /\ home \in [Release -> Release]
  /\ env \in [Release -> Env] /\ dist \in [Release -> Nat] /\ dbs \in [Database -> Copy]
  /\ panel \in [up : BOOLEAN, rel : Release, env : Env]
  /\ timers \in BOOLEAN /\ site \in [port : Nat, open : BOOLEAN]
  /\ journal \in [{"life", "data"} -> Record]
  /\ job \in Job
ControlTyped ==
  /\ backend \in {"sqlite", "postgresql"} /\ helper \in BOOLEAN /\ saved \subseteq Copy
  /\ op \in {"idle", "forward", "undo", "recover"} /\ of \in {"life", "data", "job"}
  /\ todo \in Seq(StepName)
  /\ restores \in 0..MaxRestores /\ changes \in Nat /\ written \in Nat /\ faults \in Nat
TypeInv == DataTyped /\ ControlTyped

PauseLeads(a, b) ==
  \/ a = "close" /\ b = "note"
  \/ a = "note" /\ b = "stop_timers"
  \/ a = "stop_timers" /\ b = "stop_panel"
OpenLeads(a, b) == (a = "restart" /\ b = "health") \/ (a = "open" /\ b = "resume")
BackLeads(a, b) == OpenLeads(a, b) \/ (a = "health" /\ b = "open") \/ (a = "resume" /\ b = "undone")
UpdateLeads(a, b) ==
  \/ PauseLeads(a, b) \/ OpenLeads(a, b)
  \/ a = "build" /\ b = "canary"
  \/ a = "canary" /\ b = "maintenance"
  \/ a = "maintenance" /\ b = "close"
  \/ a = "stop_panel" /\ b = "backup"
  \/ a = "backup" /\ b = "migrating"
  \/ a = "migrating" /\ b = "migrate"
  \/ a = "migrate" /\ b = "generation"
  \/ a = "generation" /\ b \in {"detach", "link"}
  \/ a = "detach" /\ b = "attach"
  \/ a = "attach" /\ b = "link"
  \/ a = "link" /\ b = "switch"
  \/ a = "switch" /\ b = "restart"
  \/ a = "health" /\ b = "verified"
  \/ a = "verified" /\ b = "open"
  \/ a = "resume" /\ b = "complete"
RollbackLeads(a, b) ==
  \/ PauseLeads(a, b) \/ OpenLeads(a, b)
  \/ a = "stop_panel" /\ b = "switch"
  \/ a = "switch" /\ b = "restart"
  \/ a = "health" /\ b = "open"
  \/ a = "resume" /\ b = "release_undone"
  \/ a = "release_undone" /\ b = "complete"
RestoreLeads(a, b) ==
  \/ PauseLeads(a, b) \/ OpenLeads(a, b)
  \/ a = "clone" /\ b = "maintenance"
  \/ a = "maintenance" /\ b = "close"
  \/ a = "stop_panel" /\ b = "backup"
  \/ a = "backup" /\ b = "load"
  \/ a = "load" /\ b = "restart"
  \/ a = "health" /\ b = "open"
  \/ a = "resume" /\ b = "complete"
UpdateBackLeads(a, b) ==
  \/ BackLeads(a, b)
  \/ a = "pointer" /\ b = "environment"
  \/ a = "environment" /\ b = "restart"
RollbackBackLeads(a, b) ==
  \/ BackLeads(a, b)
  \/ a = "stop_panel" /\ b = "pointer"
  \/ a = "pointer" /\ b = "restart"
RestoreBackLeads(a, b) ==
  \/ BackLeads(a, b)
  \/ a = "stop_panel" /\ b = "pointer"
  \/ a = "pointer" /\ b = "database"
  \/ a = "database" /\ b = "environment"
  \/ a = "environment" /\ b = "drop"
  \/ a = "drop" /\ b = "restart"
ApplyLeads(a, b) ==
  \/ a = "check" /\ b = "try"
  \/ a = "try" /\ b = "switching"
  \/ a = "switching" /\ b = "exchange"
  \/ a = "exchange" /\ b = "replace"
  \/ a = "replace" /\ b = "principal"
  \/ a = "principal" /\ b = "restart"
  \/ a = "restart" /\ b = "verifying"
  \/ a = "verifying" /\ b = "verify"
  \/ a = "verify" /\ b = "proxy"
  \/ a = "proxy" /\ b = "applied"
ApplyBackLeads(a, b) ==
  \/ a = "dist_back" /\ b = "env_back"
  \/ a = "env_back" /\ b = "principal_back"
  \/ a = "principal_back" /\ b = "proxy_back"
  \/ a = "proxy_back" /\ b = "restart"
  \/ a = "restart" /\ b = "verify"
  \/ a = "verify" /\ b = "unapplied"
ApplyRecoverLeads(a, b) ==
  \/ a = "dist_back" /\ b = "env_back"
  \/ a = "env_back" /\ b = "principal_back"
  \/ a = "principal_back" /\ b = "restart"
  \/ a = "restart" /\ b = "verify"
  \/ a = "verify" /\ b = "proxy_back"
  \/ a = "proxy_back" /\ b = "unapplied"

\* b may come right after a in the plan p.
Leads(p, a, b) ==
  \/ p = "update" /\ UpdateLeads(a, b)
  \/ p = "rollback" /\ RollbackLeads(a, b)
  \/ p = "restore" /\ RestoreLeads(a, b)
  \/ p = "unupdate" /\ UpdateBackLeads(a, b)
  \/ p = "unrollback" /\ RollbackBackLeads(a, b)
  \/ p = "unrestore" /\ RestoreBackLeads(a, b)
  \/ p = "drop" /\ a = "drop" /\ b = "undone"
  \/ p = "apply" /\ ApplyLeads(a, b)
  \/ p = "unapply" /\ ApplyBackLeads(a, b)
  \/ p = "recover" /\ ApplyRecoverLeads(a, b)

Chain(p, s) == \A i \in 1..Len(s) - 1 : Leads(p, s[i], s[i + 1])

Plan == IF of = "life" THEN IF op = "forward" THEN "update" ELSE "unupdate"
        ELSE IF of = "data" THEN IF op = "forward" THEN IF D.kind = "rollback" THEN "rollback" ELSE "restore"
                                 ELSE IF D.state = "preparing" THEN "drop"
                                 ELSE IF D.kind = "rollback" THEN "unrollback" ELSE "unrestore"
        ELSE IF op = "forward" THEN "apply" ELSE IF op = "undo" THEN "unapply" ELSE "recover"

Last == IF of = "job" THEN IF op = "forward" THEN "applied" ELSE "unapplied"
        ELSE IF op = "forward" THEN "complete" ELSE "undone"

PlanInv == /\ op = "idle" <=> todo = <<>>
           /\ todo # <<>> => Chain(Plan, todo) /\ todo[Len(todo)] = Last

-----------------------------------------------------------------------------
(***************************************************************************)
(* What is open, and what is whole as long as nothing is.                  *)
(***************************************************************************)
LifeOpen == L.state \notin Final \cup Early
DataOpen == D.state \notin Final \cup {"preparing"}
JobOpen == job.status \in {"switching", "verifying", "recovery_required"}
Settled == ~LifeOpen /\ ~DataOpen /\ ~JobOpen

Env0(r) == env[home[r]]
Fits(r, d) == Compatible(SchemaOf[r], dbs[d].head)
Served(port) == site = [port |-> port, open |-> TRUE]

Sound == /\ InPlace /\ panel = Started /\ Served(Live.port) /\ timers
         /\ dist[app.rel] = Live.setting /\ Fits(app.rel, Live.db)

\* One of them at a time.
OneInv ==
  /\ ~(Unfinished("life") /\ Unfinished("data"))
  /\ job.status \notin Final \cup {"queued"} => ~Unfinished("life") /\ ~Unfinished("data")
  /\ op # "idle" /\ of = "job" => PendingJob
  /\ op \in {"forward", "undo"} /\ of = "job" => ~Unfinished("life") /\ ~Unfinished("data")
  /\ op # "idle" /\ of \in {"life", "data"} => Unfinished(of) /\ ~PendingJob

FilesInv ==
  /\ \A r \in Release : home[r] <= r
  /\ \A r \in Release : env[r].db <= restores + 1
  /\ backend = "sqlite" => /\ \A r \in Release : env[r].db = 1
                           /\ D.clone = 0
  /\ \A a, b \in saved : a = b
  /\ D.clone # 0 => Unfinished("data") /\ D.kind = "restore"
  /\ D.clone <= restores + 1
  /\ app.rel <= built

\* An update: what there is to go back to.
UpdateInv ==
  Unfinished("life") =>
    /\ L.kind = "update" /\ L.prev < L.to /\ L.to = built
    /\ app.rel \in {L.prev, L.to} /\ (app.at # "link" => app.rel = L.prev)
    /\ L.state \in Early => app.rel = L.prev
    /\ app.rel = L.to => home[L.to] = home[L.prev]
    /\ dist[L.prev] = Env0(L.prev).setting /\ Env0(L.prev).port = L.port
    /\ Fits(L.prev, Env0(L.prev).db)
    /\ \A b \in L.backup : b.env.setting = Env0(L.prev).setting /\ b.env.port = L.port /\ b.env.db = Env0(L.prev).db
    /\ timers \/ L.timers

\* The release that an update left behind, as long as a rollback may want it.
Keeps(d) == Fits(L.prev, d) => Fits(L.prev, Env0(L.prev).db)
RetainedInv ==
  L.state = "complete" =>
    /\ L.prev < L.to /\ dist[L.prev] = Env0(L.prev).setting
    /\ ~(Unfinished("data") /\ D.kind = "rollback") => app.rel = L.to /\ Keeps(Live.db)
    /\ Unfinished("data") /\ home[L.prev] # home[L.to] => \A b \in D.backup : Keeps(b.env.db)

RollbackInv ==
  Unfinished("data") /\ D.kind = "rollback" =>
    /\ D.state = "maintenance" /\ InPlace /\ D.backup = {}
    /\ app.rel \in {D.prev, D.to} /\ (app.at # "link" => app.rel = D.prev) /\ D.prev <= built
    /\ dist[D.prev] = Env0(D.prev).setting /\ Env0(D.prev).port = D.port /\ Fits(D.prev, Env0(D.prev).db)
    /\ dist[D.to] = Env0(D.to).setting /\ Fits(D.to, Env0(D.to).db)
    /\ timers \/ D.timers
    /\ L.state = "complete" => L.prev = D.to /\ L.to = D.prev
    /\ L.state \in {"complete", "rolled_back"}

RestoreInv ==
  Unfinished("data") /\ D.kind # "rollback" =>
    /\ D.kind = "restore" /\ D.state \in {"preparing", "maintenance", "restoring"}
    /\ D.prev = app.rel /\ D.to = app.rel /\ InPlace
    /\ dist[app.rel] = Live.setting /\ Live.port = D.port /\ Fits(app.rel, Live.db)
    /\ \A b \in D.backup : /\ b.env.setting = Live.setting /\ b.env.port = D.port
                           /\ Compatible(SchemaOf[app.rel], b.db.head) /\ Fits(app.rel, b.env.db)
                           /\ b.env.db <= restores + 1 /\ (backend = "sqlite" => b.env.db = 1)
    /\ D.clone # 0 =>
         /\ \A r \in Release : r # home[app.rel] => env[r].db # D.clone
         /\ \A b \in D.backup : b.env.db # D.clone
         /\ D.backup = {} => Live.db # D.clone
    /\ D.state = "preparing" => D.backup = {}
    /\ timers \/ D.timers

\* A settings change.
JobInv ==
  /\ PendingJob => job.old.db = job.new.db /\ job.old.db <= restores + 1 /\ (backend = "sqlite" => job.old.db = 1)
  /\ PendingJob /\ ~Unfinished("life") /\ ~Unfinished("data") /\ ~JobOpen => Live = job.old
  /\ JobOpen =>
       /\ InPlace /\ timers /\ site.open /\ site.port \in {job.old.port, job.new.port}
       /\ Live \in {job.old, job.new} /\ dist[app.rel] \in {job.old.setting, job.new.setting}
       /\ Fits(app.rel, Live.db)

\* The helper that waits is the one of the queued change.
HelperInv == helper /\ PendingJob => job.status = "queued" /\ (of = "job" => op \in {"idle", "recover"})

SoundInv == Settled => Sound

-----------------------------------------------------------------------------
(***************************************************************************)
(* Where a running operation is.                                           *)
(***************************************************************************)
Restarted == panel = Started
\* From the restart on, in every operation that closes the site.
Reopening(j) ==
  /\ at \in {"health", "verified", "open", "resume", "release_undone", "complete", "undone"} => Restarted
  /\ at \in {"verified", "open", "resume", "release_undone", "complete", "undone"} =>
       panel.up /\ Live.port = journal[j].port
  /\ at \in {"resume", "release_undone", "complete", "undone"} => Served(journal[j].port)
  /\ at \in {"release_undone", "complete", "undone"} => timers
Pausing(j) ==
  /\ at \in {"close", "note"} => timers
  /\ at = "stop_timers" => journal[j].timers

Opened == {"restart", "health", "verified", "open", "resume", "release_undone", "complete"}
UpdatingInv ==
  op = "forward" /\ of = "life" =>
    /\ L.state \in Early <=> at \in {"build", "canary", "maintenance"}
    /\ LifeOpen => Reopening("life") /\ Pausing("life")
    /\ app.rel = IF at \in Opened THEN L.to ELSE L.prev
    /\ at # "build" => dist[L.to] = Env0(L.prev).setting
    /\ at \notin {"build", "canary"} => Compatible(dbs[Env0(L.prev).db].head, SchemaOf[L.to])
    /\ at \in Opened => app.at = "link"
    /\ at \in Opened \cup {"switch"} => home[L.to] = home[L.prev]
    /\ at \in Opened \cup {"generation", "detach", "attach", "link", "switch"} => Fits(L.to, Env0(L.prev).db)
RollingBackInv ==
  op = "forward" /\ of = "data" /\ D.kind = "rollback" =>
    /\ Reopening("data") /\ Pausing("data")
    /\ app.rel = IF at \in Opened THEN D.to ELSE D.prev
    /\ at # "complete" => L.state = "complete"
    /\ at = "complete" => L.state = "rolled_back"
RestoringInv ==
  op = "forward" /\ of = "data" /\ D.kind # "rollback" =>
    /\ D.state = "preparing" <=> at \in {"clone", "maintenance"}
    /\ DataOpen => Reopening("data") /\ Pausing("data")
    /\ at \in {"clone", "maintenance", "backup", "load"} \cup {"close", "note", "stop_timers", "stop_panel"} =>
         /\ \A b \in saved : b.head = SchemaOf[app.rel]
         /\ Live.db # D.clone
         /\ at # "clone" /\ backend # "sqlite" => D.clone # 0 /\ dbs[D.clone].head = SchemaOf[app.rel]
         /\ at = "clone" => D.clone # 0
         /\ at = "load" => D.backup # {}
UndoingInv ==
  /\ op \in {"undo", "recover"} /\ of = "life" /\ LifeOpen =>
       /\ Reopening("life")
       /\ at # "pointer" => app.rel = L.prev
  /\ op \in {"undo", "recover"} /\ of = "life" /\ ~LifeOpen => at = "undone"
  /\ op \in {"undo", "recover"} /\ of = "data" /\ DataOpen =>
       /\ Reopening("data")
       /\ D.kind = "rollback" /\ at \notin {"stop_panel", "pointer"} => app.rel = D.prev
       /\ D.kind # "rollback" /\ at \in {"drop", "restart", "health", "open", "resume", "undone"} =>
            Live.db # D.clone
ChangingInv ==
  op = "forward" /\ of = "job" =>
    /\ JobOpen <=> at \notin {"check", "try", "switching"}
    /\ at = "exchange" => Sound /\ Live = job.old
    /\ at = "replace" => Live = job.old
    /\ at \in {"replace", "principal", "restart", "verifying", "verify", "proxy", "applied"} =>
         dist[app.rel] = job.new.setting
    /\ at \in {"principal", "restart", "verifying", "verify", "proxy", "applied"} => Live = job.new
    /\ at \in {"verifying", "verify", "proxy", "applied"} => Restarted
    /\ at = "applied" => site.port = job.new.port
ChangingBackInv ==
  /\ op \in {"undo", "recover"} /\ of = "job" /\ ~JobOpen => at = "unapplied"
  /\ op \in {"undo", "recover"} /\ of = "job" /\ JobOpen =>
       /\ at # "dist_back" => dist[app.rel] = job.old.setting
       /\ at \notin {"dist_back", "env_back"} => Live = job.old
       /\ op = "undo" /\ at \in {"verify", "unapplied"} => Restarted
       /\ op = "recover" /\ at \in {"verify", "proxy_back", "unapplied"} => Restarted
       /\ op = "undo" /\ at \in {"restart", "verify"} => site.port = job.old.port
       /\ at = "unapplied" => site.port = job.old.port

IInv == /\ TypeInv /\ PlanInv /\ OneInv /\ FilesInv /\ UpdateInv /\ RetainedInv /\ RollbackInv /\ RestoreInv
        /\ JobInv /\ HelperInv /\ SoundInv /\ UpdatingInv /\ RollingBackInv /\ RestoringInv /\ UndoingInv
        /\ ChangingInv /\ ChangingBackInv

-----------------------------------------------------------------------------
\* How todo advances.

LEMMA TailChain ==
  ASSUME NEW p, NEW s \in Seq(StepName), s # <<>>, Chain(p, s)
  PROVE  /\ Tail(s) \in Seq(StepName) /\ Chain(p, Tail(s))
         /\ Tail(s) = <<>> <=> Len(s) = 1
         /\ Tail(s) # <<>> => /\ Tail(s)[Len(Tail(s))] = s[Len(s)]
                              /\ Leads(p, Head(s), Head(Tail(s)))
  <1>1. Tail(s) \in Seq(StepName) /\ Len(Tail(s)) = Len(s) - 1 /\ Len(s) \in Nat \ {0}
        /\ \A i \in 1..Len(s) - 1 : Tail(s)[i] = s[i + 1]
    OBVIOUS
  <1>2. Chain(p, Tail(s)) BY <1>1 DEF Chain
  <1>3. Tail(s) = <<>> <=> Len(s) = 1
    <2>1. \A t \in Seq(StepName) : t = <<>> <=> Len(t) = 0
      <3>1. ASSUME NEW t \in Seq(StepName), Len(t) = 0 PROVE t = <<>> BY <3>1, EmptySeq, SeqEqual
      <3>2. QED BY <3>1, EmptySeq
    <2>2. Tail(s) = <<>> <=> Len(Tail(s)) = 0 BY <1>1, <2>1
    <2>3. QED BY <1>1, <2>2
  <1>4. ASSUME Tail(s) # <<>>
        PROVE Tail(s)[Len(Tail(s))] = s[Len(s)] /\ Leads(p, Head(s), Head(Tail(s)))
    <2>1. Len(s) > 1 BY <1>1, <1>3, <1>4
    <2>2. Head(s) = s[1] /\ Head(Tail(s)) = Tail(s)[1] BY <1>1, <1>4
    <2>3. QED BY <1>1, <2>1, <2>2 DEF Chain
  <1>5. QED BY <1>1, <1>2, <1>3, <1>4

LEMMA JoinChains ==
  ASSUME NEW p, NEW s \in Seq(StepName), NEW t \in Seq(StepName), s # <<>>, t # <<>>,
         Chain(p, s), Chain(p, t), Leads(p, s[Len(s)], Head(t))
  PROVE  /\ s \o t \in Seq(StepName) /\ s \o t # <<>> /\ Chain(p, s \o t)
         /\ Head(s \o t) = Head(s) /\ (s \o t)[Len(s \o t)] = t[Len(t)]
  <1> DEFINE u == s \o t
  <1>1. /\ u \in Seq(StepName) /\ Len(u) = Len(s) + Len(t)
        /\ \A i \in 1..Len(u) : u[i] = IF i <= Len(s) THEN s[i] ELSE t[i - Len(s)]
    OBVIOUS
  <1>2. Len(s) \in Nat \ {0} /\ Len(t) \in Nat \ {0} /\ Head(t) = t[1] /\ Head(s) = s[1] OBVIOUS
  <1>3. ASSUME NEW i \in 1..Len(u) - 1 PROVE Leads(p, u[i], u[i + 1])
    <2>1. CASE i < Len(s) BY <1>1, <1>2, <2>1 DEF Chain
    <2>2. CASE i = Len(s) BY <1>1, <1>2, <2>2
    <2>3. CASE i > Len(s)
      <3>1. u[i] = t[i - Len(s)] /\ u[i + 1] = t[i - Len(s) + 1] /\ i - Len(s) \in 1..Len(t) - 1
        BY <1>1, <1>2, <2>3
      <3>2. QED BY <3>1 DEF Chain
    <2>4. QED BY <1>2, <2>1, <2>2, <2>3
  <1>4. u # <<>> /\ Head(u) = u[1] BY <1>1, <1>2
  <1>5. QED BY <1>1, <1>2, <1>3, <1>4 DEF Chain

\* Which steps belong to which plan.
LEMMA StepOf ==
  ASSUME TypeInv, PlanInv, todo # <<>>
  PROVE  /\ op \in {"forward", "undo", "recover"}
         /\ Head(todo) = Last \/ \E b \in StepName : Leads(Plan, Head(todo), b)
  <1>1. op # "idle" BY DEF PlanInv
  <1>2. Len(todo) \in Nat \ {0} /\ Head(todo) = todo[1] BY DEF TypeInv, ControlTyped
  <1>3. todo \in Seq(StepName) /\ Chain(Plan, todo) /\ todo[Len(todo)] = Last BY DEF PlanInv, TypeInv, ControlTyped
  <1>4. CASE Len(todo) = 1 BY <1>3, <1>1, <1>2, <1>4 DEF TypeInv, ControlTyped
  <1>5. CASE Len(todo) > 1
    <2>1. 1 \in 1..Len(todo) - 1 /\ 2 \in 1..Len(todo) BY <1>5, <1>2
    <2>2. todo[2] \in StepName BY <2>1, <1>3, ElementOfSeq
    <2>3. Leads(Plan, todo[1], todo[1 + 1]) BY <2>1, <1>3 DEF Chain
    <2>4. Leads(Plan, Head(todo), todo[2]) BY <2>3, <1>2
    <2>5. QED BY <2>2, <2>4, <1>1 DEF TypeInv, ControlTyped
  <1>6. \A n \in Nat \ {0} : n = 1 \/ n > 1 OBVIOUS
  <1>7. QED BY <1>2, <1>4, <1>5, <1>6

JobSteps == {"check", "try", "switching", "exchange", "replace", "principal", "verifying", "verify", "proxy",
             "applied", "dist_back", "env_back", "principal_back", "proxy_back", "unapplied"}

LEMMA JobStepOf ==
  ASSUME TypeInv, PlanInv, todo # <<>>
  PROVE  /\ Head(todo) \in JobSteps => of = "job"
         /\ Head(todo) \notin JobSteps \cup {"restart"} => of \in {"life", "data"}
  <1>1. PICK b : Head(todo) = Last \/ Leads(Plan, Head(todo), b) BY StepOf
  <1>2. op \in {"forward", "undo", "recover"} /\ of \in {"life", "data", "job"} BY StepOf DEF TypeInv, ControlTyped
  <1>3. CASE Head(todo) = Last BY <1>2, <1>3 DEF Last, JobSteps
  <1>4. CASE Leads(Plan, Head(todo), b)
    <2>1. CASE of = "job"
      <3>1. Plan \in {"apply", "unapply", "recover"} BY <2>1 DEF Plan
      <3>2. ApplyLeads(Head(todo), b) \/ ApplyBackLeads(Head(todo), b) \/ ApplyRecoverLeads(Head(todo), b)
        BY <1>4, <3>1 DEF Leads
      <3>3. QED BY <3>2, <2>1 DEF ApplyLeads, ApplyBackLeads, ApplyRecoverLeads, JobSteps
    <2>2. CASE of # "job"
      <3>1. Plan \notin {"apply", "unapply", "recover"} BY <2>2, <1>2 DEF Plan
      <3>2. QED BY <1>2, <1>4, <3>1, <2>2
                DEF Leads, UpdateLeads, RollbackLeads, RestoreLeads, UpdateBackLeads, RollbackBackLeads,
                    RestoreBackLeads, PauseLeads, OpenLeads, BackLeads, JobSteps
    <2>3. QED BY <2>1, <2>2
  <1>5. QED BY <1>1, <1>3, <1>4

\* A step is taken from its plan; the next one follows it, and the last one
\* ends the operation.
LEMMA Advance ==
  ASSUME TypeInv, PlanInv, NEW s, Step(s)
  PROVE  /\ op # "idle" /\ todo # <<>> /\ at = s /\ of' = of /\ todo' \in Seq(StepName)
         /\ UNCHANGED <<backend, helper, saved, bounds>>
         /\ \/ todo' = <<>> /\ op' = "idle" /\ s = Last
            \/ /\ todo' # <<>> /\ op' = op /\ at' = Head(todo') /\ Leads(Plan, s, at')
               /\ Chain(Plan, todo') /\ todo'[Len(todo')] = Last
  <1>1. todo # <<>> /\ todo \in Seq(StepName) /\ Head(todo) = s /\ todo[1] = s /\ op # "idle" BY DEF Step, PlanInv, TypeInv, ControlTyped
  <1>2. Chain(Plan, todo) /\ todo[Len(todo)] = Last BY <1>1 DEF PlanInv
  <1>3. /\ todo' \in Seq(StepName) /\ Chain(Plan, todo') /\ (todo' = <<>> <=> Len(todo) = 1)
        /\ todo' # <<>> => todo'[Len(todo')] = Last /\ Leads(Plan, s, Head(todo'))
    BY <1>1, <1>2, TailChain DEF Step
  <1>4. CASE todo' = <<>>
    <2>1. Last = s BY <1>1, <1>2, <1>3, <1>4
    <2>2. QED BY <1>1, <1>3, <1>4, <2>1 DEF Step, at
  <1>5. CASE todo' # <<>> BY <1>1, <1>2, <1>3, <1>5 DEF Step, at
  <1>6. QED BY <1>4, <1>5

LEMMA PlanKept ==
  ASSUME TypeInv, PlanInv, NEW s, Step(s), todo' # <<>> => Plan' = Plan
  PROVE  PlanInv'
  <1>1. CASE todo' = <<>> BY <1>1, Advance DEF PlanInv
  <1>2. CASE todo' # <<>>
    <2>1. op' = op /\ of' = of /\ op # "idle" BY <1>2, Advance
    <2>2. Last' = Last BY <2>1 DEF Last
    <2>3. Chain(Plan', todo') /\ todo'[Len(todo')] = Last' BY <1>2, <2>2, Advance
    <2>4. QED BY <1>2, <2>1, <2>3 DEF PlanInv
  <1>3. QED BY <1>1, <1>2

-----------------------------------------------------------------------------
\* The plans operations begin with.

\* A plan from the step a to the step z.
IsPlan(p, s, a, z) == s \in Seq(StepName) /\ s # <<>> /\ Chain(p, s) /\ Head(s) = a /\ s[Len(s)] = z

LEMMA NotEmpty == ASSUME NEW s, Len(s) # 0 PROVE s # <<>> BY EmptySeq

LEMMA Chain1 == ASSUME NEW p, NEW s, Len(s) = 1 PROVE Chain(p, s)
  <1>1. SUFFICES ASSUME NEW i \in 1..Len(s) - 1 PROVE FALSE BY DEF Chain
  <1>2. QED OBVIOUS

LEMMA Chain2 == ASSUME NEW p, NEW s, Len(s) = 2, Leads(p, s[1], s[2]) PROVE Chain(p, s)
  <1>1. SUFFICES ASSUME NEW i \in 1..Len(s) - 1 PROVE Leads(p, s[i], s[i + 1]) BY DEF Chain
  <1>2. i = 1 OBVIOUS
  <1>3. i + 1 = 2 BY <1>2
  <1>4. QED BY <1>2, <1>3

LEMMA JoinPlans ==
  ASSUME NEW p, NEW s, NEW t, NEW a, NEW b, NEW c, NEW d,
         IsPlan(p, s, a, b), IsPlan(p, t, c, d), Leads(p, b, c)
  PROVE  IsPlan(p, s \o t, a, d)
  BY JoinChains DEF IsPlan

LEMMA UpdatePause == IsPlan("update", Pause, "close", "stop_panel")
  <1> DEFINE s == <<"close", "note", "stop_timers", "stop_panel">>
  <1>1. s \in Seq(StepName) BY DEF StepName
  <1>2. Len(s) = 4 OBVIOUS
  <1>3. s[1] = "close" /\ s[2] = "note" /\ s[3] = "stop_timers" /\ s[4] = "stop_panel" OBVIOUS
  <1> HIDE DEF s
  <1>4. s # <<>> BY <1>2, NotEmpty
  <1>5. Head(s) = s[1] BY <1>1, <1>4
  <1>6. Leads("update", s[1], s[2]) /\ Leads("update", s[2], s[3]) /\ Leads("update", s[3], s[4])
    BY <1>3 DEF Leads, UpdateLeads, PauseLeads, OpenLeads
  <1>7. Chain("update", s) BY <1>2, <1>6 DEF Chain
  <1>8. IsPlan("update", s, "close", "stop_panel") BY <1>1, <1>2, <1>3, <1>4, <1>7, <1>5 DEF IsPlan
  <1>9. QED BY <1>8 DEF s, Pause

LEMMA UpdateOpen == IsPlan("update", Open, "open", "resume")
  <1> DEFINE s == <<"open", "resume">>
  <1>1. s \in Seq(StepName) BY DEF StepName
  <1>2. Len(s) = 2 OBVIOUS
  <1>3. s[1] = "open" /\ s[2] = "resume" OBVIOUS
  <1> HIDE DEF s
  <1>4. s # <<>> BY <1>2, NotEmpty
  <1>5. Head(s) = s[1] BY <1>1, <1>4
  <1>6. Leads("update", s[1], s[2]) BY <1>3 DEF Leads, UpdateLeads, PauseLeads, OpenLeads
  <1>7. Chain("update", s) BY <1>2, <1>6, Chain2
  <1>8. IsPlan("update", s, "open", "resume") BY <1>1, <1>2, <1>3, <1>4, <1>7, <1>5 DEF IsPlan
  <1>9. QED BY <1>8 DEF s, Open

LEMMA RollbackPause == IsPlan("rollback", Pause, "close", "stop_panel")
  <1> DEFINE s == <<"close", "note", "stop_timers", "stop_panel">>
  <1>1. s \in Seq(StepName) BY DEF StepName
  <1>2. Len(s) = 4 OBVIOUS
  <1>3. s[1] = "close" /\ s[2] = "note" /\ s[3] = "stop_timers" /\ s[4] = "stop_panel" OBVIOUS
  <1> HIDE DEF s
  <1>4. s # <<>> BY <1>2, NotEmpty
  <1>5. Head(s) = s[1] BY <1>1, <1>4
  <1>6. Leads("rollback", s[1], s[2]) /\ Leads("rollback", s[2], s[3]) /\ Leads("rollback", s[3], s[4])
    BY <1>3 DEF Leads, RollbackLeads, PauseLeads, OpenLeads
  <1>7. Chain("rollback", s) BY <1>2, <1>6 DEF Chain
  <1>8. IsPlan("rollback", s, "close", "stop_panel") BY <1>1, <1>2, <1>3, <1>4, <1>7, <1>5 DEF IsPlan
  <1>9. QED BY <1>8 DEF s, Pause

LEMMA RollbackOpen == IsPlan("rollback", Open, "open", "resume")
  <1> DEFINE s == <<"open", "resume">>
  <1>1. s \in Seq(StepName) BY DEF StepName
  <1>2. Len(s) = 2 OBVIOUS
  <1>3. s[1] = "open" /\ s[2] = "resume" OBVIOUS
  <1> HIDE DEF s
  <1>4. s # <<>> BY <1>2, NotEmpty
  <1>5. Head(s) = s[1] BY <1>1, <1>4
  <1>6. Leads("rollback", s[1], s[2]) BY <1>3 DEF Leads, RollbackLeads, PauseLeads, OpenLeads
  <1>7. Chain("rollback", s) BY <1>2, <1>6, Chain2
  <1>8. IsPlan("rollback", s, "open", "resume") BY <1>1, <1>2, <1>3, <1>4, <1>7, <1>5 DEF IsPlan
  <1>9. QED BY <1>8 DEF s, Open

LEMMA RestorePause == IsPlan("restore", Pause, "close", "stop_panel")
  <1> DEFINE s == <<"close", "note", "stop_timers", "stop_panel">>
  <1>1. s \in Seq(StepName) BY DEF StepName
  <1>2. Len(s) = 4 OBVIOUS
  <1>3. s[1] = "close" /\ s[2] = "note" /\ s[3] = "stop_timers" /\ s[4] = "stop_panel" OBVIOUS
  <1> HIDE DEF s
  <1>4. s # <<>> BY <1>2, NotEmpty
  <1>5. Head(s) = s[1] BY <1>1, <1>4
  <1>6. Leads("restore", s[1], s[2]) /\ Leads("restore", s[2], s[3]) /\ Leads("restore", s[3], s[4])
    BY <1>3 DEF Leads, RestoreLeads, PauseLeads, OpenLeads
  <1>7. Chain("restore", s) BY <1>2, <1>6 DEF Chain
  <1>8. IsPlan("restore", s, "close", "stop_panel") BY <1>1, <1>2, <1>3, <1>4, <1>7, <1>5 DEF IsPlan
  <1>9. QED BY <1>8 DEF s, Pause

LEMMA RestoreOpen == IsPlan("restore", Open, "open", "resume")
  <1> DEFINE s == <<"open", "resume">>
  <1>1. s \in Seq(StepName) BY DEF StepName
  <1>2. Len(s) = 2 OBVIOUS
  <1>3. s[1] = "open" /\ s[2] = "resume" OBVIOUS
  <1> HIDE DEF s
  <1>4. s # <<>> BY <1>2, NotEmpty
  <1>5. Head(s) = s[1] BY <1>1, <1>4
  <1>6. Leads("restore", s[1], s[2]) BY <1>3 DEF Leads, RestoreLeads, PauseLeads, OpenLeads
  <1>7. Chain("restore", s) BY <1>2, <1>6, Chain2
  <1>8. IsPlan("restore", s, "open", "resume") BY <1>1, <1>2, <1>3, <1>4, <1>7, <1>5 DEF IsPlan
  <1>9. QED BY <1>8 DEF s, Open

LEMMA UpdatePrepare == IsPlan("update", <<"build", "canary", "maintenance">>, "build", "maintenance")
  <1> DEFINE s == <<"build", "canary", "maintenance">>
  <1>1. s \in Seq(StepName) BY DEF StepName
  <1>2. Len(s) = 3 OBVIOUS
  <1>3. s[1] = "build" /\ s[2] = "canary" /\ s[3] = "maintenance" OBVIOUS
  <1> HIDE DEF s
  <1>4. s # <<>> BY <1>2, NotEmpty
  <1>5. Head(s) = s[1] BY <1>1, <1>4
  <1>6. Leads("update", s[1], s[2]) /\ Leads("update", s[2], s[3])
    BY <1>3 DEF Leads, UpdateLeads, PauseLeads, OpenLeads
  <1>7. Chain("update", s) BY <1>2, <1>6 DEF Chain
  <1>8. IsPlan("update", s, "build", "maintenance") BY <1>1, <1>2, <1>3, <1>4, <1>7, <1>5 DEF IsPlan
  <1>9. QED BY <1>8 DEF s

LEMMA UpdateMigrate == IsPlan("update", <<"backup", "migrating", "migrate", "generation">>, "backup", "generation")
  <1> DEFINE s == <<"backup", "migrating", "migrate", "generation">>
  <1>1. s \in Seq(StepName) BY DEF StepName
  <1>2. Len(s) = 4 OBVIOUS
  <1>3. s[1] = "backup" /\ s[2] = "migrating" /\ s[3] = "migrate" /\ s[4] = "generation" OBVIOUS
  <1> HIDE DEF s
  <1>4. s # <<>> BY <1>2, NotEmpty
  <1>5. Head(s) = s[1] BY <1>1, <1>4
  <1>6. Leads("update", s[1], s[2]) /\ Leads("update", s[2], s[3]) /\ Leads("update", s[3], s[4])
    BY <1>3 DEF Leads, UpdateLeads, PauseLeads, OpenLeads
  <1>7. Chain("update", s) BY <1>2, <1>6 DEF Chain
  <1>8. IsPlan("update", s, "backup", "generation") BY <1>1, <1>2, <1>3, <1>4, <1>7, <1>5 DEF IsPlan
  <1>9. QED BY <1>8 DEF s

LEMMA UpdateAdopt == IsPlan("update", <<"detach", "attach">>, "detach", "attach")
  <1> DEFINE s == <<"detach", "attach">>
  <1>1. s \in Seq(StepName) BY DEF StepName
  <1>2. Len(s) = 2 OBVIOUS
  <1>3. s[1] = "detach" /\ s[2] = "attach" OBVIOUS
  <1> HIDE DEF s
  <1>4. s # <<>> BY <1>2, NotEmpty
  <1>5. Head(s) = s[1] BY <1>1, <1>4
  <1>6. Leads("update", s[1], s[2]) BY <1>3 DEF Leads, UpdateLeads, PauseLeads, OpenLeads
  <1>7. Chain("update", s) BY <1>2, <1>6, Chain2
  <1>8. IsPlan("update", s, "detach", "attach") BY <1>1, <1>2, <1>3, <1>4, <1>7, <1>5 DEF IsPlan
  <1>9. QED BY <1>8 DEF s

LEMMA UpdateSwitch == IsPlan("update", <<"link", "switch", "restart", "health", "verified">>, "link", "verified")
  <1> DEFINE s == <<"link", "switch", "restart", "health", "verified">>
  <1>1. s \in Seq(StepName) BY DEF StepName
  <1>2. Len(s) = 5 OBVIOUS
  <1>3. s[1] = "link" /\ s[2] = "switch" /\ s[3] = "restart" /\ s[4] = "health" /\ s[5] = "verified" OBVIOUS
  <1> HIDE DEF s
  <1>4. s # <<>> BY <1>2, NotEmpty
  <1>5. Head(s) = s[1] BY <1>1, <1>4
  <1>6. Leads("update", s[1], s[2]) /\ Leads("update", s[2], s[3]) /\ Leads("update", s[3], s[4])
         /\ Leads("update", s[4], s[5])
    BY <1>3 DEF Leads, UpdateLeads, PauseLeads, OpenLeads
  <1>7. Chain("update", s) BY <1>2, <1>6 DEF Chain
  <1>8. IsPlan("update", s, "link", "verified") BY <1>1, <1>2, <1>3, <1>4, <1>7, <1>5 DEF IsPlan
  <1>9. QED BY <1>8 DEF s

LEMMA UpdateComplete == IsPlan("update", <<"complete">>, "complete", "complete")
  <1> DEFINE s == <<"complete">>
  <1>1. s \in Seq(StepName) BY DEF StepName
  <1>2. Len(s) = 1 OBVIOUS
  <1>3. s[1] = "complete" OBVIOUS
  <1> HIDE DEF s
  <1>4. s # <<>> BY <1>2, NotEmpty
  <1>5. Head(s) = s[1] BY <1>1, <1>4
  <1>6. Chain("update", s) BY <1>2, Chain1
  <1>7. IsPlan("update", s, "complete", "complete") BY <1>1, <1>2, <1>3, <1>4, <1>6, <1>5 DEF IsPlan
  <1>8. QED BY <1>7 DEF s

LEMMA RollbackSwitch == IsPlan("rollback", <<"switch", "restart", "health">>, "switch", "health")
  <1> DEFINE s == <<"switch", "restart", "health">>
  <1>1. s \in Seq(StepName) BY DEF StepName
  <1>2. Len(s) = 3 OBVIOUS
  <1>3. s[1] = "switch" /\ s[2] = "restart" /\ s[3] = "health" OBVIOUS
  <1> HIDE DEF s
  <1>4. s # <<>> BY <1>2, NotEmpty
  <1>5. Head(s) = s[1] BY <1>1, <1>4
  <1>6. Leads("rollback", s[1], s[2]) /\ Leads("rollback", s[2], s[3])
    BY <1>3 DEF Leads, RollbackLeads, PauseLeads, OpenLeads
  <1>7. Chain("rollback", s) BY <1>2, <1>6 DEF Chain
  <1>8. IsPlan("rollback", s, "switch", "health") BY <1>1, <1>2, <1>3, <1>4, <1>7, <1>5 DEF IsPlan
  <1>9. QED BY <1>8 DEF s

LEMMA RollbackComplete == IsPlan("rollback", <<"release_undone", "complete">>, "release_undone", "complete")
  <1> DEFINE s == <<"release_undone", "complete">>
  <1>1. s \in Seq(StepName) BY DEF StepName
  <1>2. Len(s) = 2 OBVIOUS
  <1>3. s[1] = "release_undone" /\ s[2] = "complete" OBVIOUS
  <1> HIDE DEF s
  <1>4. s # <<>> BY <1>2, NotEmpty
  <1>5. Head(s) = s[1] BY <1>1, <1>4
  <1>6. Leads("rollback", s[1], s[2]) BY <1>3 DEF Leads, RollbackLeads, PauseLeads, OpenLeads
  <1>7. Chain("rollback", s) BY <1>2, <1>6, Chain2
  <1>8. IsPlan("rollback", s, "release_undone", "complete") BY <1>1, <1>2, <1>3, <1>4, <1>7, <1>5 DEF IsPlan
  <1>9. QED BY <1>8 DEF s

LEMMA RestoreClone == IsPlan("restore", <<"clone", "maintenance">>, "clone", "maintenance")
  <1> DEFINE s == <<"clone", "maintenance">>
  <1>1. s \in Seq(StepName) BY DEF StepName
  <1>2. Len(s) = 2 OBVIOUS
  <1>3. s[1] = "clone" /\ s[2] = "maintenance" OBVIOUS
  <1> HIDE DEF s
  <1>4. s # <<>> BY <1>2, NotEmpty
  <1>5. Head(s) = s[1] BY <1>1, <1>4
  <1>6. Leads("restore", s[1], s[2]) BY <1>3 DEF Leads, RestoreLeads, PauseLeads, OpenLeads
  <1>7. Chain("restore", s) BY <1>2, <1>6, Chain2
  <1>8. IsPlan("restore", s, "clone", "maintenance") BY <1>1, <1>2, <1>3, <1>4, <1>7, <1>5 DEF IsPlan
  <1>9. QED BY <1>8 DEF s

LEMMA RestoreLoad == IsPlan("restore", <<"backup", "load", "restart", "health">>, "backup", "health")
  <1> DEFINE s == <<"backup", "load", "restart", "health">>
  <1>1. s \in Seq(StepName) BY DEF StepName
  <1>2. Len(s) = 4 OBVIOUS
  <1>3. s[1] = "backup" /\ s[2] = "load" /\ s[3] = "restart" /\ s[4] = "health" OBVIOUS
  <1> HIDE DEF s
  <1>4. s # <<>> BY <1>2, NotEmpty
  <1>5. Head(s) = s[1] BY <1>1, <1>4
  <1>6. Leads("restore", s[1], s[2]) /\ Leads("restore", s[2], s[3]) /\ Leads("restore", s[3], s[4])
    BY <1>3 DEF Leads, RestoreLeads, PauseLeads, OpenLeads
  <1>7. Chain("restore", s) BY <1>2, <1>6 DEF Chain
  <1>8. IsPlan("restore", s, "backup", "health") BY <1>1, <1>2, <1>3, <1>4, <1>7, <1>5 DEF IsPlan
  <1>9. QED BY <1>8 DEF s

LEMMA RestoreComplete == IsPlan("restore", <<"complete">>, "complete", "complete")
  <1> DEFINE s == <<"complete">>
  <1>1. s \in Seq(StepName) BY DEF StepName
  <1>2. Len(s) = 1 OBVIOUS
  <1>3. s[1] = "complete" OBVIOUS
  <1> HIDE DEF s
  <1>4. s # <<>> BY <1>2, NotEmpty
  <1>5. Head(s) = s[1] BY <1>1, <1>4
  <1>6. Chain("restore", s) BY <1>2, Chain1
  <1>7. IsPlan("restore", s, "complete", "complete") BY <1>1, <1>2, <1>3, <1>4, <1>6, <1>5 DEF IsPlan
  <1>8. QED BY <1>7 DEF s

LEMMA UpdateBack == IsPlan("unupdate", Back, "restart", "undone")
  <1> DEFINE s == <<"restart", "health", "open", "resume", "undone">>
  <1>1. s \in Seq(StepName) BY DEF StepName
  <1>2. Len(s) = 5 OBVIOUS
  <1>3. s[1] = "restart" /\ s[2] = "health" /\ s[3] = "open" /\ s[4] = "resume" /\ s[5] = "undone" OBVIOUS
  <1> HIDE DEF s
  <1>4. s # <<>> BY <1>2, NotEmpty
  <1>5. Head(s) = s[1] BY <1>1, <1>4
  <1>6. Leads("unupdate", s[1], s[2]) /\ Leads("unupdate", s[2], s[3]) /\ Leads("unupdate", s[3], s[4])
         /\ Leads("unupdate", s[4], s[5])
    BY <1>3 DEF Leads, UpdateBackLeads, BackLeads, OpenLeads
  <1>7. Chain("unupdate", s) BY <1>2, <1>6 DEF Chain
  <1>8. IsPlan("unupdate", s, "restart", "undone") BY <1>1, <1>2, <1>3, <1>4, <1>7, <1>5 DEF IsPlan
  <1>9. QED BY <1>8 DEF s, Back

LEMMA RollbackBack == IsPlan("unrollback", Back, "restart", "undone")
  <1> DEFINE s == <<"restart", "health", "open", "resume", "undone">>
  <1>1. s \in Seq(StepName) BY DEF StepName
  <1>2. Len(s) = 5 OBVIOUS
  <1>3. s[1] = "restart" /\ s[2] = "health" /\ s[3] = "open" /\ s[4] = "resume" /\ s[5] = "undone" OBVIOUS
  <1> HIDE DEF s
  <1>4. s # <<>> BY <1>2, NotEmpty
  <1>5. Head(s) = s[1] BY <1>1, <1>4
  <1>6. Leads("unrollback", s[1], s[2]) /\ Leads("unrollback", s[2], s[3]) /\ Leads("unrollback", s[3], s[4])
         /\ Leads("unrollback", s[4], s[5])
    BY <1>3 DEF Leads, RollbackBackLeads, BackLeads, OpenLeads
  <1>7. Chain("unrollback", s) BY <1>2, <1>6 DEF Chain
  <1>8. IsPlan("unrollback", s, "restart", "undone") BY <1>1, <1>2, <1>3, <1>4, <1>7, <1>5 DEF IsPlan
  <1>9. QED BY <1>8 DEF s, Back

LEMMA RestoreBack == IsPlan("unrestore", Back, "restart", "undone")
  <1> DEFINE s == <<"restart", "health", "open", "resume", "undone">>
  <1>1. s \in Seq(StepName) BY DEF StepName
  <1>2. Len(s) = 5 OBVIOUS
  <1>3. s[1] = "restart" /\ s[2] = "health" /\ s[3] = "open" /\ s[4] = "resume" /\ s[5] = "undone" OBVIOUS
  <1> HIDE DEF s
  <1>4. s # <<>> BY <1>2, NotEmpty
  <1>5. Head(s) = s[1] BY <1>1, <1>4
  <1>6. Leads("unrestore", s[1], s[2]) /\ Leads("unrestore", s[2], s[3]) /\ Leads("unrestore", s[3], s[4])
         /\ Leads("unrestore", s[4], s[5])
    BY <1>3 DEF Leads, RestoreBackLeads, BackLeads, OpenLeads
  <1>7. Chain("unrestore", s) BY <1>2, <1>6 DEF Chain
  <1>8. IsPlan("unrestore", s, "restart", "undone") BY <1>1, <1>2, <1>3, <1>4, <1>7, <1>5 DEF IsPlan
  <1>9. QED BY <1>8 DEF s, Back

LEMMA UpdateReset == IsPlan("unupdate", <<"pointer", "environment">>, "pointer", "environment")
  <1> DEFINE s == <<"pointer", "environment">>
  <1>1. s \in Seq(StepName) BY DEF StepName
  <1>2. Len(s) = 2 OBVIOUS
  <1>3. s[1] = "pointer" /\ s[2] = "environment" OBVIOUS
  <1> HIDE DEF s
  <1>4. s # <<>> BY <1>2, NotEmpty
  <1>5. Head(s) = s[1] BY <1>1, <1>4
  <1>6. Leads("unupdate", s[1], s[2]) BY <1>3 DEF Leads, UpdateBackLeads, BackLeads, OpenLeads
  <1>7. Chain("unupdate", s) BY <1>2, <1>6, Chain2
  <1>8. IsPlan("unupdate", s, "pointer", "environment") BY <1>1, <1>2, <1>3, <1>4, <1>7, <1>5 DEF IsPlan
  <1>9. QED BY <1>8 DEF s

LEMMA UpdateForget == IsPlan("unupdate", <<"undone">>, "undone", "undone")
  <1> DEFINE s == <<"undone">>
  <1>1. s \in Seq(StepName) BY DEF StepName
  <1>2. Len(s) = 1 OBVIOUS
  <1>3. s[1] = "undone" OBVIOUS
  <1> HIDE DEF s
  <1>4. s # <<>> BY <1>2, NotEmpty
  <1>5. Head(s) = s[1] BY <1>1, <1>4
  <1>6. Chain("unupdate", s) BY <1>2, Chain1
  <1>7. IsPlan("unupdate", s, "undone", "undone") BY <1>1, <1>2, <1>3, <1>4, <1>6, <1>5 DEF IsPlan
  <1>8. QED BY <1>7 DEF s

LEMMA RollbackStop == IsPlan("unrollback", <<"stop_panel">>, "stop_panel", "stop_panel")
  <1> DEFINE s == <<"stop_panel">>
  <1>1. s \in Seq(StepName) BY DEF StepName
  <1>2. Len(s) = 1 OBVIOUS
  <1>3. s[1] = "stop_panel" OBVIOUS
  <1> HIDE DEF s
  <1>4. s # <<>> BY <1>2, NotEmpty
  <1>5. Head(s) = s[1] BY <1>1, <1>4
  <1>6. Chain("unrollback", s) BY <1>2, Chain1
  <1>7. IsPlan("unrollback", s, "stop_panel", "stop_panel") BY <1>1, <1>2, <1>3, <1>4, <1>6, <1>5 DEF IsPlan
  <1>8. QED BY <1>7 DEF s

LEMMA RollbackPointer == IsPlan("unrollback", <<"pointer">>, "pointer", "pointer")
  <1> DEFINE s == <<"pointer">>
  <1>1. s \in Seq(StepName) BY DEF StepName
  <1>2. Len(s) = 1 OBVIOUS
  <1>3. s[1] = "pointer" OBVIOUS
  <1> HIDE DEF s
  <1>4. s # <<>> BY <1>2, NotEmpty
  <1>5. Head(s) = s[1] BY <1>1, <1>4
  <1>6. Chain("unrollback", s) BY <1>2, Chain1
  <1>7. IsPlan("unrollback", s, "pointer", "pointer") BY <1>1, <1>2, <1>3, <1>4, <1>6, <1>5 DEF IsPlan
  <1>8. QED BY <1>7 DEF s

LEMMA RestoreReset == IsPlan("unrestore", <<"stop_panel", "pointer", "database", "environment", "drop">>, "stop_panel", "drop")
  <1> DEFINE s == <<"stop_panel", "pointer", "database", "environment", "drop">>
  <1>1. s \in Seq(StepName) BY DEF StepName
  <1>2. Len(s) = 5 OBVIOUS
  <1>3. s[1] = "stop_panel" /\ s[2] = "pointer" /\ s[3] = "database" /\ s[4] = "environment" /\ s[5] = "drop" OBVIOUS
  <1> HIDE DEF s
  <1>4. s # <<>> BY <1>2, NotEmpty
  <1>5. Head(s) = s[1] BY <1>1, <1>4
  <1>6. Leads("unrestore", s[1], s[2]) /\ Leads("unrestore", s[2], s[3]) /\ Leads("unrestore", s[3], s[4])
         /\ Leads("unrestore", s[4], s[5])
    BY <1>3 DEF Leads, RestoreBackLeads, BackLeads, OpenLeads
  <1>7. Chain("unrestore", s) BY <1>2, <1>6 DEF Chain
  <1>8. IsPlan("unrestore", s, "stop_panel", "drop") BY <1>1, <1>2, <1>3, <1>4, <1>7, <1>5 DEF IsPlan
  <1>9. QED BY <1>8 DEF s

LEMMA DropPlan == IsPlan("drop", <<"drop", "undone">>, "drop", "undone")
  <1> DEFINE s == <<"drop", "undone">>
  <1>1. s \in Seq(StepName) BY DEF StepName
  <1>2. Len(s) = 2 OBVIOUS
  <1>3. s[1] = "drop" /\ s[2] = "undone" OBVIOUS
  <1> HIDE DEF s
  <1>4. s # <<>> BY <1>2, NotEmpty
  <1>5. Head(s) = s[1] BY <1>1, <1>4
  <1>6. Leads("drop", s[1], s[2]) BY <1>3 DEF Leads
  <1>7. Chain("drop", s) BY <1>2, <1>6, Chain2
  <1>8. IsPlan("drop", s, "drop", "undone") BY <1>1, <1>2, <1>3, <1>4, <1>7, <1>5 DEF IsPlan
  <1>9. QED BY <1>8 DEF s

LEMMA ApplyPlan == IsPlan("apply", <<"check", "try", "switching", "exchange", "replace", "principal", "restart", "verifying", "verify", "proxy", "applied">>, "check", "applied")
  <1> DEFINE s == <<"check", "try", "switching", "exchange", "replace", "principal", "restart", "verifying", "verify", "proxy", "applied">>
  <1>1. s \in Seq(StepName) BY DEF StepName
  <1>2. Len(s) = 11 OBVIOUS
  <1>3. s[1] = "check" /\ s[2] = "try" /\ s[3] = "switching" /\ s[4] = "exchange" /\ s[5] = "replace"
         /\ s[6] = "principal" /\ s[7] = "restart" /\ s[8] = "verifying" /\ s[9] = "verify" /\ s[10] = "proxy"
         /\ s[11] = "applied" OBVIOUS
  <1> HIDE DEF s
  <1>4. s # <<>> BY <1>2, NotEmpty
  <1>5. Head(s) = s[1] BY <1>1, <1>4
  <1>6. Leads("apply", s[1], s[2]) /\ Leads("apply", s[2], s[3]) /\ Leads("apply", s[3], s[4])
         /\ Leads("apply", s[4], s[5]) /\ Leads("apply", s[5], s[6]) /\ Leads("apply", s[6], s[7])
         /\ Leads("apply", s[7], s[8]) /\ Leads("apply", s[8], s[9]) /\ Leads("apply", s[9], s[10])
         /\ Leads("apply", s[10], s[11])
    BY <1>3 DEF Leads, ApplyLeads
  <1>7. Chain("apply", s) BY <1>2, <1>6 DEF Chain
  <1>8. IsPlan("apply", s, "check", "applied") BY <1>1, <1>2, <1>3, <1>4, <1>7, <1>5 DEF IsPlan
  <1>9. QED BY <1>8 DEF s

LEMMA ApplyBackPlan == IsPlan("unapply", <<"dist_back", "env_back", "principal_back", "proxy_back", "restart", "verify", "unapplied">>, "dist_back", "unapplied")
  <1> DEFINE s == <<"dist_back", "env_back", "principal_back", "proxy_back", "restart", "verify", "unapplied">>
  <1>1. s \in Seq(StepName) BY DEF StepName
  <1>2. Len(s) = 7 OBVIOUS
  <1>3. s[1] = "dist_back" /\ s[2] = "env_back" /\ s[3] = "principal_back" /\ s[4] = "proxy_back"
         /\ s[5] = "restart" /\ s[6] = "verify" /\ s[7] = "unapplied" OBVIOUS
  <1> HIDE DEF s
  <1>4. s # <<>> BY <1>2, NotEmpty
  <1>5. Head(s) = s[1] BY <1>1, <1>4
  <1>6. Leads("unapply", s[1], s[2]) /\ Leads("unapply", s[2], s[3]) /\ Leads("unapply", s[3], s[4])
         /\ Leads("unapply", s[4], s[5]) /\ Leads("unapply", s[5], s[6]) /\ Leads("unapply", s[6], s[7])
    BY <1>3 DEF Leads, ApplyBackLeads
  <1>7. Chain("unapply", s) BY <1>2, <1>6 DEF Chain
  <1>8. IsPlan("unapply", s, "dist_back", "unapplied") BY <1>1, <1>2, <1>3, <1>4, <1>7, <1>5 DEF IsPlan
  <1>9. QED BY <1>8 DEF s

LEMMA ApplyForget == IsPlan("unapply", <<"unapplied">>, "unapplied", "unapplied")
  <1> DEFINE s == <<"unapplied">>
  <1>1. s \in Seq(StepName) BY DEF StepName
  <1>2. Len(s) = 1 OBVIOUS
  <1>3. s[1] = "unapplied" OBVIOUS
  <1> HIDE DEF s
  <1>4. s # <<>> BY <1>2, NotEmpty
  <1>5. Head(s) = s[1] BY <1>1, <1>4
  <1>6. Chain("unapply", s) BY <1>2, Chain1
  <1>7. IsPlan("unapply", s, "unapplied", "unapplied") BY <1>1, <1>2, <1>3, <1>4, <1>6, <1>5 DEF IsPlan
  <1>8. QED BY <1>7 DEF s

LEMMA ApplyRecoverPlan == IsPlan("recover", <<"dist_back", "env_back", "principal_back", "restart", "verify", "proxy_back", "unapplied">>, "dist_back", "unapplied")
  <1> DEFINE s == <<"dist_back", "env_back", "principal_back", "restart", "verify", "proxy_back", "unapplied">>
  <1>1. s \in Seq(StepName) BY DEF StepName
  <1>2. Len(s) = 7 OBVIOUS
  <1>3. s[1] = "dist_back" /\ s[2] = "env_back" /\ s[3] = "principal_back" /\ s[4] = "restart"
         /\ s[5] = "verify" /\ s[6] = "proxy_back" /\ s[7] = "unapplied" OBVIOUS
  <1> HIDE DEF s
  <1>4. s # <<>> BY <1>2, NotEmpty
  <1>5. Head(s) = s[1] BY <1>1, <1>4
  <1>6. Leads("recover", s[1], s[2]) /\ Leads("recover", s[2], s[3]) /\ Leads("recover", s[3], s[4])
         /\ Leads("recover", s[4], s[5]) /\ Leads("recover", s[5], s[6]) /\ Leads("recover", s[6], s[7])
    BY <1>3 DEF Leads, ApplyRecoverLeads
  <1>7. Chain("recover", s) BY <1>2, <1>6 DEF Chain
  <1>8. IsPlan("recover", s, "dist_back", "unapplied") BY <1>1, <1>2, <1>3, <1>4, <1>7, <1>5 DEF IsPlan
  <1>9. QED BY <1>8 DEF s

LEMMA ApplyRecoverForget == IsPlan("recover", <<"unapplied">>, "unapplied", "unapplied")
  <1> DEFINE s == <<"unapplied">>
  <1>1. s \in Seq(StepName) BY DEF StepName
  <1>2. Len(s) = 1 OBVIOUS
  <1>3. s[1] = "unapplied" OBVIOUS
  <1> HIDE DEF s
  <1>4. s # <<>> BY <1>2, NotEmpty
  <1>5. Head(s) = s[1] BY <1>1, <1>4
  <1>6. Chain("recover", s) BY <1>2, Chain1
  <1>7. IsPlan("recover", s, "unapplied", "unapplied") BY <1>1, <1>2, <1>3, <1>4, <1>6, <1>5 DEF IsPlan
  <1>8. QED BY <1>7 DEF s

LEMMA UpdatePlan ==
  IsPlan("update", <<"build", "canary", "maintenance">> \o Pause \o <<"backup", "migrating", "migrate", "generation">>
           \o Adoption \o <<"link", "switch", "restart", "health", "verified">> \o Open \o <<"complete">>,
         "build", "complete")
  <1> DEFINE a == <<"build", "canary", "maintenance">> \o Pause
             b == a \o <<"backup", "migrating", "migrate", "generation">>
             c == b \o Adoption
             d == c \o <<"link", "switch", "restart", "health", "verified">>
             e == d \o Open
  <1> USE DEF Leads, UpdateLeads, OpenLeads, PauseLeads
  <1>1. IsPlan("update", a, "build", "stop_panel")
    <2>1. Leads("update", "maintenance", "close") OBVIOUS
    <2>2. QED BY <2>1, UpdatePrepare, UpdatePause, JoinPlans
  <1> HIDE DEF a
  <1>2. IsPlan("update", b, "build", "generation")
    <2>1. Leads("update", "stop_panel", "backup") OBVIOUS
    <2>2. QED BY <2>1, <1>1, UpdateMigrate, JoinPlans
  <1> HIDE DEF b
  <1>3. IsPlan("update", d, "build", "verified")
    <2>1. CASE app.at = "root"
      <3>1. Leads("update", "generation", "detach") /\ Leads("update", "attach", "link") OBVIOUS
      <3>2. IsPlan("update", c, "build", "attach") BY <2>1, <3>1, <1>2, UpdateAdopt, JoinPlans DEF Adoption
      <3> HIDE DEF c
      <3>3. QED BY <3>1, <3>2, UpdateSwitch, JoinPlans
    <2>2. CASE app.at # "root"
      <3>1. Leads("update", "generation", "link") OBVIOUS
      <3>2. c = b BY <2>2, <1>2, ConcatEmptySeq DEF Adoption, IsPlan
      <3> HIDE DEF c
      <3>3. QED BY <3>1, <3>2, <1>2, UpdateSwitch, JoinPlans
    <2>3. QED BY <2>1, <2>2
  <1> HIDE DEF d
  <1>4. IsPlan("update", e, "build", "resume")
    <2>1. Leads("update", "verified", "open") OBVIOUS
    <2>2. QED BY <2>1, <1>3, UpdateOpen, JoinPlans
  <1> HIDE DEF e
  <1>5. IsPlan("update", e \o <<"complete">>, "build", "complete")
    <2>1. Leads("update", "resume", "complete") OBVIOUS
    <2>2. QED BY <2>1, <1>4, UpdateComplete, JoinPlans
  <1>6. QED BY <1>5 DEF a, b, c, d, e

LEMMA RollbackPlan ==
  IsPlan("rollback", Pause \o <<"switch", "restart", "health">> \o Open \o <<"release_undone", "complete">>,
         "close", "complete")
  <1> DEFINE a == Pause \o <<"switch", "restart", "health">>
             b == a \o Open
  <1>1. /\ Leads("rollback", "stop_panel", "switch") /\ Leads("rollback", "health", "open")
        /\ Leads("rollback", "resume", "release_undone")
    BY DEF Leads, RollbackLeads
  <1>2. IsPlan("rollback", a, "close", "health") BY <1>1, RollbackPause, RollbackSwitch, JoinPlans
  <1> HIDE DEF a
  <1>3. IsPlan("rollback", b, "close", "resume") BY <1>1, <1>2, RollbackOpen, JoinPlans
  <1> HIDE DEF b
  <1>4. IsPlan("rollback", b \o <<"release_undone", "complete">>, "close", "complete")
    BY <1>1, <1>3, RollbackComplete, JoinPlans
  <1>5. QED BY <1>4 DEF a, b

LEMMA RestorePlan ==
  ASSUME NEW a, NEW f, IsPlan("restore", a, f, "stop_panel")
  PROVE  IsPlan("restore", a \o <<"backup", "load", "restart", "health">> \o Open \o <<"complete">>, f, "complete")
  <1> DEFINE b == a \o <<"backup", "load", "restart", "health">>
             c == b \o Open
  <1>1. /\ Leads("restore", "stop_panel", "backup") /\ Leads("restore", "health", "open")
        /\ Leads("restore", "resume", "complete")
    BY DEF Leads, RestoreLeads
  <1>2. IsPlan("restore", b, f, "health") BY <1>1, RestoreLoad, JoinPlans
  <1> HIDE DEF b
  <1>3. IsPlan("restore", c, f, "resume") BY <1>1, <1>2, RestoreOpen, JoinPlans
  <1> HIDE DEF c
  <1>4. IsPlan("restore", c \o <<"complete">>, f, "complete") BY <1>1, <1>3, RestoreComplete, JoinPlans
  <1>5. QED BY <1>4 DEF b, c

LEMMA UndoPlans ==
  /\ IsPlan("unupdate", <<"pointer", "environment">> \o Back, "pointer", "undone")
  /\ IsPlan("unrollback", ReleaseBack, "pointer", "undone")
  /\ IsPlan("unrollback", <<"stop_panel">> \o ReleaseBack, "stop_panel", "undone")
  /\ IsPlan("unrestore", <<"stop_panel", "pointer", "database", "environment", "drop">> \o Back,
            "stop_panel", "undone")
  <1>1. /\ Leads("unupdate", "environment", "restart") /\ Leads("unrollback", "pointer", "restart")
        /\ Leads("unrollback", "stop_panel", "pointer") /\ Leads("unrestore", "drop", "restart")
    BY DEF Leads, UpdateBackLeads, RollbackBackLeads, RestoreBackLeads
  <1>2. IsPlan("unupdate", <<"pointer", "environment">> \o Back, "pointer", "undone")
    BY <1>1, UpdateReset, UpdateBack, JoinPlans
  <1>3. IsPlan("unrollback", ReleaseBack, "pointer", "undone")
    BY <1>1, RollbackPointer, RollbackBack, JoinPlans DEF ReleaseBack
  <1>4. IsPlan("unrollback", <<"stop_panel">> \o ReleaseBack, "stop_panel", "undone")
    BY <1>1, <1>3, RollbackStop, JoinPlans
  <1>5. IsPlan("unrestore", <<"stop_panel", "pointer", "database", "environment", "drop">> \o Back,
               "stop_panel", "undone")
    BY <1>1, RestoreReset, RestoreBack, JoinPlans
  <1>6. QED BY <1>2, <1>3, <1>4, <1>5

-----------------------------------------------------------------------------
\* Types. What a step reads, and what the steps of an update or a rollback
\* write.

\* What the state is read through.
LEMMA Views ==
  ASSUME DataTyped
  PROVE  /\ Live \in Env /\ Live.db \in Database /\ Live.port \in Nat /\ Live.setting \in Nat
         /\ Live.generation \in BOOLEAN
         /\ app.rel \in Release /\ home[app.rel] \in Release /\ Started \in [up : BOOLEAN, rel : Release, env : Env]
         /\ \A j \in {"life", "data"} :
              /\ journal[j] \in Record /\ journal[j].prev \in Release /\ journal[j].to \in Release
              /\ journal[j].port \in Nat /\ journal[j].timers \in BOOLEAN
              /\ journal[j].backup \subseteq [db : Copy, env : Env] /\ journal[j].clone \in Database \cup {0}
         /\ job.old \in Env /\ job.new \in Env /\ job.old.port \in Nat /\ job.new.port \in Nat
         /\ job.old.setting \in Nat /\ job.new.setting \in Nat
  BY DEF DataTyped, Live, Env, Started, Record, Job, InPlace

LEMMA ReleaseTyped == ASSUME TypeInv, PlanInv, ReleaseStep PROVE DataTyped'
  <1> USE Views DEF TypeInv
  <1>1. DataTyped /\ of \in {"life", "data", "job"} /\ HostAssumption BY HostAssumption DEF ControlTyped
  <1>2. CASE Build
    <2>1. of \in {"life", "data"} BY <1>2, JobStepOf DEF Build, Step, JobSteps
    <2>2. journal' \in [{"life", "data"} -> Record] BY <1>1, <1>2, <2>1 DEF Build, Set, DataTyped, Record
    <2>3. QED BY <1>1, <1>2, <2>1, <2>2 DEF Build, DataTyped
  <1>3. CASE Canary
    <2>1. of \in {"life", "data"} BY <1>3, JobStepOf DEF Canary, Step, JobSteps
    <2>2. journal' \in [{"life", "data"} -> Record] BY <1>1, <1>3, <2>1 DEF Canary, Set, DataTyped, Record
    <2>3. QED BY <1>1, <1>3, <2>2 DEF Canary, DataTyped, files
  <1>4. CASE Migrating
    <2>1. of \in {"life", "data"} BY <1>4, JobStepOf DEF Migrating, Step, JobSteps
    <2>2. journal' \in [{"life", "data"} -> Record] BY <1>1, <1>4, <2>1 DEF Migrating, Set, DataTyped, Record
    <2>3. QED BY <1>1, <1>4, <2>2 DEF Migrating, DataTyped, files
  <1>5. CASE MigrateAdditive
    <2>1. of \in {"life", "data"} BY <1>5, JobStepOf DEF MigrateAdditive, Step, JobSteps
    <2>2. journal' \in [{"life", "data"} -> Record] BY <1>1, <1>5, <2>1 DEF MigrateAdditive, Set, DataTyped, Record
    <2>3. SchemaOf[journal[of].to] \in Nat BY <1>1, <2>1 DEF HostAssumption, Release
    <2>4. dbs' \in [Database -> Copy] BY <1>1, <1>5, <2>3 DEF MigrateAdditive, DataTyped, Copy
    <2>5. QED BY <1>1, <1>5, <2>2, <2>4 DEF MigrateAdditive, DataTyped
  <1>6. CASE AddGeneration
    <2>1. env' \in [Release -> Env] BY <1>1, <1>6 DEF AddGeneration, WriteEnv, DataTyped, Env
    <2>2. QED BY <1>1, <1>6, <2>1 DEF AddGeneration, DataTyped
  <1>7. CASE Detach BY <1>1, <1>7 DEF Detach, DataTyped
  <1>8. CASE Attach
    <2>1. of \in {"life", "data"} BY <1>8, JobStepOf DEF Attach, Step, JobSteps
    <2>2. journal' \in [{"life", "data"} -> Record] BY <1>1, <1>8, <2>1 DEF Attach, Set, DataTyped, Record
    <2>3. QED BY <1>1, <1>8, <2>2 DEF Attach, DataTyped
  <1>9. CASE RuntimeLinks
    <2>1. of \in {"life", "data"} BY <1>9, JobStepOf DEF RuntimeLinks, Step, JobSteps
    <2>2. journal' \in [{"life", "data"} -> Record] BY <1>1, <1>9, <2>1 DEF RuntimeLinks, Set, DataTyped, Record
    <2>3. QED BY <1>1, <1>9, <2>1, <2>2 DEF RuntimeLinks, DataTyped
  <1>10. CASE AtomicPointer
    <2>1. of \in {"life", "data"} BY <1>10, JobStepOf DEF AtomicPointer, Step, JobSteps
    <2>2. QED BY <1>1, <1>10, <2>1 DEF AtomicPointer, DataTyped
  <1>11. CASE HealthVerified
    <2>1. of \in {"life", "data"} BY <1>11, JobStepOf DEF HealthVerified, Step, JobSteps
    <2>2. journal' \in [{"life", "data"} -> Record] BY <1>1, <1>11, <2>1 DEF HealthVerified, Set, DataTyped, Record
    <2>3. QED BY <1>1, <1>11, <2>2 DEF HealthVerified, DataTyped, files
  <1>12. CASE ReleaseRolledBack
    <2>1. journal' \in [{"life", "data"} -> Record]
      BY <1>1, <1>12, Views, Zenon DEF ReleaseRolledBack, Finish, DataTyped, Record, NoRecord, HostAssumption, Release
    <2>2. QED BY <1>1, <1>12, <2>1 DEF ReleaseRolledBack, DataTyped, files
  <1>13. QED BY <1>2, <1>3, <1>4, <1>5, <1>6, <1>7, <1>8, <1>9, <1>10, <1>11, <1>12 DEF ReleaseStep

-----------------------------------------------------------------------------
\* Types: the steps that operations share, and going back.

LEMMA FinishTyped ==
  ASSUME DataTyped, NEW j \in {"life", "data"}, NEW st \in {"complete", "rolled_back"}, Finish(j, st)
  PROVE  journal' \in [{"life", "data"} -> Record]
  <1> DEFINE r == [NoRecord EXCEPT !.state = st, !.kind = journal[j].kind,
                                   !.prev = IF j = "life" THEN journal[j].prev ELSE 1,
                                   !.to = IF j = "life" THEN journal[j].to ELSE 1]
  <1>1. 1 \in Release BY HostAssumption DEF HostAssumption, Release
  <1>2. journal[j] \in Record BY DEF DataTyped
  <1>3. r \in Record BY <1>1, <1>2 DEF Record, NoRecord
  <1> HIDE DEF r
  <1>4. [journal EXCEPT ![j] = r] \in [{"life", "data"} -> Record] BY <1>3 DEF DataTyped
  <1>5. QED BY <1>4 DEF Finish, r

LEMMA LoadOf ==
  ASSUME TypeInv, PlanInv, todo # <<>>, Head(todo) = "load"
  PROVE  op = "forward" /\ of = "data" /\ D.kind # "rollback"
  <1>1. PICK b : Head(todo) = Last \/ Leads(Plan, Head(todo), b) BY StepOf
  <1>2. Leads(Plan, "load", b) BY <1>1 DEF Last
  <1>3. Plan = "restore"
    BY <1>2 DEF Leads, UpdateLeads, RollbackLeads, RestoreLeads, UpdateBackLeads, RollbackBackLeads,
                RestoreBackLeads, PauseLeads, OpenLeads, BackLeads, ApplyLeads, ApplyBackLeads, ApplyRecoverLeads
  <1>4. QED BY <1>3 DEF Plan

LEMMA SharedTyped == ASSUME IInv, SharedStep PROVE DataTyped'
  <1> USE Views
  <1>1. TypeInv /\ PlanInv /\ DataTyped /\ of \in {"life", "data", "job"} /\ HostAssumption /\ saved \subseteq Copy
    BY HostAssumption DEF IInv, TypeInv, ControlTyped
  <1>2. CASE Maintenance
    <2>1. of \in {"life", "data"} BY <1>2, <1>1, JobStepOf DEF Maintenance, Step, JobSteps
    <2>2. journal' \in [{"life", "data"} -> Record] BY <1>1, <1>2, <2>1 DEF Maintenance, DataTyped, Record, Set
    <2>3. QED BY <1>1, <1>2, <2>2 DEF Maintenance, DataTyped, files
  <1>3. CASE CloseSite BY <1>1, <1>3 DEF CloseSite, DataTyped, files
  <1>4. CASE NoteTimers
    <2>1. of \in {"life", "data"} BY <1>4, <1>1, JobStepOf DEF NoteTimers, Step, JobSteps
    <2>2. journal' \in [{"life", "data"} -> Record] BY <1>1, <1>4, <2>1 DEF NoteTimers, DataTyped, Record
    <2>3. QED BY <1>1, <1>4, <2>2 DEF NoteTimers, DataTyped, files
  <1>5. CASE StopTimers BY <1>1, <1>5 DEF StopTimers, DataTyped, files
  <1>6. CASE StopPanel BY <1>1, <1>6 DEF StopPanel, DataTyped, files
  <1>7. CASE FinalBackup
    <2>1. of \in {"life", "data"} BY <1>7, <1>1, JobStepOf DEF FinalBackup, Step, JobSteps
    <2>2. dbs[Live.db] \in Copy /\ Live \in Env BY <1>1 DEF DataTyped
    <2>3. journal' \in [{"life", "data"} -> Record] BY <1>1, <1>7, <2>1, <2>2 DEF FinalBackup, DataTyped, Record
    <2>4. QED BY <1>1, <1>7, <2>3 DEF FinalBackup, DataTyped, files
  <1>8. CASE Restart BY <1>1, <1>8 DEF Restart, DataTyped, files
  <1>9. CASE Health BY <1>1, <1>9 DEF Health, DataTyped, files
  <1>10. CASE OpenSite
    <2>1. of \in {"life", "data"} BY <1>10, <1>1, JobStepOf DEF OpenSite, Step, JobSteps
    <2>2. QED BY <1>1, <1>10, <2>1 DEF OpenSite, DataTyped, files
  <1>11. CASE ResumeWriters
    <2>1. of \in {"life", "data"} BY <1>11, <1>1, JobStepOf DEF ResumeWriters, Step, JobSteps
    <2>2. QED BY <1>1, <1>11, <2>1 DEF ResumeWriters, DataTyped, files
  <1>12. CASE Complete
    <2>1. of \in {"life", "data"} BY <1>12, <1>1, JobStepOf DEF Complete, Step, JobSteps
    <2>2. journal' \in [{"life", "data"} -> Record] BY <1>1, <1>12, <2>1, FinishTyped DEF Complete
    <2>3. QED BY <1>1, <1>12, <2>2 DEF Complete, DataTyped, files
  <1>13. CASE Clone
    <2>1. dbs' \in [Database -> Copy] BY <1>1, <1>13 DEF Clone, DataTyped
    <2>2. QED BY <1>1, <1>13, <2>1 DEF Clone, DataTyped
  <1>14. CASE Load
    <2>1. op = "forward" /\ of = "data" /\ D.kind # "rollback" BY <1>1, <1>14, LoadOf DEF Load, Step
    <2>2. CASE backend = "sqlite"
      <3>1. dbs' \in [Database -> Copy] BY <1>1, <1>14, <2>2 DEF Load, DataTyped
      <3>2. QED BY <1>1, <1>14, <2>2, <3>1 DEF Load, DataTyped
    <2>3. CASE backend # "sqlite"
      <3>1. at = "load" BY <1>14 DEF Load, Step, at
      <3>2. journal[of].clone \in Database BY <1>1, <2>1, <2>3, <3>1 DEF IInv, RestoringInv, D
      <3>3. env' \in [Release -> Env] BY <1>1, <1>14, <2>3, <3>2 DEF Load, WriteEnv, DataTyped, Env
      <3>4. QED BY <1>1, <1>14, <2>3, <3>3 DEF Load, DataTyped
    <2>4. QED BY <2>2, <2>3
  <1>15. QED BY <1>2, <1>3, <1>4, <1>5, <1>6, <1>7, <1>8, <1>9, <1>10, <1>11, <1>12, <1>13, <1>14 DEF SharedStep

LEMMA UndoTyped == ASSUME IInv, UndoStep PROVE DataTyped'
  <1> USE Views
  <1>1. TypeInv /\ PlanInv /\ DataTyped /\ of \in {"life", "data", "job"} BY DEF IInv, TypeInv, ControlTyped
  <1>2. CASE PointerBack
    <2>1. of \in {"life", "data"} BY <1>1, <1>2, JobStepOf DEF PointerBack, Step, JobSteps
    <2>2. QED BY <1>1, <1>2, <2>1 DEF PointerBack, DataTyped
  <1>3. CASE DatabaseBack
    <2>1. of \in {"life", "data"} BY <1>1, <1>3, JobStepOf DEF DatabaseBack, Step, JobSteps
    <2>2. journal[of].backup # {} => (CHOOSE b \in journal[of].backup : TRUE) \in [db : Copy, env : Env]
      BY <1>1, <2>1
    <2>3. dbs' \in [Database -> Copy] BY <1>1, <1>3, <2>1, <2>2 DEF DatabaseBack, DataTyped
    <2>4. QED BY <1>1, <1>3, <2>3 DEF DatabaseBack, DataTyped
  <1>4. CASE RestoreRecordedEnvironment
    <2>1. of \in {"life", "data"} BY <1>1, <1>4, JobStepOf DEF RestoreRecordedEnvironment, Step, JobSteps
    <2>2. journal[of].backup # {} => (CHOOSE b \in journal[of].backup : TRUE) \in [db : Copy, env : Env]
      BY <1>1, <2>1
    <2>3. env' \in [Release -> Env] BY <1>1, <1>4, <2>2 DEF RestoreRecordedEnvironment, WriteEnv, DataTyped
    <2>4. app' \in [at : {"root", "link", "gone", "bare"}, rel : Release]
      BY <1>1, <1>4 DEF RestoreRecordedEnvironment, DataTyped
    <2>5. QED BY <1>1, <1>4, <2>3, <2>4 DEF RestoreRecordedEnvironment, DataTyped
  <1>5. CASE CleanupRecordedDatabase
    <2>1. of \in {"life", "data"} BY <1>1, <1>5, JobStepOf DEF CleanupRecordedDatabase, Step, JobSteps
    <2>2. dbs' \in [Database -> Copy] BY <1>1, <1>5, <2>1 DEF CleanupRecordedDatabase, DataTyped, Copy
    <2>3. journal' \in [{"life", "data"} -> Record]
      BY <1>1, <1>5, <2>1 DEF CleanupRecordedDatabase, DataTyped, Record
    <2>4. QED BY <1>1, <1>5, <2>2, <2>3 DEF CleanupRecordedDatabase, DataTyped
  <1>6. CASE RolledBack
    <2>1. of \in {"life", "data"} BY <1>1, <1>6, JobStepOf DEF RolledBack, Step, JobSteps
    <2>2. journal' \in [{"life", "data"} -> Record] BY <1>1, <1>6, <2>1, FinishTyped DEF RolledBack
    <2>3. QED BY <1>1, <1>6, <2>2 DEF RolledBack, DataTyped, files
  <1>7. QED BY <1>2, <1>3, <1>4, <1>5, <1>6 DEF UndoStep

LEMMA FinishJobTyped == ASSUME NEW st \in {"complete", "rolled_back"}, FinishJob(st) PROVE job' \in Job
  <1>1. 1 \in Database BY HostAssumption DEF HostAssumption, Database
  <1>2. FirstEnv \in Env BY <1>1 DEF FirstEnv, Env
  <1>3. NoJob \in Job BY <1>2 DEF NoJob, Job
  <1>4. QED BY <1>3 DEF FinishJob, Job

LEMMA SettingsTyped == ASSUME IInv, SettingsStep PROVE DataTyped'
  <1> USE Views
  <1>1. DataTyped BY DEF IInv, TypeInv
  <1>2. CASE Check BY <1>1, <1>2 DEF Check, DataTyped, SetJob, Job, files
  <1>3. CASE TryCandidate BY <1>1, <1>3 DEF TryCandidate, DataTyped, SetJob, Job, files
  <1>4. CASE Switching BY <1>1, <1>4 DEF Switching, DataTyped, SetJob, Job, files
  <1>5. CASE ExchangeDist BY <1>1, <1>5 DEF ExchangeDist, DataTyped
  <1>6. CASE ReplaceLive BY <1>1, <1>6 DEF ReplaceLive, DataTyped, ReplaceEnv, WriteEnv
  <1>7. CASE PrincipalForward BY <1>1, <1>7 DEF PrincipalForward, DataTyped, MigratePrincipal, Copy
  <1>8. CASE Verifying BY <1>1, <1>8 DEF Verifying, DataTyped, SetJob, Job, files
  <1>9. CASE Verify BY <1>1, <1>9 DEF Verify, DataTyped, files
  <1>10. CASE SwitchProxy BY <1>1, <1>10 DEF SwitchProxy, DataTyped, files
  <1>11. CASE Applied BY <1>1, <1>11, FinishJobTyped DEF Applied, DataTyped, files
  <1>12. CASE DistBack BY <1>1, <1>12 DEF DistBack, DataTyped
  <1>13. CASE EnvBack BY <1>1, <1>13 DEF EnvBack, DataTyped, ReplaceEnv, WriteEnv
  <1>14. CASE PrincipalBack BY <1>1, <1>14 DEF PrincipalBack, DataTyped, MigratePrincipal, Copy
  <1>15. CASE ProxyBack BY <1>1, <1>15 DEF ProxyBack, DataTyped, files
  <1>16. CASE NotApplied BY <1>1, <1>16, FinishJobTyped DEF NotApplied, DataTyped, files
  <1>17. QED
    BY <1>2, <1>3, <1>4, <1>5, <1>6, <1>7, <1>8, <1>9, <1>10, <1>11, <1>12, <1>13, <1>14, <1>15, <1>16 DEF SettingsStep

-----------------------------------------------------------------------------
\* Types: operations begin with their plans.

\* Every step of a running operation.
LEMMA StepNames ==
  /\ ReleaseStep => \E s \in StepName : Step(s)
  /\ SharedStep => \E s \in StepName : Step(s)
  /\ UndoStep => \E s \in StepName : Step(s)
  /\ SettingsStep => \E s \in StepName : Step(s)
  <1>1. ReleaseStep => \E s \in StepName : Step(s)
    BY DEF ReleaseStep, Build, Canary, Migrating, MigrateAdditive, AddGeneration, Detach, Attach, RuntimeLinks,
           AtomicPointer, HealthVerified, ReleaseRolledBack, StepName
  <1>2. SharedStep => \E s \in StepName : Step(s)
    BY DEF SharedStep, Maintenance, CloseSite, NoteTimers, StopTimers, StopPanel, FinalBackup, Restart, Health,
           OpenSite, ResumeWriters, Complete, Clone, Load, StepName
  <1>3. UndoStep => \E s \in StepName : Step(s)
    BY DEF UndoStep, PointerBack, DatabaseBack, RestoreRecordedEnvironment, CleanupRecordedDatabase, RolledBack,
           StepName
  <1>4. SettingsStep => \E s \in StepName : Step(s)
    BY DEF SettingsStep, Check, TryCandidate, Switching, ExchangeDist, ReplaceLive, PrincipalForward, Verifying,
           Verify, SwitchProxy, Applied, DistBack, EnvBack, PrincipalBack, ProxyBack, NotApplied, StepName
  <1>5. QED BY <1>1, <1>2, <1>3, <1>4

LEMMA StepsTyped ==
  ASSUME IInv, ReleaseStep \/ SharedStep \/ UndoStep \/ SettingsStep PROVE TypeInv'
  <1>1. TypeInv /\ PlanInv BY DEF IInv
  <1>2. DataTyped' BY <1>1, ReleaseTyped, SharedTyped, UndoTyped, SettingsTyped
  <1>3. PICK s \in StepName : Step(s) BY StepNames
  <1>4. /\ todo' \in Seq(StepName) /\ op' \in {"idle", op} /\ of' = of
        /\ UNCHANGED <<backend, helper, saved, bounds>>
    BY <1>1, <1>3, Advance
  <1>5. ControlTyped' BY <1>1, <1>4 DEF TypeInv, ControlTyped, bounds
  <1>6. QED BY <1>2, <1>5 DEF TypeInv

LEMMA UpdateStarts ==
  ASSUME Update PROVE op' = "forward" /\ of' = "life" /\ IsPlan("update", todo', "build", "complete")
  <1>1. /\ op' = "forward" /\ of' = "life"
        /\ todo' = <<"build", "canary", "maintenance">> \o Pause
                   \o <<"backup", "migrating", "migrate", "generation">> \o Adoption
                   \o <<"link", "switch", "restart", "health", "verified">> \o Open \o <<"complete">>
    BY Zenon DEF Update, Begin
  <1>2. QED BY <1>1, UpdatePlan, Zenon

LEMMA RollbackStarts ==
  ASSUME RollbackRelease
  PROVE  op' = "forward" /\ of' = "data" /\ IsPlan("rollback", todo', "close", "complete")
  <1>1. /\ op' = "forward" /\ of' = "data"
        /\ todo' = Pause \o <<"switch", "restart", "health">> \o Open \o <<"release_undone", "complete">>
    BY Zenon DEF RollbackRelease, Begin
  <1>2. QED BY <1>1, RollbackPlan, Zenon

LEMMA UpdateTyped == ASSUME IInv, Update PROVE TypeInv'
  <1>1. TypeInv /\ DataTyped BY DEF IInv, TypeInv
  <1> USE Views
  <1>2. built' \in Release
    <2>1. built \in 1..MaxRelease /\ built < MaxRelease /\ built' = built + 1 /\ MaxRelease \in Nat
      BY <1>1, HostAssumption DEF Update, DataTyped, Release, HostAssumption
    <2>2. QED BY <2>1 DEF Release
  <1>3. journal' \in [{"life", "data"} -> Record]
    <2>1. [NoRecord EXCEPT !.kind = "update", !.state = "preparing", !.prev = app.rel, !.to = built + 1,
                           !.port = Live.port] \in Record
      BY <1>1, <1>2 DEF Update, Record, NoRecord
    <2>2. QED BY <2>1, <1>1 DEF Update, DataTyped
  <1>4. DataTyped' BY <1>1, <1>2, <1>3 DEF Update, DataTyped
  <1>5. todo' \in Seq(StepName) /\ op' = "forward" /\ of' = "life" BY <1>1, UpdateStarts DEF IsPlan
  <1>6. ControlTyped' BY <1>1, <1>5 DEF Update, TypeInv, ControlTyped, bounds
  <1>7. QED BY <1>4, <1>6 DEF TypeInv

LEMMA RollbackTyped == ASSUME IInv, RollbackRelease PROVE TypeInv'
  <1>1. TypeInv /\ DataTyped BY DEF IInv, TypeInv
  <1> USE Views
  <1>2. journal' \in [{"life", "data"} -> Record]
    <2>1. [NoRecord EXCEPT !.kind = "rollback", !.state = "maintenance", !.prev = app.rel, !.to = journal["life"].prev,
                           !.port = Live.port] \in Record
      BY <1>1 DEF Record, NoRecord
    <2>2. QED BY <2>1, <1>1 DEF RollbackRelease, DataTyped
  <1>3. DataTyped' BY <1>1, <1>2 DEF RollbackRelease, DataTyped, host
  <1>4. todo' \in Seq(StepName) /\ op' = "forward" /\ of' = "data" BY <1>1, RollbackStarts DEF IsPlan
  <1>5. ControlTyped' BY <1>1, <1>4 DEF RollbackRelease, TypeInv, ControlTyped, bounds, host
  <1>6. QED BY <1>3, <1>5 DEF TypeInv

LEMMA RestoreStarts ==
  ASSUME TypeInv, RestoreDatabase
  PROVE  /\ op' = "forward" /\ of' = "data"
         /\ IsPlan("restore", todo', IF backend = "postgresql" THEN "clone" ELSE "close", "complete")
  <1>1. op' = "forward" /\ of' = "data" BY DEF RestoreDatabase, Begin
  <1>2. CASE backend = "postgresql"
    <2>1. todo' = <<"clone", "maintenance">> \o Pause \o <<"backup", "load", "restart", "health">> \o Open
                  \o <<"complete">>
      BY <1>2 DEF RestoreDatabase, Begin
    <2>2. Leads("restore", "maintenance", "close") BY DEF Leads, RestoreLeads
    <2>3. IsPlan("restore", <<"clone", "maintenance">> \o Pause, "clone", "stop_panel")
      BY <2>2, RestoreClone, RestorePause, JoinPlans
    <2>4. IsPlan("restore", todo', "clone", "complete") BY <2>1, <2>3, RestorePlan, Zenon
    <2>5. QED BY <1>1, <1>2, <2>4
  <1>3. CASE backend # "postgresql"
    <2>1. todo' = <<>> \o Pause \o <<"backup", "load", "restart", "health">> \o Open \o <<"complete">>
      BY <1>3 DEF RestoreDatabase, Begin
    <2>2. <<>> \o Pause = Pause BY RestorePause, ConcatEmptySeq DEF IsPlan
    <2>3. todo' = Pause \o <<"backup", "load", "restart", "health">> \o Open \o <<"complete">> BY <2>1, <2>2, Zenon
    <2>4. IsPlan("restore", todo', "close", "complete") BY <2>3, RestorePause, RestorePlan, Zenon
    <2>5. QED BY <1>1, <1>3, <2>4
  <1>4. QED BY <1>2, <1>3

LEMMA RestoreTyped == ASSUME IInv, RestoreDatabase PROVE TypeInv'
  <1>1. TypeInv /\ DataTyped BY DEF IInv, TypeInv
  <1> USE Views
  <1>2. restores' \in 0..MaxRestores /\ restores + 2 \in Database
    <2>1. restores \in 0..MaxRestores /\ restores < MaxRestores /\ restores' = restores + 1 /\ MaxRestores \in Nat
      BY <1>1, HostAssumption DEF RestoreDatabase, TypeInv, ControlTyped, HostAssumption
    <2>2. QED BY <2>1 DEF Database
  <1>3. journal' \in [{"life", "data"} -> Record]
    <2>1. [NoRecord EXCEPT !.kind = "restore", !.state = IF backend = "postgresql" THEN "preparing" ELSE "maintenance",
                           !.prev = app.rel, !.to = app.rel, !.port = Live.port,
                           !.clone = IF backend = "postgresql" THEN restores + 2 ELSE 0] \in Record
      BY <1>1, <1>2, Zenon DEF Record, NoRecord
    <2>2. QED BY <2>1, <1>1 DEF RestoreDatabase, DataTyped
  <1>4. DataTyped' BY <1>1, <1>3 DEF RestoreDatabase, DataTyped, host
  <1>5. todo' \in Seq(StepName) /\ op' = "forward" /\ of' = "data" BY <1>1, RestoreStarts DEF IsPlan
  <1>6. ControlTyped' BY <1>1, <1>2, <1>5 DEF RestoreDatabase, TypeInv, ControlTyped, host
  <1>7. QED BY <1>4, <1>6 DEF TypeInv

LEMMA MakeBackupTyped == ASSUME IInv, MakeBackup PROVE TypeInv'
  <1>1. dbs[Live.db] \in Copy BY Views DEF IInv, TypeInv, DataTyped
  <1>2. QED BY <1>1 DEF IInv, MakeBackup, TypeInv, DataTyped, ControlTyped, host, bounds

LEMMA ApplyTyped == ASSUME IInv, Apply PROVE TypeInv'
  <1>1. TypeInv /\ DataTyped BY DEF IInv, TypeInv
  <1>2. job' \in Job
    <2>1. CASE FinishJob("rolled_back") BY <2>1, FinishJobTyped
    <2>2. CASE \E e \in Wanted : job' = [status |-> "queued", old |-> Live, new |-> e,
                                         tracked |-> dbs[Live.db].owner = Live.setting]
      <3>1. PICK e \in Wanted : job' = [status |-> "queued", old |-> Live, new |-> e,
                                        tracked |-> dbs[Live.db].owner = Live.setting] BY <2>2
      <3>2. e \in Env BY <1>1, Views DEF Wanted, Env, TypeInv, ControlTyped
      <3>3. (dbs[Live.db].owner = Live.setting) \in BOOLEAN OBVIOUS
      <3>4. QED BY <1>1, <3>1, <3>2, <3>3, Views DEF Job
    <2>3. QED BY <2>1, <2>2 DEF Apply
  <1>3. DataTyped' BY <1>1, <1>2 DEF Apply, DataTyped, host
  <1>4. ControlTyped'
    <2>1. /\ changes' = changes + 1 /\ helper' \in BOOLEAN
          /\ UNCHANGED <<backend, saved, op, of, todo, restores, written, faults>>
      BY DEF Apply, host
    <2>2. QED BY <1>1, <2>1 DEF TypeInv, ControlTyped
  <1>5. QED BY <1>3, <1>4 DEF TypeInv

LEMMA HelperTyped == ASSUME IInv, ApplyHelper \/ HelperGivesUp PROVE TypeInv'
  <1>1. TypeInv BY DEF IInv
  <1>2. DataTyped' BY <1>1 DEF ApplyHelper, HelperGivesUp, TypeInv, DataTyped, host
  <1>3. /\ helper' \in BOOLEAN /\ UNCHANGED <<backend, saved, restores, changes, written, faults>>
    BY DEF ApplyHelper, HelperGivesUp, host, bounds
  <1>4. /\ op' \in {"idle", "forward", "undo", "recover"} /\ of' \in {"life", "data", "job"}
        /\ todo' \in Seq(StepName)
    <2>1. CASE UNCHANGED <<op, of, todo>> BY <2>1, <1>1 DEF TypeInv, ControlTyped
    <2>2. CASE op' = "forward" /\ of' = "job"
               /\ todo' = <<"check", "try", "switching", "exchange", "replace", "principal",
                            "restart", "verifying", "verify", "proxy", "applied">>
      BY <2>2, ApplyPlan DEF IsPlan
    <2>3. QED BY <2>1, <2>2 DEF ApplyHelper, HelperGivesUp, Begin
  <1>5. ControlTyped' BY <1>1, <1>3, <1>4 DEF TypeInv, ControlTyped
  <1>6. QED BY <1>2, <1>5 DEF TypeInv

\* What the code falls back to is a plan, too.
LEMMA UndoLifePlan ==
  IF L.state \in Early THEN IsPlan("unupdate", UndoLife, "undone", "undone")
  ELSE IsPlan("unupdate", UndoLife, "pointer", "undone")
  BY UpdateForget, UndoPlans, Zenon DEF UndoLife, L

LEMMA UndoDataPlan ==
  /\ D.state = "preparing" => IsPlan("drop", UndoData, "drop", "undone")
  /\ D.state # "preparing" /\ D.kind = "restore" => IsPlan("unrestore", UndoData, "stop_panel", "undone")
  /\ D.state # "preparing" /\ D.kind # "restore" => IsPlan("unrollback", UndoData, "stop_panel", "undone")
  <1> DEFINE drop == <<"drop", "undone">>
             whole == <<"stop_panel", "pointer", "database", "environment", "drop">> \o Back
             code == <<"stop_panel">> \o ReleaseBack
  <1>1. UndoData = CASE D.state = "preparing" -> drop [] D.state # "preparing" /\ D.kind = "restore" -> whole [] OTHER -> code
    BY Zenon DEF UndoData, D
  <1>2. /\ IsPlan("drop", drop, "drop", "undone") /\ IsPlan("unrestore", whole, "stop_panel", "undone")
        /\ IsPlan("unrollback", code, "stop_panel", "undone")
    BY DropPlan, UndoPlans, Zenon
  <1> HIDE DEF drop, whole, code
  <1>3. QED BY <1>1, <1>2

LEMMA UndoChangePlan ==
  IF SwitchedSome THEN IsPlan("unapply", UndoChange, "dist_back", "unapplied")
  ELSE IsPlan("unapply", UndoChange, "unapplied", "unapplied")
  BY ApplyBackPlan, ApplyForget, Zenon DEF UndoChange

LEMMA RecoverChangePlan ==
  IF job.status \in {"queued", "building", "canary"}
  THEN IsPlan("recover", RecoverChange, "unapplied", "unapplied")
  ELSE IsPlan("recover", RecoverChange, "dist_back", "unapplied")
  BY ApplyRecoverPlan, ApplyRecoverForget, Zenon DEF RecoverChange

-----------------------------------------------------------------------------
\* Types: failures, recovery and writers; every step.

LEMMA HandlerPlan ==
  ASSUME IInv, todo # <<>>, op = "forward"
  PROVE  \/ Handler = <<>>
         \/ \E p, a, z : IsPlan(p, Handler, a, z)
  <1>1. CASE of = "life" BY <1>1, UndoLifePlan, Zenon DEF Handler
  <1>2. CASE of = "job" BY <1>2, UndoChangePlan, Zenon DEF Handler
  <1>3. CASE of = "data"
    <2>1. Handler \in {<<>>, ReleaseBack, UndoData} BY <1>3, Zenon DEF Handler
    <2>2. \E p, a, z : IsPlan(p, UndoData, a, z) BY UndoDataPlan, Zenon
    <2>3. \E p, a, z : IsPlan(p, ReleaseBack, a, z) BY UndoPlans, Zenon
    <2>4. QED BY <2>1, <2>2, <2>3, Zenon
  <1>4. QED BY <1>1, <1>2, <1>3 DEF IInv, TypeInv, ControlTyped

LEMMA FailsEffect ==
  ASSUME IInv, Fails
  PROVE  /\ todo # <<>> /\ op # "idle"
         /\ UNCHANGED <<host, journal, helper, saved, restores, changes, written, of>> /\ faults' \in {faults, faults + 1}
         /\ \/ op' = "idle" /\ todo' = <<>>
            \/ op = "forward" /\ op' = "undo" /\ todo' = Handler /\ Handler # <<>>
         /\ job' = IF of = "job" /\ op = "undo" THEN [job EXCEPT !.status = "recovery_required"] ELSE job
  <1> DEFINE steps == IF op = "forward" THEN Handler ELSE <<>>
  <1>1. /\ todo # <<>> /\ faults' \in {faults, faults + 1}
        /\ Begin(IF steps = <<>> THEN "idle" ELSE "undo", of, steps)
        /\ job' = IF of = "job" /\ op = "undo" THEN [job EXCEPT !.status = "recovery_required"] ELSE job
        /\ UNCHANGED <<host, journal, helper, saved, restores, changes, written>>
    BY Zenon DEF Fails
  <1>2. op # "idle" BY <1>1 DEF IInv, PlanInv
  <1>3. of' = of /\ todo' = steps /\ op' = IF steps = <<>> THEN "idle" ELSE "undo" BY <1>1, Zenon DEF Begin
  <1>4. CASE steps = <<>> BY <1>1, <1>2, <1>3, <1>4
  <1>5. CASE steps # <<>>
    <2>1. op = "forward" /\ steps = Handler BY <1>5
    <2>2. QED BY <1>1, <1>2, <1>3, <1>5, <2>1
  <1>6. QED BY <1>4, <1>5

LEMMA FailsTyped == ASSUME IInv, Fails PROVE TypeInv'
  <1>1. TypeInv BY DEF IInv
  <1>2. todo' \in Seq(StepName)
    <2>1. CASE todo' = <<>> BY <2>1, EmptySeq
    <2>2. CASE todo' = Handler /\ op = "forward" BY <2>2, HandlerPlan, FailsEffect, EmptySeq DEF IsPlan
    <2>3. QED BY <2>1, <2>2, FailsEffect
  <1>3. job' \in Job BY <1>1, FailsEffect DEF TypeInv, DataTyped, Job
  <1>4. DataTyped' BY <1>1, <1>3, FailsEffect DEF TypeInv, DataTyped, host
  <1>5. ControlTyped' BY <1>1, <1>2, FailsEffect DEF TypeInv, ControlTyped, host
  <1>6. QED BY <1>4, <1>5 DEF TypeInv

LEMMA FaultTyped == ASSUME IInv, Kill \/ Reboot PROVE TypeInv'
  <1>1. TypeInv /\ DataTyped BY DEF IInv, TypeInv
  <1>2. op' = "idle" /\ of' = of /\ todo' = <<>> /\ faults' = faults + 1
        /\ UNCHANGED <<backend, app, built, home, env, dist, dbs, site, journal, job, saved, restores, changes, written>>
        /\ panel' \in {panel, Started} /\ timers' \in {timers, TRUE} /\ helper' \in {helper, FALSE}
    BY DEF Kill, Reboot, Begin, host, files
  <1>3. DataTyped' BY <1>1, <1>2, Views DEF DataTyped
  <1>4. <<>> \in Seq(StepName) BY EmptySeq
  <1>5. helper' \in BOOLEAN BY <1>1, <1>2, Zenon DEF TypeInv, ControlTyped
  <1>6. ControlTyped' BY <1>1, <1>2, <1>4, <1>5 DEF TypeInv, ControlTyped
  <1>7. QED BY <1>3, <1>6 DEF TypeInv

LEMMA RecoverEffect ==
  ASSUME Recover
  PROVE  /\ op = "idle" /\ Pending /\ op' = "recover"
         /\ UNCHANGED <<host, journal, job, helper, saved, bounds>>
         /\ \/ PendingJob /\ of' = "job" /\ todo' = RecoverChange
            \/ ~PendingJob /\ Unfinished("data") /\ of' = "data" /\ todo' = UndoData
            \/ ~PendingJob /\ ~Unfinished("data") /\ Unfinished("life") /\ of' = "life" /\ todo' = UndoLife
  BY Zenon DEF Recover, Begin, Pending

LEMMA RecoverTyped == ASSUME IInv, Recover PROVE TypeInv'
  <1>1. TypeInv BY DEF IInv
  <1>2. todo' \in Seq(StepName)
    <2>1. RecoverChange \in Seq(StepName) BY RecoverChangePlan DEF IsPlan
    <2>2. UndoData \in Seq(StepName) BY UndoDataPlan DEF IsPlan
    <2>3. UndoLife \in Seq(StepName) BY UndoLifePlan DEF IsPlan
    <2>4. QED BY <2>1, <2>2, <2>3, RecoverEffect
  <1>3. DataTyped' BY <1>1, RecoverEffect DEF TypeInv, DataTyped, host
  <1>4. ControlTyped' BY <1>1, <1>2, RecoverEffect DEF TypeInv, ControlTyped, host, bounds
  <1>5. QED BY <1>3, <1>4 DEF TypeInv

\* A row is added to the one database in use.
LEMMA WriteEffect ==
  ASSUME TypeInv, CustomerWrites \/ JobWrites
  PROVE  /\ UNCHANGED <<backend, app, built, home, env, dist, panel, timers, site, journal, job, helper, saved, op, of,
                        todo, restores, changes, faults>>
         /\ written' = written + 1
         /\ dbs' \in [Database -> Copy]
         /\ \A d \in Database : dbs'[d].head = dbs[d].head /\ dbs'[d].owner = dbs[d].owner
  <1>1. DataTyped /\ written \in Nat BY DEF TypeInv, ControlTyped
  <1>2. PICK d : Write(d) BY DEF CustomerWrites, JobWrites
  <1>3. dbs' \in [Database -> Copy] /\ \A x \in Database : dbs'[x].head = dbs[x].head /\ dbs'[x].owner = dbs[x].owner
    <2>1. dbs \in [Database -> Copy] /\ dbs' = [dbs EXCEPT ![d].rows = dbs[d].rows \cup {written + 1}]
      BY <1>1, <1>2 DEF Write, DataTyped
    <2>2. CASE d \in Database
      <3>1. dbs[d] \in Copy /\ dbs[d].rows \cup {written + 1} \in SUBSET Nat BY <1>1, <2>1, <2>2 DEF Copy
      <3>2. [dbs[d] EXCEPT !.rows = dbs[d].rows \cup {written + 1}] \in Copy BY <3>1 DEF Copy
      <3>3. \A x \in Database : dbs'[x] = IF x = d THEN [dbs[d] EXCEPT !.rows = dbs[d].rows \cup {written + 1}]
                                          ELSE dbs[x]
        BY <2>1
      <3>4. dbs' \in [Database -> Copy] BY <2>1, <3>2, <3>3
      <3>5. QED BY <3>1, <3>3, <3>4 DEF Copy
    <2>3. CASE d \notin Database BY <2>1, <2>3
    <2>4. QED BY <2>2, <2>3
  <1>4. QED BY <1>2, <1>3 DEF Write

LEMMA WriteTyped == ASSUME IInv, CustomerWrites \/ JobWrites PROVE TypeInv'
  <1>1. TypeInv BY DEF IInv
  <1>2. DataTyped' BY <1>1, WriteEffect DEF TypeInv, DataTyped
  <1>3. ControlTyped' BY <1>1, WriteEffect DEF TypeInv, ControlTyped
  <1>4. QED BY <1>2, <1>3 DEF TypeInv

LEMMA NextTyped == ASSUME IInv, [Next]_vars PROVE TypeInv'
  <1>1. CASE UNCHANGED vars BY <1>1 DEF IInv, TypeInv, DataTyped, ControlTyped, vars, host, bounds
  <1>2. CASE Runs BY <1>2, StepsTyped, FailsTyped DEF Runs
  <1>3. CASE Operator
    BY <1>3, UpdateTyped, RollbackTyped, RestoreTyped, MakeBackupTyped, ApplyTyped, RecoverTyped DEF Operator
  <1>4. QED BY <1>1, <1>2, <1>3, HelperTyped, FaultTyped, WriteTyped DEF Next

-----------------------------------------------------------------------------
\* What comes next in each plan.

LEMMA UpdateOrder ==
  ASSUME NEW b
  PROVE  /\ UpdateLeads("close", b) => b = "note"
         /\ UpdateLeads("note", b) => b = "stop_timers"
         /\ UpdateLeads("stop_timers", b) => b = "stop_panel"
         /\ UpdateLeads("restart", b) => b = "health"
         /\ UpdateLeads("open", b) => b = "resume"
         /\ UpdateLeads("build", b) => b = "canary"
         /\ UpdateLeads("canary", b) => b = "maintenance"
         /\ UpdateLeads("maintenance", b) => b = "close"
         /\ UpdateLeads("stop_panel", b) => b = "backup"
         /\ UpdateLeads("backup", b) => b = "migrating"
         /\ UpdateLeads("migrating", b) => b = "migrate"
         /\ UpdateLeads("migrate", b) => b = "generation"
         /\ UpdateLeads("generation", b) => b \in {"detach", "link"}
         /\ UpdateLeads("detach", b) => b = "attach"
         /\ UpdateLeads("attach", b) => b = "link"
         /\ UpdateLeads("link", b) => b = "switch"
         /\ UpdateLeads("switch", b) => b = "restart"
         /\ UpdateLeads("health", b) => b = "verified"
         /\ UpdateLeads("verified", b) => b = "open"
         /\ UpdateLeads("resume", b) => b = "complete"
  BY DEF UpdateLeads, PauseLeads, OpenLeads

LEMMA RollbackOrder ==
  ASSUME NEW b
  PROVE  /\ RollbackLeads("close", b) => b = "note"
         /\ RollbackLeads("note", b) => b = "stop_timers"
         /\ RollbackLeads("stop_timers", b) => b = "stop_panel"
         /\ RollbackLeads("restart", b) => b = "health"
         /\ RollbackLeads("open", b) => b = "resume"
         /\ RollbackLeads("stop_panel", b) => b = "switch"
         /\ RollbackLeads("switch", b) => b = "restart"
         /\ RollbackLeads("health", b) => b = "open"
         /\ RollbackLeads("resume", b) => b = "release_undone"
         /\ RollbackLeads("release_undone", b) => b = "complete"
  BY DEF RollbackLeads, PauseLeads, OpenLeads

LEMMA RestoreOrder ==
  ASSUME NEW b
  PROVE  /\ RestoreLeads("close", b) => b = "note"
         /\ RestoreLeads("note", b) => b = "stop_timers"
         /\ RestoreLeads("stop_timers", b) => b = "stop_panel"
         /\ RestoreLeads("restart", b) => b = "health"
         /\ RestoreLeads("open", b) => b = "resume"
         /\ RestoreLeads("clone", b) => b = "maintenance"
         /\ RestoreLeads("maintenance", b) => b = "close"
         /\ RestoreLeads("stop_panel", b) => b = "backup"
         /\ RestoreLeads("backup", b) => b = "load"
         /\ RestoreLeads("load", b) => b = "restart"
         /\ RestoreLeads("health", b) => b = "open"
         /\ RestoreLeads("resume", b) => b = "complete"
  BY DEF RestoreLeads, PauseLeads, OpenLeads

LEMMA UpdateBackOrder ==
  ASSUME NEW b
  PROVE  /\ UpdateBackLeads("restart", b) => b = "health"
         /\ UpdateBackLeads("open", b) => b = "resume"
         /\ UpdateBackLeads("health", b) => b = "open"
         /\ UpdateBackLeads("resume", b) => b = "undone"
         /\ UpdateBackLeads("pointer", b) => b = "environment"
         /\ UpdateBackLeads("environment", b) => b = "restart"
  BY DEF UpdateBackLeads, BackLeads, OpenLeads

LEMMA RollbackBackOrder ==
  ASSUME NEW b
  PROVE  /\ RollbackBackLeads("restart", b) => b = "health"
         /\ RollbackBackLeads("open", b) => b = "resume"
         /\ RollbackBackLeads("health", b) => b = "open"
         /\ RollbackBackLeads("resume", b) => b = "undone"
         /\ RollbackBackLeads("stop_panel", b) => b = "pointer"
         /\ RollbackBackLeads("pointer", b) => b = "restart"
  BY DEF RollbackBackLeads, BackLeads, OpenLeads

LEMMA RestoreBackOrder ==
  ASSUME NEW b
  PROVE  /\ RestoreBackLeads("restart", b) => b = "health"
         /\ RestoreBackLeads("open", b) => b = "resume"
         /\ RestoreBackLeads("health", b) => b = "open"
         /\ RestoreBackLeads("resume", b) => b = "undone"
         /\ RestoreBackLeads("stop_panel", b) => b = "pointer"
         /\ RestoreBackLeads("pointer", b) => b = "database"
         /\ RestoreBackLeads("database", b) => b = "environment"
         /\ RestoreBackLeads("environment", b) => b = "drop"
         /\ RestoreBackLeads("drop", b) => b = "restart"
  BY DEF RestoreBackLeads, BackLeads, OpenLeads

LEMMA ApplyOrder ==
  ASSUME NEW b
  PROVE  /\ ApplyLeads("check", b) => b = "try"
         /\ ApplyLeads("try", b) => b = "switching"
         /\ ApplyLeads("switching", b) => b = "exchange"
         /\ ApplyLeads("exchange", b) => b = "replace"
         /\ ApplyLeads("replace", b) => b = "principal"
         /\ ApplyLeads("principal", b) => b = "restart"
         /\ ApplyLeads("restart", b) => b = "verifying"
         /\ ApplyLeads("verifying", b) => b = "verify"
         /\ ApplyLeads("verify", b) => b = "proxy"
         /\ ApplyLeads("proxy", b) => b = "applied"
  BY DEF ApplyLeads

LEMMA ApplyBackOrder ==
  ASSUME NEW b
  PROVE  /\ ApplyBackLeads("dist_back", b) => b = "env_back"
         /\ ApplyBackLeads("env_back", b) => b = "principal_back"
         /\ ApplyBackLeads("principal_back", b) => b = "proxy_back"
         /\ ApplyBackLeads("proxy_back", b) => b = "restart"
         /\ ApplyBackLeads("restart", b) => b = "verify"
         /\ ApplyBackLeads("verify", b) => b = "unapplied"
  BY DEF ApplyBackLeads

LEMMA ApplyRecoverOrder ==
  ASSUME NEW b
  PROVE  /\ ApplyRecoverLeads("dist_back", b) => b = "env_back"
         /\ ApplyRecoverLeads("env_back", b) => b = "principal_back"
         /\ ApplyRecoverLeads("principal_back", b) => b = "restart"
         /\ ApplyRecoverLeads("restart", b) => b = "verify"
         /\ ApplyRecoverLeads("verify", b) => b = "proxy_back"
         /\ ApplyRecoverLeads("proxy_back", b) => b = "unapplied"
  BY DEF ApplyRecoverLeads

-----------------------------------------------------------------------------
\* An update, step by step.

LEMMA UpdateNext ==
  ASSUME IInv, op = "forward", of = "life", NEW s, Step(s)
  PROVE  /\ at = s /\ of' = "life" /\ Unfinished("life") /\ ~Unfinished("data") /\ ~PendingJob
         /\ UNCHANGED <<backend, saved, restores>>
         /\ \/ op' = "idle" /\ s = "complete"
            \/ op' = "forward" /\ s # "complete" /\ UpdateLeads(s, at')
  <1>1. TypeInv /\ PlanInv /\ OneInv BY DEF IInv
  <1>2. Plan = "update" /\ Last = "complete" BY DEF Plan, Last
  <1>3. Unfinished("life") /\ ~Unfinished("data") /\ ~PendingJob BY <1>1 DEF OneInv
  <1>4. /\ at = s /\ of' = of /\ UNCHANGED <<backend, helper, saved, bounds>>
        /\ \/ op' = "idle" /\ s = Last
           \/ op' = op /\ Leads(Plan, s, at')
    BY <1>1, Advance
  <1>5. Leads("update", s, at') => UpdateLeads(s, at') BY DEF Leads
  <1>6. ~UpdateLeads("complete", at') BY DEF UpdateLeads, PauseLeads, OpenLeads
  <1>7. restores' = restores BY <1>4 DEF bounds
  <1>8. QED BY <1>2, <1>3, <1>4, <1>5, <1>6, <1>7

\* What a step of an update has to keep that is not its last one.
LEMMA UpdateKeeps ==
  ASSUME IInv, op = "forward", of = "life", NEW s, Step(s), s # "complete",
         TypeInv', UNCHANGED job, D' = D, Unfinished("life")',
         FilesInv', UpdateInv', UpdatingInv', SoundInv'
  PROVE  IInv'
  <1>1. /\ op' = "forward" /\ of' = "life" /\ Unfinished("life") /\ ~Unfinished("data") /\ ~PendingJob
        /\ todo' # <<>> /\ UNCHANGED <<backend, helper, saved, bounds>>
    <2>1. TypeInv /\ PlanInv BY DEF IInv
    <2>2. Last = "complete" BY DEF Last
    <2>3. QED BY <2>1, <2>2, UpdateNext, Advance
  <1>2. ~Unfinished("data")' /\ ~PendingJob' BY <1>1 DEF Unfinished, PendingJob, D
  <1>3. PlanInv'
    <2>1. Plan' = Plan BY <1>1 DEF Plan
    <2>2. QED BY <2>1, PlanKept DEF IInv
  <1>4. OneInv' BY <1>1, <1>2 DEF OneInv, PendingJob
  <1>5. RetainedInv' BY DEF RetainedInv, Unfinished, L, Final
  <1>6. RollbackInv' /\ RestoreInv' BY <1>2 DEF RollbackInv, RestoreInv
  <1>7. JobInv' BY <1>2 DEF JobInv, JobOpen, PendingJob, Final
  <1>8. RollingBackInv' /\ RestoringInv' /\ UndoingInv' /\ ChangingInv' /\ ChangingBackInv' /\ HelperInv'
    BY <1>1, <1>2 DEF HelperInv, RollingBackInv, RestoringInv, UndoingInv, ChangingInv, ChangingBackInv
  <1>9. QED BY <1>3, <1>4, <1>5, <1>6, <1>7, <1>8 DEF IInv

LEMMA UpdateMoved ==
  ASSUME UpdateInv, Unfinished("life"),
         L'.kind = L.kind, L'.prev = L.prev, L'.to = L.to, L'.port = L.port, UNCHANGED built,
         L'.state \in Early => L.state \in Early /\ app'.rel = L.prev,
         app'.rel \in {L.prev, L.to}, app'.at # "link" => app'.rel = L.prev,
         app'.rel = L.to => home'[L.to] = home'[L.prev],
         Env0(L.prev).setting = Env0(L.prev)'.setting, Env0(L.prev).port = Env0(L.prev)'.port,
         Env0(L.prev).db = Env0(L.prev)'.db, dist'[L.prev] = dist[L.prev], Fits(L.prev, Env0(L.prev).db)', timers' \/ L'.timers,
         \A b \in L'.backup : b \in L.backup \/ b.env = Env0(L.prev)
  PROVE  UpdateInv'
  <1>1. \A b \in L.backup : b.env.setting = Env0(L.prev).setting /\ b.env.port = L.port /\ b.env.db = Env0(L.prev).db
    BY DEF UpdateInv
  <1>2. QED BY <1>1 DEF UpdateInv

LEMMA UpdateFrame ==
  ASSUME DataTyped, UpdateInv, Unfinished("life"),
         L'.kind = L.kind, L'.prev = L.prev, L'.to = L.to, L'.port = L.port, L'.backup = L.backup,
         L'.state \in Early => L.state \in Early, UNCHANGED <<app, built, home, env>>,
         dist'[L.prev] = dist[L.prev], Fits(L.prev, Env0(L.prev).db)', timers' \/ L'.timers
  PROVE  UpdateInv'
  <1>1. \A r : Env0(r)' = Env0(r) BY DEF Env0
  <1>2. QED BY <1>1 DEF UpdateInv

LEMMA UpdateBuild == ASSUME IInv, op = "forward", of = "life", Build PROVE IInv'
  <1>1. Step("build") BY DEF Build
  <1>2. TypeInv' /\ DataTyped /\ DataTyped' /\ of = "life" BY StepsTyped DEF ReleaseStep, IInv, TypeInv
  <1>3. /\ at = "build" /\ op' = "forward" /\ of' = "life" /\ Unfinished("life") /\ ~Unfinished("data") /\ ~PendingJob
        /\ UNCHANGED <<backend, saved, restores>> /\ UpdateLeads("build", at')
    BY <1>1, UpdateNext
  <1>4. at' = "canary" BY <1>3, UpdateOrder
  <1>5. UNCHANGED <<app, built, home, env, dbs, panel, timers, site, job>> BY DEF Build, files
  <1>6. /\ D' = D /\ L'.kind = L.kind /\ L'.prev = L.prev /\ L'.to = L.to /\ L'.port = L.port
        /\ L'.state = "building" /\ L'.timers = L.timers /\ L'.backup = L.backup
    BY <1>2 DEF Build, Set, D, L, DataTyped, Record
  <1>7. FilesInv' BY <1>2, <1>3, <1>4, <1>5, <1>6, Views DEF IInv, FilesInv, UpdateInv, Unfinished, DataTyped, D, L, Env0, Build, WriteEnv
  <1>8. UpdateInv'
    <2>1. Fits(L.prev, Env0(L.prev).db)' BY <1>2, <1>3, <1>5, <1>6, Views, Zenon DEF IInv, UpdateInv, Fits, Env0, L, Build
    <2>2. dist'[L.prev] = dist[L.prev]
      <3>1. L.prev # L.to /\ dist' = [dist EXCEPT ![L.to] = Live.setting]
        BY <1>2, <1>3, Views DEF IInv, UpdateInv, Build, L, Release
      <3>2. QED BY <1>2, <3>1, Views DEF DataTyped, L
    <2>3. timers' \/ L'.timers BY <1>3, <1>5, <1>6 DEF IInv, UpdateInv, UpdatingInv, Pausing, Early, L, LifeOpen, Final, Build
    <2>4. L'.state \in Early => L.state \in Early BY <1>3, <1>6 DEF IInv, UpdatingInv, Early
    <2>5. QED BY <1>2, <1>3, <1>5, <1>6, <2>1, <2>2, <2>3, <2>4, UpdateFrame DEF IInv
  <1>9. UpdatingInv'
    <2>1. /\ app.rel = L.prev /\ L.state \in Early
      BY <1>3 DEF IInv, UpdatingInv, Early, LifeOpen, DataOpen, Final, Unfinished, Opened, Reopening, Pausing, L
    <2>2. (/\ app.rel = L.prev /\ L.state \in Early /\ dist[L.to] = Env0(L.prev).setting)'
      BY <1>2, <1>3, <1>5, <1>6, <2>1, Views DEF Env0, Fits, Live, Started, InPlace, Restarted, Served, Early, L, D, DataTyped, Build
    <2>3. QED BY <1>3, <1>4, <1>6, <2>2 DEF UpdatingInv, Early, LifeOpen, DataOpen, Final, Opened, Reopening, Pausing, Unfinished, L
  <1>10. SoundInv'
    BY <1>2, <1>3, <1>4, <1>5, <1>6, Views DEF IInv, SoundInv, Settled, Sound, UpdatingInv, UpdateInv, LifeOpen, DataOpen, JobOpen, Unfinished, Early, Final, Live, InPlace, Started, Fits, DataTyped, Served, Env0, D, L, Build
  <1>11. Unfinished("life")' BY <1>3, <1>6 DEF Unfinished, L, Final
  <1>12. QED BY <1>1, <1>2, <1>5, <1>6, <1>7, <1>8, <1>9, <1>10, <1>11, UpdateKeeps

LEMMA UpdateCanary == ASSUME IInv, op = "forward", of = "life", Canary PROVE IInv'
  <1>1. Step("canary") BY DEF Canary
  <1>2. TypeInv' /\ DataTyped /\ DataTyped' /\ of = "life" BY StepsTyped DEF ReleaseStep, IInv, TypeInv
  <1>3. /\ at = "canary" /\ op' = "forward" /\ of' = "life" /\ Unfinished("life") /\ ~Unfinished("data") /\ ~PendingJob
        /\ UNCHANGED <<backend, saved, restores>> /\ UpdateLeads("canary", at')
    BY <1>1, UpdateNext
  <1>4. at' = "maintenance" BY <1>3, UpdateOrder
  <1>5. UNCHANGED <<app, built, home, env, dist, dbs, panel, timers, site, job>> BY DEF Canary, files
  <1>6. /\ D' = D /\ L'.kind = L.kind /\ L'.prev = L.prev /\ L'.to = L.to /\ L'.port = L.port
        /\ L'.state = "canary_verified" /\ L'.timers = L.timers /\ L'.backup = L.backup
    BY <1>2 DEF Canary, Set, D, L, DataTyped, Record
  <1>7. FilesInv' BY <1>2, <1>3, <1>4, <1>5, <1>6, Views DEF IInv, FilesInv, UpdateInv, Unfinished, DataTyped, D, L, Env0, Canary, WriteEnv
  <1>8. UpdateInv'
    <2>1. Fits(L.prev, Env0(L.prev).db)' BY <1>2, <1>3, <1>5, <1>6, Views DEF IInv, UpdateInv, Fits, Env0, L, Canary
    <2>2. dist'[L.prev] = dist[L.prev] BY <1>2, <1>3, <1>5, <1>6, Views DEF IInv, UpdateInv, L, Canary
    <2>3. timers' \/ L'.timers BY <1>3, <1>5, <1>6 DEF IInv, UpdateInv, UpdatingInv, Pausing, Early, L, LifeOpen, Final, Canary
    <2>4. L'.state \in Early => L.state \in Early BY <1>3, <1>6 DEF IInv, UpdatingInv, Early
    <2>5. QED BY <1>2, <1>3, <1>5, <1>6, <2>1, <2>2, <2>3, <2>4, UpdateFrame DEF IInv
  <1>9. UpdatingInv'
    <2>1. /\ app.rel = L.prev /\ L.state \in Early /\ dist[L.to] = Env0(L.prev).setting
      BY <1>3 DEF IInv, UpdatingInv, Early, LifeOpen, DataOpen, Final, Unfinished, Opened, Reopening, Pausing, L
    <2>2. (/\ app.rel = L.prev /\ L.state \in Early /\ dist[L.to] = Env0(L.prev).setting
            /\ Compatible(dbs[Env0(L.prev).db].head, SchemaOf[L.to]))'
      <3>1. Compatible(dbs[Live.db].head, SchemaOf[L.to]) BY DEF Canary, Migratable, L
      <3>2. Live = Env0(L.prev) /\ Env0(L.prev)' = Env0(L.prev) BY <1>5, <1>6, <2>1 DEF Live, Env0
      <3>3. QED BY <1>5, <1>6, <2>1, <3>1, <3>2 DEF Early
    <2>3. QED BY <1>3, <1>4, <1>6, <2>2 DEF UpdatingInv, Early, LifeOpen, DataOpen, Final, Opened, Reopening, Pausing, Unfinished, L
  <1>10. SoundInv'
    BY <1>2, <1>3, <1>4, <1>5, <1>6, Views DEF IInv, SoundInv, Settled, Sound, UpdatingInv, UpdateInv, LifeOpen, DataOpen, JobOpen, Unfinished, Early, Final, Live, InPlace, Started, Fits, DataTyped, Served, Env0, D, L, Canary
  <1>11. Unfinished("life")' BY <1>3, <1>6 DEF Unfinished, L, Final
  <1>12. QED BY <1>1, <1>2, <1>5, <1>6, <1>7, <1>8, <1>9, <1>10, <1>11, UpdateKeeps

LEMMA UpdateMaintenance == ASSUME IInv, op = "forward", of = "life", Maintenance PROVE IInv'
  <1>1. Step("maintenance") BY DEF Maintenance
  <1>2. TypeInv' /\ DataTyped /\ DataTyped' /\ of = "life" BY StepsTyped DEF SharedStep, IInv, TypeInv
  <1>3. /\ at = "maintenance" /\ op' = "forward" /\ of' = "life" /\ Unfinished("life") /\ ~Unfinished("data") /\ ~PendingJob
        /\ UNCHANGED <<backend, saved, restores>> /\ UpdateLeads("maintenance", at')
    BY <1>1, UpdateNext
  <1>4. at' = "close" BY <1>3, UpdateOrder
  <1>5. UNCHANGED <<app, built, home, env, dist, dbs, panel, timers, site, job>> BY DEF Maintenance, files
  <1>6. /\ D' = D /\ L'.kind = L.kind /\ L'.prev = L.prev /\ L'.to = L.to /\ L'.port = L.port
        /\ L'.state = "maintenance" /\ L'.timers = L.timers /\ L'.backup = L.backup
    BY <1>2 DEF Maintenance, Set, D, L, DataTyped, Record
  <1>7. FilesInv' BY <1>2, <1>3, <1>4, <1>5, <1>6, Views DEF IInv, FilesInv, UpdateInv, Unfinished, DataTyped, D, L, Env0, Maintenance, WriteEnv
  <1>8. UpdateInv'
    <2>1. Fits(L.prev, Env0(L.prev).db)' BY <1>2, <1>3, <1>5, <1>6, Views DEF IInv, UpdateInv, Fits, Env0, L, Maintenance
    <2>2. dist'[L.prev] = dist[L.prev] BY <1>2, <1>3, <1>5, <1>6, Views DEF IInv, UpdateInv, L, Maintenance
    <2>3. timers' \/ L'.timers BY <1>3, <1>5, <1>6 DEF IInv, UpdateInv, UpdatingInv, Pausing, Early, L, LifeOpen, Final, Maintenance
    <2>4. L'.state \in Early => L.state \in Early BY <1>3, <1>6 DEF IInv, UpdatingInv, Early
    <2>5. QED BY <1>2, <1>3, <1>5, <1>6, <2>1, <2>2, <2>3, <2>4, UpdateFrame DEF IInv
  <1>9. UpdatingInv'
    <2>1. L.state \in Early /\ app.rel = L.prev /\ dist[L.to] = Env0(L.prev).setting
          /\ Compatible(dbs[Env0(L.prev).db].head, SchemaOf[L.to])
      BY <1>3 DEF IInv, UpdatingInv, Opened
    <2>2. timers BY <1>3, <2>1 DEF IInv, SoundInv, Settled, Sound, LifeOpen, DataOpen, JobOpen, PendingJob, Unfinished, D, Final
    <2>3. QED BY <1>3, <1>4, <1>5, <1>6, <2>1, <2>2
         DEF UpdatingInv, Early, LifeOpen, Final, Env0, Opened, Reopening, Pausing, L
  <1>10. SoundInv'
    BY <1>2, <1>3, <1>4, <1>5, <1>6, Views, Zenon DEF IInv, SoundInv, Settled, Sound, UpdatingInv, UpdateInv, LifeOpen, DataOpen, JobOpen, Unfinished, Early, Final, Live, InPlace, Started, Fits, DataTyped, Served, Env0, D, L, Maintenance
  <1>11. Unfinished("life")' BY <1>3, <1>6 DEF Unfinished, L, Final
  <1>12. QED BY <1>1, <1>2, <1>5, <1>6, <1>7, <1>8, <1>9, <1>10, <1>11, UpdateKeeps

LEMMA UpdateCloseSite == ASSUME IInv, op = "forward", of = "life", CloseSite PROVE IInv'
  <1>1. Step("close") BY DEF CloseSite
  <1>2. TypeInv' /\ DataTyped /\ DataTyped' /\ of = "life" BY StepsTyped DEF SharedStep, IInv, TypeInv
  <1>3. /\ at = "close" /\ op' = "forward" /\ of' = "life" /\ Unfinished("life") /\ ~Unfinished("data") /\ ~PendingJob
        /\ UNCHANGED <<backend, saved, restores>> /\ UpdateLeads("close", at')
    BY <1>1, UpdateNext
  <1>4. at' = "note" BY <1>3, UpdateOrder
  <1>5. UNCHANGED <<app, built, home, env, dist, dbs, panel, timers, job>> BY DEF CloseSite, files
  <1>6. D' = D /\ L' = L BY DEF CloseSite, D, L
  <1>7. FilesInv' BY <1>2, <1>3, <1>4, <1>5, <1>6, Views DEF IInv, FilesInv, UpdateInv, Unfinished, DataTyped, D, L, Env0, CloseSite, WriteEnv
  <1>8. UpdateInv'
    <2>1. Fits(L.prev, Env0(L.prev).db)' BY <1>2, <1>3, <1>5, <1>6, Views, Zenon DEF IInv, UpdateInv, Fits, Env0, L, CloseSite
    <2>2. dist'[L.prev] = dist[L.prev] BY <1>2, <1>3, <1>5, <1>6, Views DEF IInv, UpdateInv, L, CloseSite
    <2>3. timers' \/ L'.timers BY <1>3, <1>5, <1>6 DEF IInv, UpdateInv, UpdatingInv, Pausing, Early, L, LifeOpen, Final, CloseSite
    <2>4. L'.state \in Early => L.state \in Early BY <1>3, <1>6 DEF IInv, UpdatingInv, Early
    <2>5. QED BY <1>2, <1>3, <1>5, <1>6, <2>1, <2>2, <2>3, <2>4, UpdateFrame DEF IInv
  <1>9. UpdatingInv'
    <2>1. /\ app.rel = L.prev /\ L.state \notin Early /\ dist[L.to] = Env0(L.prev).setting
          /\ Compatible(dbs[Env0(L.prev).db].head, SchemaOf[L.to]) /\ timers
      BY <1>3 DEF IInv, UpdatingInv, Early, LifeOpen, DataOpen, Final, Unfinished, Opened, Reopening, Pausing, L
    <2>2. (/\ app.rel = L.prev /\ L.state \notin Early /\ dist[L.to] = Env0(L.prev).setting
            /\ Compatible(dbs[Env0(L.prev).db].head, SchemaOf[L.to]) /\ timers)'
      BY <1>2, <1>3, <1>5, <1>6, <2>1, Views DEF Env0, Fits, Live, Started, InPlace, Restarted, Served, Early, L, D, DataTyped, CloseSite
    <2>3. QED BY <1>3, <1>4, <1>6, <2>2 DEF UpdatingInv, Early, LifeOpen, DataOpen, Final, Opened, Reopening, Pausing, Unfinished, L
  <1>10. SoundInv'
    BY <1>2, <1>3, <1>4, <1>5, <1>6, Views, Zenon DEF IInv, SoundInv, Settled, Sound, UpdatingInv, UpdateInv, LifeOpen, DataOpen, JobOpen, Unfinished, Early, Final, Live, InPlace, Started, Fits, DataTyped, Served, Env0, D, L, CloseSite
  <1>11. Unfinished("life")' BY <1>3, <1>6 DEF Unfinished, L, Final
  <1>12. QED BY <1>1, <1>2, <1>5, <1>6, <1>7, <1>8, <1>9, <1>10, <1>11, UpdateKeeps

LEMMA UpdateNoteTimers == ASSUME IInv, op = "forward", of = "life", NoteTimers PROVE IInv'
  <1>1. Step("note") BY DEF NoteTimers
  <1>2. TypeInv' /\ DataTyped /\ DataTyped' /\ of = "life" BY StepsTyped DEF SharedStep, IInv, TypeInv
  <1>3. /\ at = "note" /\ op' = "forward" /\ of' = "life" /\ Unfinished("life") /\ ~Unfinished("data") /\ ~PendingJob
        /\ UNCHANGED <<backend, saved, restores>> /\ UpdateLeads("note", at')
    BY <1>1, UpdateNext
  <1>4. at' = "stop_timers" BY <1>3, UpdateOrder
  <1>5. UNCHANGED <<app, built, home, env, dist, dbs, panel, timers, site, job>> BY DEF NoteTimers, files
  <1>6. /\ D' = D /\ L'.kind = L.kind /\ L'.prev = L.prev /\ L'.to = L.to /\ L'.port = L.port
        /\ L'.state = L.state /\ L'.timers = timers /\ L'.backup = L.backup
    BY <1>2 DEF NoteTimers, Set, D, L, DataTyped, Record
  <1>7. FilesInv' BY <1>2, <1>3, <1>4, <1>5, <1>6, Views DEF IInv, FilesInv, UpdateInv, Unfinished, DataTyped, D, L, Env0, NoteTimers, WriteEnv
  <1>8. UpdateInv'
    <2>1. Fits(L.prev, Env0(L.prev).db)' BY <1>2, <1>3, <1>5, <1>6, Views, Zenon DEF IInv, UpdateInv, Fits, Env0, L, NoteTimers
    <2>2. dist'[L.prev] = dist[L.prev] BY <1>2, <1>3, <1>5, <1>6, Views DEF IInv, UpdateInv, L, NoteTimers
    <2>3. timers' \/ L'.timers
      <3>1. LifeOpen BY <1>3 DEF IInv, UpdatingInv, LifeOpen, Unfinished, L
      <3>2. timers BY <1>3, <3>1 DEF IInv, UpdatingInv, Pausing, L
      <3>3. QED BY <1>5, <1>6, <3>2
    <2>4. L'.state \in Early => L.state \in Early BY <1>3, <1>6 DEF IInv, UpdatingInv, Early
    <2>5. QED BY <1>2, <1>3, <1>5, <1>6, <2>1, <2>2, <2>3, <2>4, UpdateFrame DEF IInv
  <1>9. UpdatingInv'
    <2>1. /\ app.rel = L.prev /\ L.state \notin Early /\ dist[L.to] = Env0(L.prev).setting
          /\ Compatible(dbs[Env0(L.prev).db].head, SchemaOf[L.to]) /\ timers
      BY <1>3 DEF IInv, UpdatingInv, Early, LifeOpen, DataOpen, Final, Unfinished, Opened, Reopening, Pausing, L
    <2>2. (/\ app.rel = L.prev /\ L.state \notin Early /\ dist[L.to] = Env0(L.prev).setting
            /\ Compatible(dbs[Env0(L.prev).db].head, SchemaOf[L.to]) /\ L.timers)'
      BY <1>2, <1>3, <1>5, <1>6, <2>1, Views DEF Env0, Fits, Live, Started, InPlace, Restarted, Served, Early, L, D, DataTyped, NoteTimers
    <2>3. QED BY <1>3, <1>4, <1>6, <2>2 DEF UpdatingInv, Early, LifeOpen, DataOpen, Final, Opened, Reopening, Pausing, Unfinished, L
  <1>10. SoundInv'
    BY <1>2, <1>3, <1>4, <1>5, <1>6, Views DEF IInv, SoundInv, Settled, Sound, UpdatingInv, UpdateInv, LifeOpen, DataOpen, JobOpen, Unfinished, Early, Final, Live, InPlace, Started, Fits, DataTyped, Served, Env0, D, L, NoteTimers
  <1>11. Unfinished("life")' BY <1>3, <1>6 DEF Unfinished, L, Final
  <1>12. QED BY <1>1, <1>2, <1>5, <1>6, <1>7, <1>8, <1>9, <1>10, <1>11, UpdateKeeps

LEMMA UpdateStopTimers == ASSUME IInv, op = "forward", of = "life", StopTimers PROVE IInv'
  <1>1. Step("stop_timers") BY DEF StopTimers
  <1>2. TypeInv' /\ DataTyped /\ DataTyped' /\ of = "life" BY StepsTyped DEF SharedStep, IInv, TypeInv
  <1>3. /\ at = "stop_timers" /\ op' = "forward" /\ of' = "life" /\ Unfinished("life") /\ ~Unfinished("data") /\ ~PendingJob
        /\ UNCHANGED <<backend, saved, restores>> /\ UpdateLeads("stop_timers", at')
    BY <1>1, UpdateNext
  <1>4. at' = "stop_panel" BY <1>3, UpdateOrder
  <1>5. UNCHANGED <<app, built, home, env, dist, dbs, panel, site, job>> BY DEF StopTimers, files
  <1>6. D' = D /\ L' = L BY DEF StopTimers, D, L
  <1>7. FilesInv' BY <1>2, <1>3, <1>4, <1>5, <1>6, Views DEF IInv, FilesInv, UpdateInv, Unfinished, DataTyped, D, L, Env0, StopTimers, WriteEnv
  <1>8. UpdateInv'
    <2>1. Fits(L.prev, Env0(L.prev).db)' BY <1>2, <1>3, <1>5, <1>6, Views DEF IInv, UpdateInv, Fits, Env0, L, StopTimers
    <2>2. dist'[L.prev] = dist[L.prev] BY <1>2, <1>3, <1>5, <1>6, Views DEF IInv, UpdateInv, L, StopTimers
    <2>3. timers' \/ L'.timers
      <3>1. LifeOpen BY <1>3 DEF IInv, UpdatingInv, LifeOpen, Unfinished, L
      <3>2. L.timers BY <1>3, <3>1 DEF IInv, UpdatingInv, Pausing, L
      <3>3. QED BY <1>5, <1>6, <3>2
    <2>4. L'.state \in Early => L.state \in Early BY <1>3, <1>6 DEF IInv, UpdatingInv, Early
    <2>5. QED BY <1>2, <1>3, <1>5, <1>6, <2>1, <2>2, <2>3, <2>4, UpdateFrame DEF IInv
  <1>9. UpdatingInv'
    <2>1. /\ app.rel = L.prev /\ L.state \notin Early /\ dist[L.to] = Env0(L.prev).setting
          /\ Compatible(dbs[Env0(L.prev).db].head, SchemaOf[L.to]) /\ L.timers
      BY <1>3 DEF IInv, UpdatingInv, Early, LifeOpen, DataOpen, Final, Unfinished, Opened, Reopening, Pausing, L
    <2>2. (/\ app.rel = L.prev /\ L.state \notin Early /\ dist[L.to] = Env0(L.prev).setting
            /\ Compatible(dbs[Env0(L.prev).db].head, SchemaOf[L.to]))'
      BY <1>2, <1>3, <1>5, <1>6, <2>1, Views DEF Env0, Fits, Live, Started, InPlace, Restarted, Served, Early, L, D, DataTyped, StopTimers
    <2>3. QED BY <1>3, <1>4, <1>6, <2>2 DEF UpdatingInv, Early, LifeOpen, DataOpen, Final, Opened, Reopening, Pausing, Unfinished, L
  <1>10. SoundInv'
    BY <1>2, <1>3, <1>4, <1>5, <1>6, Views DEF IInv, SoundInv, Settled, Sound, UpdatingInv, UpdateInv, LifeOpen, DataOpen, JobOpen, Unfinished, Early, Final, Live, InPlace, Started, Fits, DataTyped, Served, Env0, D, L, StopTimers
  <1>11. Unfinished("life")' BY <1>3, <1>6 DEF Unfinished, L, Final
  <1>12. QED BY <1>1, <1>2, <1>5, <1>6, <1>7, <1>8, <1>9, <1>10, <1>11, UpdateKeeps

LEMMA UpdateStopPanel == ASSUME IInv, op = "forward", of = "life", StopPanel PROVE IInv'
  <1>1. Step("stop_panel") BY DEF StopPanel
  <1>2. TypeInv' /\ DataTyped /\ DataTyped' /\ of = "life" BY StepsTyped DEF SharedStep, IInv, TypeInv
  <1>3. /\ at = "stop_panel" /\ op' = "forward" /\ of' = "life" /\ Unfinished("life") /\ ~Unfinished("data") /\ ~PendingJob
        /\ UNCHANGED <<backend, saved, restores>> /\ UpdateLeads("stop_panel", at')
    BY <1>1, UpdateNext
  <1>4. at' = "backup" BY <1>3, UpdateOrder
  <1>5. UNCHANGED <<app, built, home, env, dist, dbs, timers, site, job>> BY DEF StopPanel, files
  <1>6. D' = D /\ L' = L BY DEF StopPanel, D, L
  <1>7. FilesInv' BY <1>2, <1>3, <1>4, <1>5, <1>6, Views DEF IInv, FilesInv, UpdateInv, Unfinished, DataTyped, D, L, Env0, StopPanel, WriteEnv
  <1>8. UpdateInv'
    <2>1. Fits(L.prev, Env0(L.prev).db)' BY <1>2, <1>3, <1>5, <1>6, Views DEF IInv, UpdateInv, Fits, Env0, L, StopPanel
    <2>2. dist'[L.prev] = dist[L.prev] BY <1>2, <1>3, <1>5, <1>6, Views DEF IInv, UpdateInv, L, StopPanel
    <2>3. timers' \/ L'.timers BY <1>3, <1>5, <1>6 DEF IInv, UpdateInv, UpdatingInv, Pausing, Early, L, LifeOpen, Final, StopPanel
    <2>4. L'.state \in Early => L.state \in Early BY <1>3, <1>6 DEF IInv, UpdatingInv, Early
    <2>5. QED BY <1>2, <1>3, <1>5, <1>6, <2>1, <2>2, <2>3, <2>4, UpdateFrame DEF IInv
  <1>9. UpdatingInv'
    <2>1. /\ app.rel = L.prev /\ L.state \notin Early /\ dist[L.to] = Env0(L.prev).setting
          /\ Compatible(dbs[Env0(L.prev).db].head, SchemaOf[L.to])
      BY <1>3 DEF IInv, UpdatingInv, Early, LifeOpen, DataOpen, Final, Unfinished, Opened, Reopening, Pausing, L
    <2>2. (/\ app.rel = L.prev /\ L.state \notin Early /\ dist[L.to] = Env0(L.prev).setting
            /\ Compatible(dbs[Env0(L.prev).db].head, SchemaOf[L.to]))'
      BY <1>2, <1>3, <1>5, <1>6, <2>1, Views DEF Env0, Fits, Live, Started, InPlace, Restarted, Served, Early, L, D, DataTyped, StopPanel
    <2>3. QED BY <1>3, <1>4, <1>6, <2>2 DEF UpdatingInv, Early, LifeOpen, DataOpen, Final, Opened, Reopening, Pausing, Unfinished, L
  <1>10. SoundInv'
    BY <1>2, <1>3, <1>4, <1>5, <1>6, Views, Zenon DEF IInv, SoundInv, Settled, Sound, UpdatingInv, UpdateInv, LifeOpen, DataOpen, JobOpen, Unfinished, Early, Final, Live, InPlace, Started, Fits, DataTyped, Served, Env0, D, L, StopPanel
  <1>11. Unfinished("life")' BY <1>3, <1>6 DEF Unfinished, L, Final
  <1>12. QED BY <1>1, <1>2, <1>5, <1>6, <1>7, <1>8, <1>9, <1>10, <1>11, UpdateKeeps

LEMMA UpdateFinalBackup == ASSUME IInv, op = "forward", of = "life", FinalBackup PROVE IInv'
  <1>1. Step("backup") BY DEF FinalBackup
  <1>2. TypeInv' /\ DataTyped /\ DataTyped' /\ of = "life" BY StepsTyped DEF SharedStep, IInv, TypeInv
  <1>3. /\ at = "backup" /\ op' = "forward" /\ of' = "life" /\ Unfinished("life") /\ ~Unfinished("data") /\ ~PendingJob
        /\ UNCHANGED <<backend, saved, restores>> /\ UpdateLeads("backup", at')
    BY <1>1, UpdateNext
  <1>4. at' = "migrating" BY <1>3, UpdateOrder
  <1>5. UNCHANGED <<app, built, home, env, dist, dbs, panel, timers, site, job>> BY DEF FinalBackup, files
  <1>6. /\ D' = D /\ L'.kind = L.kind /\ L'.prev = L.prev /\ L'.to = L.to /\ L'.port = L.port
        /\ L'.state = L.state /\ L'.timers = L.timers /\ L'.backup = {[db |-> dbs[Live.db], env |-> Live]}
    BY <1>2 DEF FinalBackup, Set, D, L, DataTyped, Record
  <1>7. FilesInv' BY <1>2, <1>3, <1>4, <1>5, <1>6, Views DEF IInv, FilesInv, UpdateInv, Unfinished, DataTyped, D, L, Env0, FinalBackup, WriteEnv
  <1>8. UpdateInv'
    <2>1. UpdateInv /\ app.rel = L.prev /\ L.state \notin Early /\ L'.state \notin Early
      BY <1>3, <1>6 DEF IInv, UpdatingInv, Opened, Early
    <2>2. Env0(L.prev)' = Env0(L.prev) /\ Live = Env0(L.prev) BY <1>5, <1>6, <2>1 DEF Env0, Live
    <2>3. Fits(L.prev, Env0(L.prev).db)' BY <1>3, <1>5, <1>6, <2>1, <2>2 DEF UpdateInv, Fits
    <2>4. QED BY <1>3, <1>5, <1>6, <2>1, <2>2, <2>3, UpdateMoved DEF UpdateInv
  <1>9. UpdatingInv'
    <2>1. /\ app.rel = L.prev /\ L.state \notin Early /\ dist[L.to] = Env0(L.prev).setting
          /\ Compatible(dbs[Env0(L.prev).db].head, SchemaOf[L.to])
      BY <1>3 DEF IInv, UpdatingInv, Early, LifeOpen, DataOpen, Final, Unfinished, Opened, Reopening, Pausing, L
    <2>2. (/\ app.rel = L.prev /\ L.state \notin Early /\ dist[L.to] = Env0(L.prev).setting
            /\ Compatible(dbs[Env0(L.prev).db].head, SchemaOf[L.to]))'
      BY <1>2, <1>3, <1>5, <1>6, <2>1, Views, Zenon DEF Env0, Fits, Live, Started, InPlace, Restarted, Served, Early, L, D, DataTyped, FinalBackup
    <2>3. QED BY <1>3, <1>4, <1>6, <2>2 DEF UpdatingInv, Early, LifeOpen, DataOpen, Final, Opened, Reopening, Pausing, Unfinished, L
  <1>10. SoundInv'
    BY <1>2, <1>3, <1>4, <1>5, <1>6, Views, Zenon DEF IInv, SoundInv, Settled, Sound, UpdatingInv, UpdateInv, LifeOpen, DataOpen, JobOpen, Unfinished, Early, Final, Live, InPlace, Started, Fits, DataTyped, Served, Env0, D, L, FinalBackup
  <1>11. Unfinished("life")' BY <1>3, <1>6 DEF Unfinished, L, Final
  <1>12. QED BY <1>1, <1>2, <1>5, <1>6, <1>7, <1>8, <1>9, <1>10, <1>11, UpdateKeeps

LEMMA UpdateMigrating == ASSUME IInv, op = "forward", of = "life", Migrating PROVE IInv'
  <1>1. Step("migrating") BY DEF Migrating
  <1>2. TypeInv' /\ DataTyped /\ DataTyped' /\ of = "life" BY StepsTyped DEF ReleaseStep, IInv, TypeInv
  <1>3. /\ at = "migrating" /\ op' = "forward" /\ of' = "life" /\ Unfinished("life") /\ ~Unfinished("data") /\ ~PendingJob
        /\ UNCHANGED <<backend, saved, restores>> /\ UpdateLeads("migrating", at')
    BY <1>1, UpdateNext
  <1>4. at' = "migrate" BY <1>3, UpdateOrder
  <1>5. UNCHANGED <<app, built, home, env, dist, dbs, panel, timers, site, job>> BY DEF Migrating, files
  <1>6. /\ D' = D /\ L'.kind = L.kind /\ L'.prev = L.prev /\ L'.to = L.to /\ L'.port = L.port
        /\ L'.state = "migrating" /\ L'.timers = L.timers /\ L'.backup = L.backup
    BY <1>2 DEF Migrating, Set, D, L, DataTyped, Record
  <1>7. FilesInv' BY <1>2, <1>3, <1>4, <1>5, <1>6, Views DEF IInv, FilesInv, UpdateInv, Unfinished, DataTyped, D, L, Env0, Migrating, WriteEnv
  <1>8. UpdateInv'
    <2>1. Fits(L.prev, Env0(L.prev).db)' BY <1>2, <1>3, <1>5, <1>6, Views DEF IInv, UpdateInv, Fits, Env0, L, Migrating
    <2>2. dist'[L.prev] = dist[L.prev] BY <1>2, <1>3, <1>5, <1>6, Views DEF IInv, UpdateInv, L, Migrating
    <2>3. timers' \/ L'.timers BY <1>3, <1>5, <1>6 DEF IInv, UpdateInv, UpdatingInv, Pausing, Early, L, LifeOpen, Final, Migrating
    <2>4. L'.state \in Early => L.state \in Early BY <1>3, <1>6 DEF IInv, UpdatingInv, Early
    <2>5. QED BY <1>2, <1>3, <1>5, <1>6, <2>1, <2>2, <2>3, <2>4, UpdateFrame DEF IInv
  <1>9. UpdatingInv'
    <2>1. /\ app.rel = L.prev /\ L.state \notin Early /\ dist[L.to] = Env0(L.prev).setting
          /\ Compatible(dbs[Env0(L.prev).db].head, SchemaOf[L.to])
      BY <1>3 DEF IInv, UpdatingInv, Early, LifeOpen, DataOpen, Final, Unfinished, Opened, Reopening, Pausing, L
    <2>2. (/\ app.rel = L.prev /\ L.state \notin Early /\ dist[L.to] = Env0(L.prev).setting
            /\ Compatible(dbs[Env0(L.prev).db].head, SchemaOf[L.to]))'
      BY <1>2, <1>3, <1>5, <1>6, <2>1, Views DEF Env0, Fits, Live, Started, InPlace, Restarted, Served, Early, L, D, DataTyped, Migrating
    <2>3. QED BY <1>3, <1>4, <1>6, <2>2 DEF UpdatingInv, Early, LifeOpen, DataOpen, Final, Opened, Reopening, Pausing, Unfinished, L
  <1>10. SoundInv'
    BY <1>2, <1>3, <1>4, <1>5, <1>6, Views, Zenon DEF IInv, SoundInv, Settled, Sound, UpdatingInv, UpdateInv, LifeOpen, DataOpen, JobOpen, Unfinished, Early, Final, Live, InPlace, Started, Fits, DataTyped, Served, Env0, D, L, Migrating
  <1>11. Unfinished("life")' BY <1>3, <1>6 DEF Unfinished, L, Final
  <1>12. QED BY <1>1, <1>2, <1>5, <1>6, <1>7, <1>8, <1>9, <1>10, <1>11, UpdateKeeps

LEMMA UpdateMigrateAdditive == ASSUME IInv, op = "forward", of = "life", MigrateAdditive PROVE IInv'
  <1>1. Step("migrate") BY DEF MigrateAdditive
  <1>2. TypeInv' /\ DataTyped /\ DataTyped' /\ of = "life" BY StepsTyped DEF ReleaseStep, IInv, TypeInv
  <1>3. /\ at = "migrate" /\ op' = "forward" /\ of' = "life" /\ Unfinished("life") /\ ~Unfinished("data") /\ ~PendingJob
        /\ UNCHANGED <<backend, saved, restores>> /\ UpdateLeads("migrate", at')
    BY <1>1, UpdateNext
  <1>4. at' = "generation" BY <1>3, UpdateOrder
  <1>5. UNCHANGED <<app, built, home, env, dist, panel, timers, site, job>> BY DEF MigrateAdditive, files
  <1>6. /\ D' = D /\ L'.kind = L.kind /\ L'.prev = L.prev /\ L'.to = L.to /\ L'.port = L.port
        /\ L'.state = "migrated" /\ L'.timers = L.timers /\ L'.backup = L.backup
    BY <1>2 DEF MigrateAdditive, Set, D, L, DataTyped, Record
  <1>7. /\ dbs'[Live.db].head = SchemaOf[L.to] /\ Env0(L.prev)' = Env0(L.prev) /\ Live' = Live
        /\ app.rel = L.prev /\ Live = Env0(L.prev)
    <2>1. app.rel = L.prev BY <1>3 DEF IInv, UpdatingInv, Opened
    <2>2. dbs'[Live.db].head = SchemaOf[L.to] BY <1>2, Views DEF MigrateAdditive, DataTyped, Copy, L
    <2>3. QED BY <1>5, <1>6, <2>1, <2>2 DEF Env0, Live
  <1>8. FilesInv' BY <1>2, <1>3, <1>4, <1>5, <1>6, Views DEF IInv, FilesInv, UpdateInv, Unfinished, DataTyped, D, L, Env0, MigrateAdditive, WriteEnv
  <1>9. UpdateInv'
    <2>1. Fits(L.prev, Env0(L.prev).db)'
      <3>1. Compatible(SchemaOf[L.prev], dbs[Live.db].head) /\ Compatible(dbs[Live.db].head, SchemaOf[L.to])
        BY <1>3, <1>7 DEF IInv, UpdateInv, UpdatingInv, Fits
      <3>2. QED BY <1>6, <1>7, <3>1 DEF Fits, Compatible
    <2>2. dist'[L.prev] = dist[L.prev] BY <1>2, <1>3, <1>5, <1>6, Views DEF IInv, UpdateInv, L, MigrateAdditive
    <2>3. timers' \/ L'.timers BY <1>3, <1>5, <1>6 DEF IInv, UpdateInv, UpdatingInv, Pausing, Early, L, LifeOpen, Final, MigrateAdditive
    <2>4. L'.state \in Early => L.state \in Early BY <1>3, <1>6 DEF IInv, UpdatingInv, Early
    <2>5. QED BY <1>2, <1>3, <1>5, <1>6, <2>1, <2>2, <2>3, <2>4, UpdateFrame DEF IInv
  <1>10. UpdatingInv'
    <2>1. /\ app.rel = L.prev /\ L.state \notin Early /\ dist[L.to] = Env0(L.prev).setting
          /\ Compatible(dbs[Env0(L.prev).db].head, SchemaOf[L.to])
      BY <1>3 DEF IInv, UpdatingInv, Early, LifeOpen, DataOpen, Final, Unfinished, Opened, Reopening, Pausing, L
    <2>2. (/\ app.rel = L.prev /\ L.state \notin Early /\ dist[L.to] = Env0(L.prev).setting
            /\ Compatible(dbs[Env0(L.prev).db].head, SchemaOf[L.to]) /\ Fits(L.to, Env0(L.prev).db))'
      BY <1>5, <1>6, <1>7, <2>1 DEF Fits, Compatible, Early
    <2>3. QED BY <1>3, <1>4, <1>6, <2>2 DEF UpdatingInv, Early, LifeOpen, DataOpen, Final, Opened, Reopening, Pausing, Unfinished, L
  <1>11. SoundInv'
    BY <1>2, <1>3, <1>4, <1>5, <1>6, Views, Zenon DEF IInv, SoundInv, Settled, Sound, UpdatingInv, UpdateInv, LifeOpen, DataOpen, JobOpen, Unfinished, Early, Final, Live, InPlace, Started, Fits, DataTyped, Served, Env0, D, L, MigrateAdditive
  <1>12. Unfinished("life")' BY <1>3, <1>6 DEF Unfinished, L, Final
  <1>13. QED BY <1>1, <1>2, <1>5, <1>6, <1>8, <1>9, <1>10, <1>11, <1>12, UpdateKeeps

LEMMA UpdateAddGeneration == ASSUME IInv, op = "forward", of = "life", AddGeneration PROVE IInv'
  <1>1. Step("generation") BY DEF AddGeneration
  <1>2. TypeInv' /\ DataTyped /\ DataTyped' /\ of = "life" BY StepsTyped DEF ReleaseStep, IInv, TypeInv
  <1>3. /\ at = "generation" /\ op' = "forward" /\ of' = "life" /\ Unfinished("life") /\ ~Unfinished("data") /\ ~PendingJob
        /\ UNCHANGED <<backend, saved, restores>> /\ UpdateLeads("generation", at')
    BY <1>1, UpdateNext
  <1>4. at' \in {"detach", "link"}
    <2>1. UpdateLeads("generation", at') BY <1>3
    <2>2. QED BY <2>1, UpdateOrder
  <1>5. UNCHANGED <<app, built, home, dist, dbs, panel, timers, site, job>> BY DEF AddGeneration, files
  <1>6. D' = D /\ L' = L BY DEF AddGeneration, D, L
  <1>7. /\ app.rel = L.prev /\ app'.rel = L.prev
        /\ \A r \in Release : env'[r].db = env[r].db /\ env'[r].setting = env[r].setting /\ env'[r].port = env[r].port
        /\ \A r \in Release : Env0(r)'.db = Env0(r).db /\ Env0(r)'.setting = Env0(r).setting /\ Env0(r)'.port = Env0(r).port
        /\ Live'.db = Live.db /\ Live'.setting = Live.setting /\ Live'.port = Live.port
    <2>1. app.rel = L.prev BY <1>3 DEF IInv, UpdatingInv, Opened
    <2>2. env' = [env EXCEPT ![home[app.rel]] = [Live EXCEPT !.generation = TRUE]] /\ Live = env[home[app.rel]]
      BY DEF AddGeneration, WriteEnv, Live
    <2>3. \A r \in Release : env'[r].db = env[r].db /\ env'[r].setting = env[r].setting /\ env'[r].port = env[r].port
      BY <1>2, <2>2, Views DEF DataTyped, Env
    <2>4. \A r \in Release : home[r] \in Release BY <1>2 DEF DataTyped
    <2>5. QED BY <1>2, <1>5, <2>1, <2>3, <2>4, Views DEF Env0, Live
  <1>8. FilesInv' BY <1>3, <1>5, <1>6, <1>7 DEF IInv, FilesInv, Unfinished, D
  <1>9. UpdateInv'
    <2>1. UpdateInv /\ app.rel = L.prev /\ L.state \notin Early /\ L'.state \notin Early
      BY <1>3, <1>6 DEF IInv, UpdatingInv, Opened, Early
    <2>2. L.prev \in Release /\ L'.backup = L.backup BY <1>2, <1>6, Views DEF L
    <2>3. Fits(L.prev, Env0(L.prev).db)' BY <1>3, <1>5, <1>6, <1>7, <2>1, <2>2 DEF UpdateInv, Fits
    <2>4. QED BY <1>3, <1>5, <1>6, <1>7, <2>1, <2>2, <2>3, UpdateMoved DEF UpdateInv
  <1>10. UpdatingInv'
    <2>1. L.prev \in Release /\ L.state \notin Early /\ dist[L.to] = Env0(L.prev).setting
          /\ Compatible(dbs[Env0(L.prev).db].head, SchemaOf[L.to]) /\ Fits(L.to, Env0(L.prev).db)
      BY <1>2, <1>3, Views DEF IInv, UpdatingInv, L
    <2>2. Fits(L.to, Env0(L.prev).db)' BY <1>5, <1>6, <1>7, <2>1 DEF Fits
    <2>3. QED BY <1>3, <1>4, <1>5, <1>6, <1>7, <2>1, <2>2
      DEF UpdatingInv, Early, LifeOpen, Opened, Reopening, Pausing
  <1>11. SoundInv'
    BY <1>2, <1>3, <1>4, <1>5, <1>6, Views, Zenon DEF IInv, SoundInv, Settled, Sound, UpdatingInv, UpdateInv, LifeOpen, DataOpen, JobOpen, Unfinished, Early, Final, Live, InPlace, Started, Fits, DataTyped, Served, Env0, D, L, AddGeneration
  <1>12. Unfinished("life")' BY <1>3, <1>6 DEF Unfinished, L, Final
  <1>13. QED BY <1>1, <1>2, <1>5, <1>6, <1>8, <1>9, <1>10, <1>11, <1>12, UpdateKeeps

LEMMA UpdateDetach == ASSUME IInv, op = "forward", of = "life", Detach PROVE IInv'
  <1>1. Step("detach") BY DEF Detach
  <1>2. TypeInv' /\ DataTyped /\ DataTyped' /\ of = "life" BY StepsTyped DEF ReleaseStep, IInv, TypeInv
  <1>3. /\ at = "detach" /\ op' = "forward" /\ of' = "life" /\ Unfinished("life") /\ ~Unfinished("data") /\ ~PendingJob
        /\ UNCHANGED <<backend, saved, restores>> /\ UpdateLeads("detach", at')
    BY <1>1, UpdateNext
  <1>4. at' = "attach" BY <1>3, UpdateOrder
  <1>5. UNCHANGED <<built, home, env, dist, dbs, panel, timers, site, job>> BY DEF Detach, files
  <1>6. D' = D /\ L' = L BY DEF Detach, D, L
  <1>7. FilesInv' BY <1>2, <1>3, <1>4, <1>5, <1>6, Views DEF IInv, FilesInv, UpdateInv, Unfinished, DataTyped, D, L, Env0, Detach, WriteEnv
  <1>8. UpdateInv'
    <2>1. UpdateInv /\ app.rel = L.prev /\ L.state \notin Early /\ L'.state \notin Early
      BY <1>3, <1>6 DEF IInv, UpdatingInv, Opened, Early
    <2>2. Env0(L.prev)' = Env0(L.prev) /\ app'.rel = app.rel BY <1>2, <1>5, <1>6 DEF Env0, DataTyped, Detach
    <2>3. Fits(L.prev, Env0(L.prev).db)' BY <1>3, <1>5, <1>6, <2>1, <2>2 DEF UpdateInv, Fits
    <2>4. L'.backup = L.backup /\ L.prev # L.to BY <1>2, <1>3, <1>6, <2>1, Views DEF UpdateInv, L, Release
    <2>5. QED BY <1>3, <1>5, <1>6, <2>1, <2>2, <2>3, <2>4, UpdateMoved DEF UpdateInv
  <1>9. UpdatingInv'
    <2>1. /\ app.rel = L.prev /\ L.state \notin Early /\ dist[L.to] = Env0(L.prev).setting
          /\ Compatible(dbs[Env0(L.prev).db].head, SchemaOf[L.to]) /\ Fits(L.to, Env0(L.prev).db)
      BY <1>3 DEF IInv, UpdatingInv, Early, LifeOpen, DataOpen, Final, Unfinished, Opened, Reopening, Pausing, L
    <2>2. (/\ app.rel = L.prev /\ L.state \notin Early /\ dist[L.to] = Env0(L.prev).setting
            /\ Compatible(dbs[Env0(L.prev).db].head, SchemaOf[L.to]) /\ Fits(L.to, Env0(L.prev).db))'
      BY <1>2, <1>3, <1>5, <1>6, <2>1, Views, Zenon DEF Env0, Fits, Live, Started, InPlace, Restarted, Served, Early, L, D, DataTyped, Detach
    <2>3. QED BY <1>3, <1>4, <1>6, <2>2 DEF UpdatingInv, Early, LifeOpen, DataOpen, Final, Opened, Reopening, Pausing, Unfinished, L
  <1>10. SoundInv'
    BY <1>2, <1>3, <1>4, <1>5, <1>6, Views, Zenon DEF IInv, SoundInv, Settled, Sound, UpdatingInv, UpdateInv, LifeOpen, DataOpen, JobOpen, Unfinished, Early, Final, Live, InPlace, Started, Fits, DataTyped, Served, Env0, D, L, Detach
  <1>11. Unfinished("life")' BY <1>3, <1>6 DEF Unfinished, L, Final
  <1>12. QED BY <1>1, <1>2, <1>5, <1>6, <1>7, <1>8, <1>9, <1>10, <1>11, UpdateKeeps

LEMMA UpdateAttach == ASSUME IInv, op = "forward", of = "life", Attach PROVE IInv'
  <1>1. Step("attach") BY DEF Attach
  <1>2. TypeInv' /\ DataTyped /\ DataTyped' /\ of = "life" BY StepsTyped DEF ReleaseStep, IInv, TypeInv
  <1>3. /\ at = "attach" /\ op' = "forward" /\ of' = "life" /\ Unfinished("life") /\ ~Unfinished("data") /\ ~PendingJob
        /\ UNCHANGED <<backend, saved, restores>> /\ UpdateLeads("attach", at')
    BY <1>1, UpdateNext
  <1>4. at' = "link" BY <1>3, UpdateOrder
  <1>5. UNCHANGED <<built, home, env, dist, dbs, panel, timers, site, job>> BY DEF Attach, files
  <1>6. /\ D' = D /\ L'.kind = L.kind /\ L'.prev = L.prev /\ L'.to = L.to /\ L'.port = L.port
        /\ L'.state = "rooted_adopted" /\ L'.timers = L.timers /\ L'.backup = L.backup
    BY <1>2 DEF Attach, Set, D, L, DataTyped, Record
  <1>7. FilesInv' BY <1>2, <1>3, <1>4, <1>5, <1>6, Views DEF IInv, FilesInv, UpdateInv, Unfinished, DataTyped, D, L, Env0, Attach, WriteEnv
  <1>8. UpdateInv'
    <2>1. UpdateInv /\ app.rel = L.prev /\ L.state \notin Early /\ L'.state \notin Early
      BY <1>3, <1>6 DEF IInv, UpdatingInv, Opened, Early
    <2>2. Env0(L.prev)' = Env0(L.prev) /\ app'.rel = app.rel BY <1>2, <1>5, <1>6 DEF Env0, DataTyped, Attach
    <2>3. Fits(L.prev, Env0(L.prev).db)' BY <1>3, <1>5, <1>6, <2>1, <2>2 DEF UpdateInv, Fits
    <2>4. L'.backup = L.backup /\ L.prev # L.to BY <1>2, <1>3, <1>6, <2>1, Views DEF UpdateInv, L, Release
    <2>5. QED BY <1>3, <1>5, <1>6, <2>1, <2>2, <2>3, <2>4, UpdateMoved DEF UpdateInv
  <1>9. UpdatingInv'
    <2>1. /\ app.rel = L.prev /\ L.state \notin Early /\ dist[L.to] = Env0(L.prev).setting
          /\ Compatible(dbs[Env0(L.prev).db].head, SchemaOf[L.to]) /\ Fits(L.to, Env0(L.prev).db)
      BY <1>3 DEF IInv, UpdatingInv, Early, LifeOpen, DataOpen, Final, Unfinished, Opened, Reopening, Pausing, L
    <2>2. (/\ app.rel = L.prev /\ L.state \notin Early /\ dist[L.to] = Env0(L.prev).setting
            /\ Compatible(dbs[Env0(L.prev).db].head, SchemaOf[L.to]) /\ Fits(L.to, Env0(L.prev).db))'
      BY <1>2, <1>3, <1>5, <1>6, <2>1, Views, Zenon DEF Env0, Fits, Live, Started, InPlace, Restarted, Served, Early, L, D, DataTyped, Attach
    <2>3. QED BY <1>3, <1>4, <1>6, <2>2 DEF UpdatingInv, Early, LifeOpen, DataOpen, Final, Opened, Reopening, Pausing, Unfinished, L
  <1>10. SoundInv'
    BY <1>2, <1>3, <1>4, <1>5, <1>6, Views, Zenon DEF IInv, SoundInv, Settled, Sound, UpdatingInv, UpdateInv, LifeOpen, DataOpen, JobOpen, Unfinished, Early, Final, Live, InPlace, Started, Fits, DataTyped, Served, Env0, D, L, Attach
  <1>11. Unfinished("life")' BY <1>3, <1>6 DEF Unfinished, L, Final
  <1>12. QED BY <1>1, <1>2, <1>5, <1>6, <1>7, <1>8, <1>9, <1>10, <1>11, UpdateKeeps

LEMMA UpdateRuntimeLinks == ASSUME IInv, op = "forward", of = "life", RuntimeLinks PROVE IInv'
  <1>1. Step("link") BY DEF RuntimeLinks
  <1>2. TypeInv' /\ DataTyped /\ DataTyped' /\ of = "life" BY StepsTyped DEF ReleaseStep, IInv, TypeInv
  <1>3. /\ at = "link" /\ op' = "forward" /\ of' = "life" /\ Unfinished("life") /\ ~Unfinished("data") /\ ~PendingJob
        /\ UNCHANGED <<backend, saved, restores>> /\ UpdateLeads("link", at')
    BY <1>1, UpdateNext
  <1>4. at' = "switch" BY <1>3, UpdateOrder
  <1>5. UNCHANGED <<app, built, env, dist, dbs, panel, timers, site, job>> BY DEF RuntimeLinks, files
  <1>6. /\ D' = D /\ L'.kind = L.kind /\ L'.prev = L.prev /\ L'.to = L.to /\ L'.port = L.port
        /\ L'.state = "switching" /\ L'.timers = L.timers /\ L'.backup = L.backup
    BY <1>2 DEF RuntimeLinks, Set, D, L, DataTyped, Record
  <1>7. /\ app.rel = L.prev /\ L.prev < L.to /\ L.prev \in Release /\ L.to \in Release
        /\ home' = [home EXCEPT ![L.to] = home[L.prev]] /\ home'[L.to] = home'[L.prev]
        /\ Env0(L.prev)' = Env0(L.prev) /\ Live' = Live
    <2>1. app.rel = L.prev BY <1>3 DEF IInv, UpdatingInv, Opened
    <2>2. L.prev < L.to /\ L.prev \in Release /\ L.to \in Release /\ L.prev # L.to
      BY <1>2, <1>3, Views DEF IInv, UpdateInv, L, Release
    <2>3. home' = [home EXCEPT ![L.to] = home[L.prev]] BY <1>2 DEF RuntimeLinks, L
    <2>4. home'[L.prev] = home[L.prev] /\ home'[L.to] = home[L.prev] BY <1>2, <2>2, <2>3 DEF DataTyped
    <2>5. QED BY <1>5, <1>6, <2>1, <2>2, <2>3, <2>4 DEF Env0, Live
  <1>8. FilesInv'
    <2>1. ASSUME NEW r \in Release PROVE home'[r] <= r
      <3>1. home[r] <= r /\ home[L.prev] <= L.prev /\ home[r] \in Release /\ home[L.prev] \in Release
        BY <1>2, <1>7 DEF IInv, FilesInv, DataTyped
      <3>2. home'[r] \in {home[r], home[L.prev]} /\ (r # L.to => home'[r] = home[r]) BY <1>2, <1>7 DEF DataTyped
      <3>3. QED BY <1>7, <3>1, <3>2 DEF Release
    <2>2. QED BY <1>3, <1>5, <1>6, <2>1 DEF IInv, FilesInv, Unfinished, D
  <1>9. UpdateInv'
    <2>1. UpdateInv /\ app.rel = L.prev /\ L.state \notin Early /\ L'.state \notin Early
      BY <1>3, <1>6 DEF IInv, UpdatingInv, Opened, Early
    <2>2. Fits(L.prev, Env0(L.prev).db)' BY <1>3, <1>5, <1>6, <1>7, <2>1 DEF UpdateInv, Fits
    <2>3. L'.backup = L.backup BY <1>6
    <2>4. QED BY <1>3, <1>5, <1>6, <1>7, <2>1, <2>2, <2>3, UpdateMoved DEF UpdateInv
  <1>10. UpdatingInv'
    <2>1. /\ app.rel = L.prev /\ L.state \notin Early /\ dist[L.to] = Env0(L.prev).setting
          /\ Compatible(dbs[Env0(L.prev).db].head, SchemaOf[L.to]) /\ Fits(L.to, Env0(L.prev).db)
      BY <1>3 DEF IInv, UpdatingInv, Early, LifeOpen, DataOpen, Final, Unfinished, Opened, Reopening, Pausing, L
    <2>2. (/\ app.rel = L.prev /\ L.state \notin Early /\ dist[L.to] = Env0(L.prev).setting
            /\ Compatible(dbs[Env0(L.prev).db].head, SchemaOf[L.to]) /\ home[L.to] = home[L.prev]
            /\ Fits(L.to, Env0(L.prev).db))'
      BY <1>5, <1>6, <1>7, <2>1 DEF Fits, Early
    <2>3. QED BY <1>3, <1>4, <1>6, <2>2 DEF UpdatingInv, Early, LifeOpen, DataOpen, Final, Opened, Reopening, Pausing, Unfinished, L
  <1>11. SoundInv'
    BY <1>2, <1>3, <1>4, <1>5, <1>6, Views, Zenon DEF IInv, SoundInv, Settled, Sound, UpdatingInv, UpdateInv, LifeOpen, DataOpen, JobOpen, Unfinished, Early, Final, Live, InPlace, Started, Fits, DataTyped, Served, Env0, D, L, RuntimeLinks
  <1>12. Unfinished("life")' BY <1>3, <1>6 DEF Unfinished, L, Final
  <1>13. QED BY <1>1, <1>2, <1>5, <1>6, <1>8, <1>9, <1>10, <1>11, <1>12, UpdateKeeps

LEMMA UpdateAtomicPointer == ASSUME IInv, op = "forward", of = "life", AtomicPointer PROVE IInv'
  <1>1. Step("switch") BY DEF AtomicPointer
  <1>2. TypeInv' /\ DataTyped /\ DataTyped' /\ of = "life" BY StepsTyped DEF ReleaseStep, IInv, TypeInv
  <1>3. /\ at = "switch" /\ op' = "forward" /\ of' = "life" /\ Unfinished("life") /\ ~Unfinished("data") /\ ~PendingJob
        /\ UNCHANGED <<backend, saved, restores>> /\ UpdateLeads("switch", at')
    BY <1>1, UpdateNext
  <1>4. at' = "restart" BY <1>3, UpdateOrder
  <1>5. UNCHANGED <<built, home, env, dist, dbs, panel, timers, site, job>> BY DEF AtomicPointer, files
  <1>6. D' = D /\ L' = L BY DEF AtomicPointer, D, L
  <1>7. /\ app.rel = L.prev /\ L.prev \in Release /\ L.to \in Release /\ L.to = built /\ home[L.to] = home[L.prev]
        /\ app' = [at |-> "link", rel |-> L.to] /\ Env0(L.prev)' = Env0(L.prev) /\ Live' = Live
    <2>1. app.rel = L.prev /\ home[L.to] = home[L.prev] BY <1>3 DEF IInv, UpdatingInv, Opened
    <2>2. L.prev \in Release /\ L.to \in Release /\ L.to = built BY <1>2, <1>3, Views DEF IInv, UpdateInv, L
    <2>3. app' = [at |-> "link", rel |-> L.to] BY <1>2 DEF AtomicPointer, L
    <2>4. QED BY <1>5, <1>6, <2>1, <2>2, <2>3 DEF Env0, Live
  <1>8. FilesInv'
    <2>1. built \in Nat BY <1>2 DEF DataTyped, Release
    <2>2. app'.rel <= built' BY <1>5, <1>7, <2>1
    <2>3. QED BY <1>3, <1>5, <1>6, <2>2 DEF IInv, FilesInv, Unfinished, D
  <1>9. UpdateInv'
    <2>1. UpdateInv /\ app.rel = L.prev /\ L.state \notin Early /\ L'.state \notin Early
      BY <1>3, <1>6 DEF IInv, UpdatingInv, Opened, Early
    <2>2. Fits(L.prev, Env0(L.prev).db)' BY <1>3, <1>5, <1>6, <1>7, <2>1 DEF UpdateInv, Fits
    <2>3. app'.rel = L.to /\ app'.at = "link" BY <1>7
    <2>4. QED BY <1>3, <1>5, <1>6, <1>7, <2>1, <2>2, <2>3, UpdateMoved DEF UpdateInv
  <1>10. UpdatingInv'
    <2>1. /\ app.rel = L.prev /\ L.state \notin Early /\ dist[L.to] = Env0(L.prev).setting
          /\ Compatible(dbs[Env0(L.prev).db].head, SchemaOf[L.to]) /\ home[L.to] = home[L.prev]
          /\ Fits(L.to, Env0(L.prev).db)
      BY <1>3 DEF IInv, UpdatingInv, Early, LifeOpen, DataOpen, Final, Unfinished, Opened, Reopening, Pausing, L
    <2>2. (/\ app.rel = L.to /\ L.state \notin Early /\ dist[L.to] = Env0(L.prev).setting
            /\ Compatible(dbs[Env0(L.prev).db].head, SchemaOf[L.to]) /\ app.at = "link"
            /\ home[L.to] = home[L.prev] /\ Fits(L.to, Env0(L.prev).db))'
      BY <1>2, <1>3, <1>5, <1>6, <2>1, Views, Zenon DEF Env0, Fits, Live, Started, InPlace, Restarted, Served, Early, L, D, DataTyped, AtomicPointer
    <2>3. QED BY <1>3, <1>4, <1>6, <2>2 DEF UpdatingInv, Early, LifeOpen, DataOpen, Final, Opened, Reopening, Pausing, Unfinished, L
  <1>11. SoundInv'
    BY <1>2, <1>3, <1>4, <1>5, <1>6, Views, Zenon DEF IInv, SoundInv, Settled, Sound, UpdatingInv, UpdateInv, LifeOpen, DataOpen, JobOpen, Unfinished, Early, Final, Live, InPlace, Started, Fits, DataTyped, Served, Env0, D, L, AtomicPointer
  <1>12. Unfinished("life")' BY <1>3, <1>6 DEF Unfinished, L, Final
  <1>13. QED BY <1>1, <1>2, <1>5, <1>6, <1>8, <1>9, <1>10, <1>11, <1>12, UpdateKeeps

LEMMA UpdateRestart == ASSUME IInv, op = "forward", of = "life", Restart PROVE IInv'
  <1>1. Step("restart") BY DEF Restart
  <1>2. TypeInv' /\ DataTyped /\ DataTyped' /\ of = "life" BY StepsTyped DEF SharedStep, IInv, TypeInv
  <1>3. /\ at = "restart" /\ op' = "forward" /\ of' = "life" /\ Unfinished("life") /\ ~Unfinished("data") /\ ~PendingJob
        /\ UNCHANGED <<backend, saved, restores>> /\ UpdateLeads("restart", at')
    BY <1>1, UpdateNext
  <1>4. at' = "health" BY <1>3, UpdateOrder
  <1>5. UNCHANGED <<app, built, home, env, dist, dbs, timers, site, job>> BY DEF Restart, files
  <1>6. D' = D /\ L' = L BY DEF Restart, D, L
  <1>7. FilesInv' BY <1>2, <1>3, <1>4, <1>5, <1>6, Views DEF IInv, FilesInv, UpdateInv, Unfinished, DataTyped, D, L, Env0, Restart, WriteEnv
  <1>8. UpdateInv'
    <2>1. Fits(L.prev, Env0(L.prev).db)' BY <1>2, <1>3, <1>5, <1>6, Views DEF IInv, UpdateInv, Fits, Env0, L, Restart
    <2>2. dist'[L.prev] = dist[L.prev] BY <1>2, <1>3, <1>5, <1>6, Views DEF IInv, UpdateInv, L, Restart
    <2>3. timers' \/ L'.timers BY <1>3, <1>5, <1>6 DEF IInv, UpdateInv, UpdatingInv, Pausing, Early, L, LifeOpen, Final, Restart
    <2>4. L'.state \in Early => L.state \in Early BY <1>3, <1>6 DEF IInv, UpdatingInv, Early
    <2>5. QED BY <1>2, <1>3, <1>5, <1>6, <2>1, <2>2, <2>3, <2>4, UpdateFrame DEF IInv
  <1>9. UpdatingInv'
    <2>1. /\ app.rel = L.to /\ L.state \notin Early /\ dist[L.to] = Env0(L.prev).setting
          /\ Compatible(dbs[Env0(L.prev).db].head, SchemaOf[L.to]) /\ app.at = "link"
          /\ home[L.to] = home[L.prev] /\ Fits(L.to, Env0(L.prev).db)
      BY <1>3 DEF IInv, UpdatingInv, Early, LifeOpen, DataOpen, Final, Unfinished, Opened, Reopening, Pausing, L
    <2>2. (/\ app.rel = L.to /\ L.state \notin Early /\ dist[L.to] = Env0(L.prev).setting
            /\ Compatible(dbs[Env0(L.prev).db].head, SchemaOf[L.to]) /\ app.at = "link"
            /\ home[L.to] = home[L.prev] /\ Fits(L.to, Env0(L.prev).db) /\ Restarted)'
      BY <1>2, <1>3, <1>5, <1>6, <2>1, Views, Zenon DEF Env0, Fits, Live, Started, InPlace, Restarted, Served, Early, L, D, DataTyped, Restart
    <2>3. QED BY <1>3, <1>4, <1>6, <2>2 DEF UpdatingInv, Early, LifeOpen, DataOpen, Final, Opened, Reopening, Pausing, Unfinished, L
  <1>10. SoundInv'
    BY <1>2, <1>3, <1>4, <1>5, <1>6, Views DEF IInv, SoundInv, Settled, Sound, UpdatingInv, UpdateInv, LifeOpen, DataOpen, JobOpen, Unfinished, Early, Final, Live, InPlace, Started, Fits, DataTyped, Served, Env0, D, L, Restart
  <1>11. Unfinished("life")' BY <1>3, <1>6 DEF Unfinished, L, Final
  <1>12. QED BY <1>1, <1>2, <1>5, <1>6, <1>7, <1>8, <1>9, <1>10, <1>11, UpdateKeeps

LEMMA UpdateHealth == ASSUME IInv, op = "forward", of = "life", Health PROVE IInv'
  <1>1. Step("health") BY DEF Health
  <1>2. TypeInv' /\ DataTyped /\ DataTyped' /\ of = "life" BY StepsTyped DEF SharedStep, IInv, TypeInv
  <1>3. /\ at = "health" /\ op' = "forward" /\ of' = "life" /\ Unfinished("life") /\ ~Unfinished("data") /\ ~PendingJob
        /\ UNCHANGED <<backend, saved, restores>> /\ UpdateLeads("health", at')
    BY <1>1, UpdateNext
  <1>4. at' = "verified" BY <1>3, UpdateOrder
  <1>5. UNCHANGED <<app, built, home, env, dist, dbs, panel, timers, site, job>> BY DEF Health, files
  <1>6. D' = D /\ L' = L BY DEF Health, D, L
  <1>7. FilesInv' BY <1>2, <1>3, <1>4, <1>5, <1>6, Views DEF IInv, FilesInv, UpdateInv, Unfinished, DataTyped, D, L, Env0, Health, WriteEnv
  <1>8. UpdateInv'
    <2>1. Fits(L.prev, Env0(L.prev).db)' BY <1>2, <1>3, <1>5, <1>6, Views DEF IInv, UpdateInv, Fits, Env0, L, Health
    <2>2. dist'[L.prev] = dist[L.prev] BY <1>2, <1>3, <1>5, <1>6, Views DEF IInv, UpdateInv, L, Health
    <2>3. timers' \/ L'.timers BY <1>3, <1>5, <1>6 DEF IInv, UpdateInv, UpdatingInv, Pausing, Early, L, LifeOpen, Final, Health
    <2>4. L'.state \in Early => L.state \in Early BY <1>3, <1>6 DEF IInv, UpdatingInv, Early
    <2>5. QED BY <1>2, <1>3, <1>5, <1>6, <2>1, <2>2, <2>3, <2>4, UpdateFrame DEF IInv
  <1>9. UpdatingInv'
    <2>1. /\ app.rel = L.to /\ L.state \notin Early /\ dist[L.to] = Env0(L.prev).setting
          /\ Compatible(dbs[Env0(L.prev).db].head, SchemaOf[L.to]) /\ app.at = "link"
          /\ home[L.to] = home[L.prev] /\ Fits(L.to, Env0(L.prev).db) /\ Restarted
      BY <1>3 DEF IInv, UpdatingInv, Early, LifeOpen, DataOpen, Final, Unfinished, Opened, Reopening, Pausing, L
    <2>2. (/\ app.rel = L.to /\ L.state \notin Early /\ dist[L.to] = Env0(L.prev).setting
            /\ Compatible(dbs[Env0(L.prev).db].head, SchemaOf[L.to]) /\ app.at = "link"
            /\ home[L.to] = home[L.prev] /\ Fits(L.to, Env0(L.prev).db) /\ Restarted /\ panel.up
            /\ Live.port = L.port)'
      <3>1. panel.up /\ Live.port = L.port /\ Live' = Live /\ Started' = Started
        BY <1>2, <1>5, <2>1 DEF Health, Healthy, Restarted, Started, Live, InPlace, L
      <3>2. Env0(L.prev)' = Env0(L.prev) BY <1>5, <1>6 DEF Env0
      <3>3. QED BY <1>5, <1>6, <2>1, <3>1, <3>2 DEF Restarted, Fits
    <2>3. QED BY <1>3, <1>4, <1>6, <2>2 DEF UpdatingInv, Early, LifeOpen, DataOpen, Final, Opened, Reopening, Pausing, Unfinished, L
  <1>10. SoundInv'
    BY <1>2, <1>3, <1>4, <1>5, <1>6, Views, Zenon DEF IInv, SoundInv, Settled, Sound, UpdatingInv, UpdateInv, LifeOpen, DataOpen, JobOpen, Unfinished, Early, Final, Live, InPlace, Started, Fits, DataTyped, Served, Env0, D, L, Health
  <1>11. Unfinished("life")' BY <1>3, <1>6 DEF Unfinished, L, Final
  <1>12. QED BY <1>1, <1>2, <1>5, <1>6, <1>7, <1>8, <1>9, <1>10, <1>11, UpdateKeeps

LEMMA UpdateHealthVerified == ASSUME IInv, op = "forward", of = "life", HealthVerified PROVE IInv'
  <1>1. Step("verified") BY DEF HealthVerified
  <1>2. TypeInv' /\ DataTyped /\ DataTyped' /\ of = "life" BY StepsTyped DEF ReleaseStep, IInv, TypeInv
  <1>3. /\ at = "verified" /\ op' = "forward" /\ of' = "life" /\ Unfinished("life") /\ ~Unfinished("data") /\ ~PendingJob
        /\ UNCHANGED <<backend, saved, restores>> /\ UpdateLeads("verified", at')
    BY <1>1, UpdateNext
  <1>4. at' = "open" BY <1>3, UpdateOrder
  <1>5. UNCHANGED <<app, built, home, env, dist, dbs, panel, timers, site, job>> BY DEF HealthVerified, files
  <1>6. /\ D' = D /\ L'.kind = L.kind /\ L'.prev = L.prev /\ L'.to = L.to /\ L'.port = L.port
        /\ L'.state = "health_verified" /\ L'.timers = L.timers /\ L'.backup = L.backup
    BY <1>2 DEF HealthVerified, Set, D, L, DataTyped, Record
  <1>7. FilesInv' BY <1>2, <1>3, <1>4, <1>5, <1>6, Views DEF IInv, FilesInv, UpdateInv, Unfinished, DataTyped, D, L, Env0, HealthVerified, WriteEnv
  <1>8. UpdateInv'
    <2>1. Fits(L.prev, Env0(L.prev).db)' BY <1>2, <1>3, <1>5, <1>6, Views, Zenon DEF IInv, UpdateInv, Fits, Env0, L, HealthVerified
    <2>2. dist'[L.prev] = dist[L.prev] BY <1>2, <1>3, <1>5, <1>6, Views DEF IInv, UpdateInv, L, HealthVerified
    <2>3. timers' \/ L'.timers BY <1>3, <1>5, <1>6 DEF IInv, UpdateInv, UpdatingInv, Pausing, Early, L, LifeOpen, Final, HealthVerified
    <2>4. L'.state \in Early => L.state \in Early BY <1>3, <1>6 DEF IInv, UpdatingInv, Early
    <2>5. QED BY <1>2, <1>3, <1>5, <1>6, <2>1, <2>2, <2>3, <2>4, UpdateFrame DEF IInv
  <1>9. UpdatingInv'
    <2>1. /\ app.rel = L.to /\ L.state \notin Early /\ dist[L.to] = Env0(L.prev).setting
          /\ Compatible(dbs[Env0(L.prev).db].head, SchemaOf[L.to]) /\ app.at = "link"
          /\ home[L.to] = home[L.prev] /\ Fits(L.to, Env0(L.prev).db) /\ Restarted /\ panel.up
          /\ Live.port = L.port
      BY <1>3 DEF IInv, UpdatingInv, Early, LifeOpen, DataOpen, Final, Unfinished, Opened, Reopening, Pausing, L
    <2>2. (/\ app.rel = L.to /\ L.state \notin Early /\ dist[L.to] = Env0(L.prev).setting
            /\ Compatible(dbs[Env0(L.prev).db].head, SchemaOf[L.to]) /\ app.at = "link"
            /\ home[L.to] = home[L.prev] /\ Fits(L.to, Env0(L.prev).db) /\ Restarted /\ panel.up
            /\ Live.port = L.port)'
      BY <1>2, <1>3, <1>5, <1>6, <2>1, Views, Zenon DEF Env0, Fits, Live, Started, InPlace, Restarted, Served, Early, L, D, DataTyped, HealthVerified
    <2>3. QED BY <1>3, <1>4, <1>6, <2>2 DEF UpdatingInv, Early, LifeOpen, DataOpen, Final, Opened, Reopening, Pausing, Unfinished, L
  <1>10. SoundInv'
    BY <1>2, <1>3, <1>4, <1>5, <1>6, Views, Zenon DEF IInv, SoundInv, Settled, Sound, UpdatingInv, UpdateInv, LifeOpen, DataOpen, JobOpen, Unfinished, Early, Final, Live, InPlace, Started, Fits, DataTyped, Served, Env0, D, L, HealthVerified
  <1>11. Unfinished("life")' BY <1>3, <1>6 DEF Unfinished, L, Final
  <1>12. QED BY <1>1, <1>2, <1>5, <1>6, <1>7, <1>8, <1>9, <1>10, <1>11, UpdateKeeps

LEMMA UpdateOpenSite == ASSUME IInv, op = "forward", of = "life", OpenSite PROVE IInv'
  <1>1. Step("open") BY DEF OpenSite
  <1>2. TypeInv' /\ DataTyped /\ DataTyped' /\ of = "life" BY StepsTyped DEF SharedStep, IInv, TypeInv
  <1>3. /\ at = "open" /\ op' = "forward" /\ of' = "life" /\ Unfinished("life") /\ ~Unfinished("data") /\ ~PendingJob
        /\ UNCHANGED <<backend, saved, restores>> /\ UpdateLeads("open", at')
    BY <1>1, UpdateNext
  <1>4. at' = "resume" BY <1>3, UpdateOrder
  <1>5. UNCHANGED <<app, built, home, env, dist, dbs, panel, timers, job>> BY DEF OpenSite, files
  <1>6. D' = D /\ L' = L BY DEF OpenSite, D, L
  <1>7. FilesInv' BY <1>2, <1>3, <1>4, <1>5, <1>6, Views DEF IInv, FilesInv, UpdateInv, Unfinished, DataTyped, D, L, Env0, OpenSite, WriteEnv
  <1>8. UpdateInv'
    <2>1. Fits(L.prev, Env0(L.prev).db)' BY <1>2, <1>3, <1>5, <1>6, Views DEF IInv, UpdateInv, Fits, Env0, L, OpenSite
    <2>2. dist'[L.prev] = dist[L.prev] BY <1>2, <1>3, <1>5, <1>6, Views DEF IInv, UpdateInv, L, OpenSite
    <2>3. timers' \/ L'.timers BY <1>3, <1>5, <1>6 DEF IInv, UpdateInv, UpdatingInv, Pausing, Early, L, LifeOpen, Final, OpenSite
    <2>4. L'.state \in Early => L.state \in Early BY <1>3, <1>6 DEF IInv, UpdatingInv, Early
    <2>5. QED BY <1>2, <1>3, <1>5, <1>6, <2>1, <2>2, <2>3, <2>4, UpdateFrame DEF IInv
  <1>9. UpdatingInv'
    <2>1. /\ app.rel = L.to /\ L.state \notin Early /\ dist[L.to] = Env0(L.prev).setting
          /\ Compatible(dbs[Env0(L.prev).db].head, SchemaOf[L.to]) /\ app.at = "link"
          /\ home[L.to] = home[L.prev] /\ Fits(L.to, Env0(L.prev).db) /\ Restarted /\ panel.up
          /\ Live.port = L.port
      BY <1>3 DEF IInv, UpdatingInv, Early, LifeOpen, DataOpen, Final, Unfinished, Opened, Reopening, Pausing, L
    <2>2. (/\ app.rel = L.to /\ L.state \notin Early /\ dist[L.to] = Env0(L.prev).setting
            /\ Compatible(dbs[Env0(L.prev).db].head, SchemaOf[L.to]) /\ app.at = "link"
            /\ home[L.to] = home[L.prev] /\ Fits(L.to, Env0(L.prev).db) /\ Restarted /\ panel.up
            /\ Live.port = L.port /\ Served(L.port))'
      BY <1>2, <1>3, <1>5, <1>6, <2>1, Views, Zenon DEF Env0, Fits, Live, Started, InPlace, Restarted, Served, Early, L, D, DataTyped, OpenSite
    <2>3. QED BY <1>3, <1>4, <1>6, <2>2 DEF UpdatingInv, Early, LifeOpen, DataOpen, Final, Opened, Reopening, Pausing, Unfinished, L
  <1>10. SoundInv'
    BY <1>2, <1>3, <1>4, <1>5, <1>6, Views DEF IInv, SoundInv, Settled, Sound, UpdatingInv, UpdateInv, LifeOpen, DataOpen, JobOpen, Unfinished, Early, Final, Live, InPlace, Started, Fits, DataTyped, Served, Env0, D, L, OpenSite
  <1>11. Unfinished("life")' BY <1>3, <1>6 DEF Unfinished, L, Final
  <1>12. QED BY <1>1, <1>2, <1>5, <1>6, <1>7, <1>8, <1>9, <1>10, <1>11, UpdateKeeps

LEMMA UpdateResumeWriters == ASSUME IInv, op = "forward", of = "life", ResumeWriters PROVE IInv'
  <1>1. Step("resume") BY DEF ResumeWriters
  <1>2. TypeInv' /\ DataTyped /\ DataTyped' /\ of = "life" BY StepsTyped DEF SharedStep, IInv, TypeInv
  <1>3. /\ at = "resume" /\ op' = "forward" /\ of' = "life" /\ Unfinished("life") /\ ~Unfinished("data") /\ ~PendingJob
        /\ UNCHANGED <<backend, saved, restores>> /\ UpdateLeads("resume", at')
    BY <1>1, UpdateNext
  <1>4. at' = "complete" BY <1>3, UpdateOrder
  <1>5. UNCHANGED <<app, built, home, env, dist, dbs, panel, site, job>> BY DEF ResumeWriters, files
  <1>6. D' = D /\ L' = L BY DEF ResumeWriters, D, L
  <1>7. FilesInv' BY <1>2, <1>3, <1>4, <1>5, <1>6, Views DEF IInv, FilesInv, UpdateInv, Unfinished, DataTyped, D, L, Env0, ResumeWriters, WriteEnv
  <1>8. UpdateInv'
    <2>1. Fits(L.prev, Env0(L.prev).db)' BY <1>2, <1>3, <1>5, <1>6, Views DEF IInv, UpdateInv, Fits, Env0, L, ResumeWriters
    <2>2. dist'[L.prev] = dist[L.prev] BY <1>2, <1>3, <1>5, <1>6, Views DEF IInv, UpdateInv, L, ResumeWriters
    <2>3. timers' \/ L'.timers BY <1>3, <1>5, <1>6 DEF IInv, UpdateInv, UpdatingInv, Pausing, Early, L, LifeOpen, Final, ResumeWriters
    <2>4. L'.state \in Early => L.state \in Early BY <1>3, <1>6 DEF IInv, UpdatingInv, Early
    <2>5. QED BY <1>2, <1>3, <1>5, <1>6, <2>1, <2>2, <2>3, <2>4, UpdateFrame DEF IInv
  <1>9. UpdatingInv'
    <2>1. /\ app.rel = L.to /\ L.state \notin Early /\ dist[L.to] = Env0(L.prev).setting
          /\ Compatible(dbs[Env0(L.prev).db].head, SchemaOf[L.to]) /\ app.at = "link"
          /\ home[L.to] = home[L.prev] /\ Fits(L.to, Env0(L.prev).db) /\ Restarted /\ panel.up
          /\ Live.port = L.port /\ Served(L.port)
      BY <1>3 DEF IInv, UpdatingInv, Early, LifeOpen, DataOpen, Final, Unfinished, Opened, Reopening, Pausing, L
    <2>2. (/\ app.rel = L.to /\ L.state \notin Early /\ dist[L.to] = Env0(L.prev).setting
            /\ Compatible(dbs[Env0(L.prev).db].head, SchemaOf[L.to]) /\ app.at = "link"
            /\ home[L.to] = home[L.prev] /\ Fits(L.to, Env0(L.prev).db) /\ Restarted /\ panel.up
            /\ Live.port = L.port /\ Served(L.port) /\ timers)'
      <3>1. timers' /\ Live' = Live /\ Started' = Started
        BY <1>2, <1>3, <1>5, Zenon DEF ResumeWriters, IInv, UpdateInv, Started, Live, InPlace, L
      <3>2. Env0(L.prev)' = Env0(L.prev) BY <1>5, <1>6 DEF Env0
      <3>3. QED BY <1>5, <1>6, <2>1, <3>1, <3>2 DEF Restarted, Fits, Served
    <2>3. QED BY <1>3, <1>4, <1>6, <2>2 DEF UpdatingInv, Early, LifeOpen, DataOpen, Final, Opened, Reopening, Pausing, Unfinished, L
  <1>10. SoundInv'
    BY <1>2, <1>3, <1>4, <1>5, <1>6, Views, Zenon DEF IInv, SoundInv, Settled, Sound, UpdatingInv, UpdateInv, LifeOpen, DataOpen, JobOpen, Unfinished, Early, Final, Live, InPlace, Started, Fits, DataTyped, Served, Env0, D, L, ResumeWriters
  <1>11. Unfinished("life")' BY <1>3, <1>6 DEF Unfinished, L, Final
  <1>12. QED BY <1>1, <1>2, <1>5, <1>6, <1>7, <1>8, <1>9, <1>10, <1>11, UpdateKeeps

-----------------------------------------------------------------------------
\* The end of an update; a rollback, step by step.

LEMMA CompleteStep == ASSUME Complete PROVE Step("complete") /\ UNCHANGED <<files, panel, timers, site, job>>
  BY Zenon DEF Complete

\* Nothing is known of a running operation when none runs.
LEMMA IdleKeeps ==
  ASSUME TypeInv', op' = "idle", todo' = <<>>, OneInv', FilesInv', UpdateInv', RetainedInv', RollbackInv', RestoreInv',
         JobInv', SoundInv', ~PendingJob'
  PROVE  IInv'
  BY DEF IInv, PlanInv, HelperInv, UpdatingInv, RollingBackInv, RestoringInv, UndoingInv, ChangingInv, ChangingBackInv

LEMMA UpdateEnds == ASSUME IInv, op = "forward", of = "life", Complete PROVE IInv'
  <1>1. Step("complete") BY CompleteStep
  <1>2. TypeInv' /\ DataTyped /\ DataTyped' BY StepsTyped DEF SharedStep, IInv, TypeInv
  <1>3. /\ at = "complete" /\ op' = "idle" /\ todo' = <<>> /\ Unfinished("life") /\ ~Unfinished("data") /\ ~PendingJob
        /\ UNCHANGED <<backend, saved, restores>>
    <2>1. TypeInv /\ PlanInv BY DEF IInv
    <2>2. ~UpdateLeads("complete", at') BY DEF UpdateLeads, PauseLeads, OpenLeads
    <2>3. QED BY <1>1, <2>1, <2>2, UpdateNext, Advance
  <1>4. UNCHANGED <<app, built, home, env, dist, dbs, panel, timers, site, job>> BY CompleteStep DEF files
  <1>5. D' = D /\ L'.state = "complete" /\ L'.prev = L.prev /\ L'.to = L.to
    BY <1>2 DEF Complete, Finish, D, L, DataTyped, Record, NoRecord
  <1>6. ~Unfinished("life")' /\ ~Unfinished("data")' /\ ~PendingJob'
    BY <1>3, <1>4, <1>5 DEF Unfinished, PendingJob, L, D, Final
  <1>7. /\ app.rel = L.to /\ app.at = "link" /\ dist[L.to] = Env0(L.prev).setting /\ home[L.to] = home[L.prev]
        /\ Fits(L.to, Env0(L.prev).db) /\ Restarted /\ Live.port = L.port /\ Served(L.port) /\ timers
        /\ L.prev < L.to /\ dist[L.prev] = Env0(L.prev).setting
    BY <1>3 DEF IInv, UpdateInv, UpdatingInv, Opened, Reopening, LifeOpen, Early, Unfinished, L
  <1>8. Live = Env0(L.prev) /\ Live' = Live BY <1>4, <1>7 DEF Live, Env0
  <1>9. OneInv' /\ FilesInv' BY <1>3, <1>4, <1>5, <1>6 DEF IInv, OneInv, FilesInv, PendingJob
  <1>10. RetainedInv'
    <2>1. Env0(L.prev)' = Env0(L.prev) BY <1>4, <1>5 DEF Env0
    <2>2. QED BY <1>4, <1>5, <1>6, <1>7, <1>8, <2>1 DEF RetainedInv, Keeps
  <1>11. UpdateInv' /\ RollbackInv' /\ RestoreInv' BY <1>6 DEF UpdateInv, RollbackInv, RestoreInv
  <1>12. JobInv' BY <1>6 DEF JobInv, JobOpen, PendingJob, Final
  <1>13. SoundInv' BY <1>4, <1>7, <1>8 DEF SoundInv, Sound, InPlace, Restarted, Started, Served, Fits
  <1>14. QED BY <1>2, <1>3, <1>6, <1>9, <1>10, <1>11, <1>12, <1>13, IdleKeeps

LEMMA RollbackNext ==
  ASSUME IInv, op = "forward", of = "data", D.kind = "rollback", NEW s, Step(s)
  PROVE  /\ at = s /\ of' = "data" /\ Unfinished("data") /\ ~Unfinished("life") /\ ~PendingJob
         /\ UNCHANGED <<backend, saved, restores>>
         /\ \/ op' = "idle" /\ s = "complete" /\ todo' = <<>>
            \/ op' = "forward" /\ s # "complete" /\ RollbackLeads(s, at') /\ todo' # <<>>
  <1>1. TypeInv /\ PlanInv /\ OneInv BY DEF IInv
  <1>2. Plan = "rollback" /\ Last = "complete" BY DEF Plan, Last
  <1>3. Unfinished("data") /\ ~Unfinished("life") /\ ~PendingJob BY <1>1 DEF OneInv
  <1>4. /\ at = s /\ of' = of /\ UNCHANGED <<backend, helper, saved, bounds>>
        /\ \/ op' = "idle" /\ s = Last /\ todo' = <<>>
           \/ op' = op /\ Leads(Plan, s, at') /\ todo' # <<>>
    BY <1>1, Advance
  <1>5. Leads("rollback", s, at') => RollbackLeads(s, at') BY DEF Leads
  <1>6. ~RollbackLeads("complete", at') BY DEF RollbackLeads, PauseLeads, OpenLeads
  <1>7. restores' = restores BY <1>4 DEF bounds
  <1>8. QED BY <1>2, <1>3, <1>4, <1>5, <1>6, <1>7

\* What a step of a rollback has to keep that is not its last one.
LEMMA RollbackKeeps ==
  ASSUME IInv, op = "forward", of = "data", D.kind = "rollback", NEW s, Step(s), s # "complete",
         TypeInv', UNCHANGED <<job, built, home, env, dist, dbs>>, app'.rel <= built,
         D'.kind = D.kind, D'.state = D.state, D'.clone = D.clone, L' = L \/ L'.state = "rolled_back",
         RollbackInv', RollingBackInv'
  PROVE  IInv'
  <1>1. /\ op' = "forward" /\ of' = "data" /\ Unfinished("data") /\ ~Unfinished("life") /\ ~PendingJob
        /\ todo' # <<>> /\ UNCHANGED <<backend, saved, restores>>
    BY RollbackNext
  <1>2. Unfinished("data")' /\ ~Unfinished("life")' /\ ~PendingJob' /\ D'.state = "maintenance" /\ D'.backup = {}
    BY <1>1 DEF IInv, RollbackInv, Unfinished, PendingJob, D, L, Final
  <1>3. PlanInv'
    <2>1. Plan' = Plan BY <1>1 DEF Plan
    <2>2. QED BY <2>1, PlanKept DEF IInv
  <1>4. OneInv' BY <1>1, <1>2 DEF OneInv, PendingJob, Final
  <1>5. FilesInv' BY <1>1, <1>2 DEF IInv, FilesInv
  <1>6. RetainedInv'
    <2>1. Env0(L.prev)' = env[home[L'.prev]] BY DEF Env0
    <2>2. QED BY <1>2, <2>1 DEF IInv, RetainedInv, Env0
  <1>7. UpdateInv' /\ RestoreInv' BY <1>2 DEF UpdateInv, RestoreInv
  <1>8. JobInv' BY <1>2 DEF JobInv, JobOpen, PendingJob, Final
  <1>9. SoundInv' BY <1>2 DEF SoundInv, Settled, DataOpen, Final
  <1>10. UpdatingInv' /\ RestoringInv' /\ UndoingInv' /\ ChangingInv' /\ ChangingBackInv' /\ HelperInv'
    BY <1>1, <1>2 DEF HelperInv, UpdatingInv, RestoringInv, UndoingInv, ChangingInv, ChangingBackInv
  <1>11. QED BY <1>3, <1>4, <1>5, <1>6, <1>7, <1>8, <1>9, <1>10 DEF IInv

LEMMA RollbackFrame ==
  ASSUME RollbackInv, Unfinished("data"), D.kind = "rollback", L' = L \/ L'.state = "rolled_back",
         D'.kind = D.kind, D'.state = D.state, D'.prev = D.prev, D'.to = D.to, D'.port = D.port,
         D'.backup = D.backup, UNCHANGED <<built, home, env, dist, dbs>>,
         (app'.at = "link" /\ app'.rel \in {D.prev, D.to}) \/ app' = app, timers' \/ D'.timers
  PROVE  RollbackInv'
  <1>1. \A r : Env0(r)' = Env0(r) BY DEF Env0
  <1>2. \A r, d : Fits(r, d)' = Fits(r, d) BY DEF Fits
  <1>3. QED BY <1>1, <1>2 DEF RollbackInv, InPlace

LEMMA RollbackCloseSite == ASSUME IInv, op = "forward", of = "data", D.kind = "rollback", CloseSite PROVE IInv'
  <1>1. Step("close") BY DEF CloseSite
  <1>2. TypeInv' /\ DataTyped /\ DataTyped' /\ of = "data" BY StepsTyped DEF SharedStep, IInv, TypeInv
  <1>3. /\ at = "close" /\ op' = "forward" /\ of' = "data" /\ Unfinished("data") /\ ~Unfinished("life") /\ ~PendingJob
        /\ UNCHANGED <<backend, saved, restores>> /\ RollbackLeads("close", at')
    BY <1>1, RollbackNext
  <1>4. at' = "note" BY <1>3, RollbackOrder
  <1>5. UNCHANGED <<app, built, home, env, dist, dbs, panel, timers, job>> BY DEF CloseSite, files
  <1>6. D' = D /\ L' = L BY DEF CloseSite, D, L
  <1>7. RollbackInv'
    <2>1. timers' \/ D'.timers BY <1>3, <1>5, <1>6 DEF IInv, RollbackInv
    <2>2. QED BY <1>3, <1>5, <1>6, <2>1, RollbackFrame DEF IInv
  <1>8. RollingBackInv'
    <2>1. /\ app.rel = D.prev /\ L.state = "complete" /\ timers
      BY <1>3 DEF IInv, RollingBackInv, Early, LifeOpen, DataOpen, Final, Unfinished, Opened, Reopening, Pausing, D
    <2>2. (/\ app.rel = D.prev /\ L.state = "complete" /\ timers)'
      BY <1>2, <1>3, <1>5, <1>6, <2>1, Views DEF Env0, Fits, Live, Started, InPlace, Restarted, Served, Early, L, D, DataTyped, CloseSite
    <2>3. QED BY <1>3, <1>4, <1>6, <2>2 DEF RollingBackInv, Early, LifeOpen, DataOpen, Final, Opened, Reopening, Pausing, Unfinished, D
  <1>9. app'.rel <= built BY <1>5 DEF IInv, FilesInv
  <1>10. QED BY <1>1, <1>2, <1>5, <1>6, <1>7, <1>8, <1>9, RollbackKeeps

LEMMA RollbackNoteTimers == ASSUME IInv, op = "forward", of = "data", D.kind = "rollback", NoteTimers PROVE IInv'
  <1>1. Step("note") BY DEF NoteTimers
  <1>2. TypeInv' /\ DataTyped /\ DataTyped' /\ of = "data" BY StepsTyped DEF SharedStep, IInv, TypeInv
  <1>3. /\ at = "note" /\ op' = "forward" /\ of' = "data" /\ Unfinished("data") /\ ~Unfinished("life") /\ ~PendingJob
        /\ UNCHANGED <<backend, saved, restores>> /\ RollbackLeads("note", at')
    BY <1>1, RollbackNext
  <1>4. at' = "stop_timers" BY <1>3, RollbackOrder
  <1>5. UNCHANGED <<app, built, home, env, dist, dbs, panel, timers, site, job>> BY DEF NoteTimers, files
  <1>6. /\ L' = L /\ D'.kind = D.kind /\ D'.prev = D.prev /\ D'.to = D.to /\ D'.port = D.port
        /\ D'.state = D.state /\ D'.timers = timers /\ D'.backup = D.backup /\ D'.clone = D.clone
    BY <1>2 DEF NoteTimers, Set, D, L, DataTyped, Record
  <1>7. RollbackInv'
    <2>1. timers BY <1>3 DEF IInv, RollingBackInv, Pausing, D
    <2>2. QED BY <1>3, <1>5, <1>6, <2>1, RollbackFrame DEF IInv
  <1>8. RollingBackInv'
    <2>1. /\ app.rel = D.prev /\ L.state = "complete" /\ timers
      BY <1>3 DEF IInv, RollingBackInv, Early, LifeOpen, DataOpen, Final, Unfinished, Opened, Reopening, Pausing, D
    <2>2. (/\ app.rel = D.prev /\ L.state = "complete" /\ D.timers)'
      BY <1>2, <1>3, <1>5, <1>6, <2>1, Views DEF Env0, Fits, Live, Started, InPlace, Restarted, Served, Early, L, D, DataTyped, NoteTimers
    <2>3. QED BY <1>3, <1>4, <1>6, <2>2 DEF RollingBackInv, Early, LifeOpen, DataOpen, Final, Opened, Reopening, Pausing, Unfinished, D
  <1>9. app'.rel <= built BY <1>5 DEF IInv, FilesInv
  <1>10. QED BY <1>1, <1>2, <1>5, <1>6, <1>7, <1>8, <1>9, RollbackKeeps

LEMMA RollbackStopTimers == ASSUME IInv, op = "forward", of = "data", D.kind = "rollback", StopTimers PROVE IInv'
  <1>1. Step("stop_timers") BY DEF StopTimers
  <1>2. TypeInv' /\ DataTyped /\ DataTyped' /\ of = "data" BY StepsTyped DEF SharedStep, IInv, TypeInv
  <1>3. /\ at = "stop_timers" /\ op' = "forward" /\ of' = "data" /\ Unfinished("data") /\ ~Unfinished("life") /\ ~PendingJob
        /\ UNCHANGED <<backend, saved, restores>> /\ RollbackLeads("stop_timers", at')
    BY <1>1, RollbackNext
  <1>4. at' = "stop_panel" BY <1>3, RollbackOrder
  <1>5. UNCHANGED <<app, built, home, env, dist, dbs, panel, site, job>> BY DEF StopTimers, files
  <1>6. D' = D /\ L' = L BY DEF StopTimers, D, L
  <1>7. RollbackInv'
    <2>1. D.timers BY <1>3 DEF IInv, RollingBackInv, Pausing, D
    <2>2. QED BY <1>3, <1>5, <1>6, <2>1, RollbackFrame DEF IInv
  <1>8. RollingBackInv'
    <2>1. /\ app.rel = D.prev /\ L.state = "complete" /\ D.timers
      BY <1>3 DEF IInv, RollingBackInv, Early, LifeOpen, DataOpen, Final, Unfinished, Opened, Reopening, Pausing, D
    <2>2. (/\ app.rel = D.prev /\ L.state = "complete")'
      BY <1>2, <1>3, <1>5, <1>6, <2>1, Views DEF Env0, Fits, Live, Started, InPlace, Restarted, Served, Early, L, D, DataTyped, StopTimers
    <2>3. QED BY <1>3, <1>4, <1>6, <2>2 DEF RollingBackInv, Early, LifeOpen, DataOpen, Final, Opened, Reopening, Pausing, Unfinished, D
  <1>9. app'.rel <= built BY <1>5 DEF IInv, FilesInv
  <1>10. QED BY <1>1, <1>2, <1>5, <1>6, <1>7, <1>8, <1>9, RollbackKeeps

LEMMA RollbackStopPanel == ASSUME IInv, op = "forward", of = "data", D.kind = "rollback", StopPanel PROVE IInv'
  <1>1. Step("stop_panel") BY DEF StopPanel
  <1>2. TypeInv' /\ DataTyped /\ DataTyped' /\ of = "data" BY StepsTyped DEF SharedStep, IInv, TypeInv
  <1>3. /\ at = "stop_panel" /\ op' = "forward" /\ of' = "data" /\ Unfinished("data") /\ ~Unfinished("life") /\ ~PendingJob
        /\ UNCHANGED <<backend, saved, restores>> /\ RollbackLeads("stop_panel", at')
    BY <1>1, RollbackNext
  <1>4. at' = "switch" BY <1>3, RollbackOrder
  <1>5. UNCHANGED <<app, built, home, env, dist, dbs, timers, site, job>> BY DEF StopPanel, files
  <1>6. D' = D /\ L' = L BY DEF StopPanel, D, L
  <1>7. RollbackInv'
    <2>1. timers' \/ D'.timers BY <1>3, <1>5, <1>6 DEF IInv, RollbackInv
    <2>2. QED BY <1>3, <1>5, <1>6, <2>1, RollbackFrame DEF IInv
  <1>8. RollingBackInv'
    <2>1. /\ app.rel = D.prev /\ L.state = "complete"
      BY <1>3 DEF IInv, RollingBackInv, Early, LifeOpen, DataOpen, Final, Unfinished, Opened, Reopening, Pausing, D
    <2>2. (/\ app.rel = D.prev /\ L.state = "complete")'
      BY <1>2, <1>3, <1>5, <1>6, <2>1, Views DEF Env0, Fits, Live, Started, InPlace, Restarted, Served, Early, L, D, DataTyped, StopPanel
    <2>3. QED BY <1>3, <1>4, <1>6, <2>2 DEF RollingBackInv, Early, LifeOpen, DataOpen, Final, Opened, Reopening, Pausing, Unfinished, D
  <1>9. app'.rel <= built BY <1>5 DEF IInv, FilesInv
  <1>10. QED BY <1>1, <1>2, <1>5, <1>6, <1>7, <1>8, <1>9, RollbackKeeps

LEMMA RollbackAtomicPointer == ASSUME IInv, op = "forward", of = "data", D.kind = "rollback", AtomicPointer PROVE IInv'
  <1>1. Step("switch") BY DEF AtomicPointer
  <1>2. TypeInv' /\ DataTyped /\ DataTyped' /\ of = "data" BY StepsTyped DEF ReleaseStep, IInv, TypeInv
  <1>3. /\ at = "switch" /\ op' = "forward" /\ of' = "data" /\ Unfinished("data") /\ ~Unfinished("life") /\ ~PendingJob
        /\ UNCHANGED <<backend, saved, restores>> /\ RollbackLeads("switch", at')
    BY <1>1, RollbackNext
  <1>4. at' = "restart" BY <1>3, RollbackOrder
  <1>5. UNCHANGED <<built, home, env, dist, dbs, panel, timers, site, job>> BY DEF AtomicPointer, files
  <1>6. D' = D /\ L' = L BY DEF AtomicPointer, D, L
  <1>7. RollbackInv'
    <2>1. app'.at = "link" /\ app'.rel = D.to BY <1>2 DEF AtomicPointer, D
    <2>2. timers' \/ D'.timers BY <1>3, <1>5, <1>6 DEF IInv, RollbackInv
    <2>3. QED BY <1>3, <1>5, <1>6, <2>1, <2>2, RollbackFrame DEF IInv
  <1>8. RollingBackInv'
    <2>1. /\ app.rel = D.prev /\ L.state = "complete"
      BY <1>3 DEF IInv, RollingBackInv, Early, LifeOpen, DataOpen, Final, Unfinished, Opened, Reopening, Pausing, D
    <2>2. (/\ app.rel = D.to /\ L.state = "complete")'
      <3>1. L.state = "complete" BY <1>3 DEF IInv, RollingBackInv
      <3>2. app'.rel = D.to BY <1>2 DEF AtomicPointer, D
      <3>3. QED BY <1>6, <3>1, <3>2
    <2>3. QED BY <1>3, <1>4, <1>6, <2>2 DEF RollingBackInv, Early, LifeOpen, DataOpen, Final, Opened, Reopening, Pausing, Unfinished, D
  <1>9. app'.rel <= built
    <2>1. app'.rel = D.to BY <1>2 DEF AtomicPointer, D
    <2>2. app.rel = D.prev /\ L.state = "complete" /\ L.prev = D.to /\ L.to = D.prev
      BY <1>3 DEF IInv, RollingBackInv, RollbackInv, Opened
    <2>3. D.to < app.rel /\ app.rel <= built BY <2>2 DEF IInv, RetainedInv, FilesInv
    <2>4. D.to \in Nat /\ app.rel \in Nat /\ built \in Nat
      <3>1. app.rel \in Release /\ built \in Release /\ D.to \in Release BY <1>2, Views DEF DataTyped, D
      <3>2. QED BY <3>1 DEF Release
    <2>5. QED BY <2>1, <2>3, <2>4
  <1>10. QED BY <1>1, <1>2, <1>5, <1>6, <1>7, <1>8, <1>9, RollbackKeeps

LEMMA RollbackRestart == ASSUME IInv, op = "forward", of = "data", D.kind = "rollback", Restart PROVE IInv'
  <1>1. Step("restart") BY DEF Restart
  <1>2. TypeInv' /\ DataTyped /\ DataTyped' /\ of = "data" BY StepsTyped DEF SharedStep, IInv, TypeInv
  <1>3. /\ at = "restart" /\ op' = "forward" /\ of' = "data" /\ Unfinished("data") /\ ~Unfinished("life") /\ ~PendingJob
        /\ UNCHANGED <<backend, saved, restores>> /\ RollbackLeads("restart", at')
    BY <1>1, RollbackNext
  <1>4. at' = "health" BY <1>3, RollbackOrder
  <1>5. UNCHANGED <<app, built, home, env, dist, dbs, timers, site, job>> BY DEF Restart, files
  <1>6. D' = D /\ L' = L BY DEF Restart, D, L
  <1>7. RollbackInv'
    <2>1. timers' \/ D'.timers BY <1>3, <1>5, <1>6 DEF IInv, RollbackInv
    <2>2. QED BY <1>3, <1>5, <1>6, <2>1, RollbackFrame DEF IInv
  <1>8. RollingBackInv'
    <2>1. /\ app.rel = D.to /\ L.state = "complete"
      BY <1>3 DEF IInv, RollingBackInv, Early, LifeOpen, DataOpen, Final, Unfinished, Opened, Reopening, Pausing, D
    <2>2. (/\ app.rel = D.to /\ L.state = "complete" /\ Restarted)'
      BY <1>2, <1>3, <1>5, <1>6, <2>1, Views DEF Env0, Fits, Live, Started, InPlace, Restarted, Served, Early, L, D, DataTyped, Restart
    <2>3. QED BY <1>3, <1>4, <1>6, <2>2 DEF RollingBackInv, Early, LifeOpen, DataOpen, Final, Opened, Reopening, Pausing, Unfinished, D
  <1>9. app'.rel <= built BY <1>5 DEF IInv, FilesInv
  <1>10. QED BY <1>1, <1>2, <1>5, <1>6, <1>7, <1>8, <1>9, RollbackKeeps

LEMMA RollbackHealth == ASSUME IInv, op = "forward", of = "data", D.kind = "rollback", Health PROVE IInv'
  <1>1. Step("health") BY DEF Health
  <1>2. TypeInv' /\ DataTyped /\ DataTyped' /\ of = "data" BY StepsTyped DEF SharedStep, IInv, TypeInv
  <1>3. /\ at = "health" /\ op' = "forward" /\ of' = "data" /\ Unfinished("data") /\ ~Unfinished("life") /\ ~PendingJob
        /\ UNCHANGED <<backend, saved, restores>> /\ RollbackLeads("health", at')
    BY <1>1, RollbackNext
  <1>4. at' = "open" BY <1>3, RollbackOrder
  <1>5. UNCHANGED <<app, built, home, env, dist, dbs, panel, timers, site, job>> BY DEF Health, files
  <1>6. D' = D /\ L' = L BY DEF Health, D, L
  <1>7. RollbackInv'
    <2>1. timers' \/ D'.timers BY <1>3, <1>5, <1>6 DEF IInv, RollbackInv
    <2>2. QED BY <1>3, <1>5, <1>6, <2>1, RollbackFrame DEF IInv
  <1>8. RollingBackInv'
    <2>1. /\ app.rel = D.to /\ L.state = "complete" /\ Restarted
      BY <1>3 DEF IInv, RollingBackInv, Early, LifeOpen, DataOpen, Final, Unfinished, Opened, Reopening, Pausing, D
    <2>2. (/\ app.rel = D.to /\ L.state = "complete" /\ Restarted /\ panel.up /\ Live.port = D.port)'
      <3>1. panel.up /\ Live.port = D.port /\ Live' = Live /\ Started' = Started
        BY <1>2, <1>5, <2>1 DEF Health, Healthy, Restarted, Started, Live, InPlace, D
      <3>2. QED BY <1>5, <1>6, <2>1, <3>1 DEF Restarted
    <2>3. QED BY <1>3, <1>4, <1>6, <2>2 DEF RollingBackInv, Early, LifeOpen, DataOpen, Final, Opened, Reopening, Pausing, Unfinished, D
  <1>9. app'.rel <= built BY <1>5 DEF IInv, FilesInv
  <1>10. QED BY <1>1, <1>2, <1>5, <1>6, <1>7, <1>8, <1>9, RollbackKeeps

LEMMA RollbackOpenSite == ASSUME IInv, op = "forward", of = "data", D.kind = "rollback", OpenSite PROVE IInv'
  <1>1. Step("open") BY DEF OpenSite
  <1>2. TypeInv' /\ DataTyped /\ DataTyped' /\ of = "data" BY StepsTyped DEF SharedStep, IInv, TypeInv
  <1>3. /\ at = "open" /\ op' = "forward" /\ of' = "data" /\ Unfinished("data") /\ ~Unfinished("life") /\ ~PendingJob
        /\ UNCHANGED <<backend, saved, restores>> /\ RollbackLeads("open", at')
    BY <1>1, RollbackNext
  <1>4. at' = "resume" BY <1>3, RollbackOrder
  <1>5. UNCHANGED <<app, built, home, env, dist, dbs, panel, timers, job>> BY DEF OpenSite, files
  <1>6. D' = D /\ L' = L BY DEF OpenSite, D, L
  <1>7. RollbackInv'
    <2>1. timers' \/ D'.timers BY <1>3, <1>5, <1>6 DEF IInv, RollbackInv
    <2>2. QED BY <1>3, <1>5, <1>6, <2>1, RollbackFrame DEF IInv
  <1>8. RollingBackInv'
    <2>1. /\ app.rel = D.to /\ L.state = "complete" /\ Restarted /\ panel.up /\ Live.port = D.port
      BY <1>3 DEF IInv, RollingBackInv, Early, LifeOpen, DataOpen, Final, Unfinished, Opened, Reopening, Pausing, D
    <2>2. (/\ app.rel = D.to /\ L.state = "complete" /\ Restarted /\ panel.up /\ Live.port = D.port
            /\ Served(D.port))'
      BY <1>2, <1>3, <1>5, <1>6, <2>1, Views DEF Env0, Fits, Live, Started, InPlace, Restarted, Served, Early, L, D, DataTyped, OpenSite
    <2>3. QED BY <1>3, <1>4, <1>6, <2>2 DEF RollingBackInv, Early, LifeOpen, DataOpen, Final, Opened, Reopening, Pausing, Unfinished, D
  <1>9. app'.rel <= built BY <1>5 DEF IInv, FilesInv
  <1>10. QED BY <1>1, <1>2, <1>5, <1>6, <1>7, <1>8, <1>9, RollbackKeeps

LEMMA RollbackResumeWriters == ASSUME IInv, op = "forward", of = "data", D.kind = "rollback", ResumeWriters PROVE IInv'
  <1>1. Step("resume") BY DEF ResumeWriters
  <1>2. TypeInv' /\ DataTyped /\ DataTyped' /\ of = "data" BY StepsTyped DEF SharedStep, IInv, TypeInv
  <1>3. /\ at = "resume" /\ op' = "forward" /\ of' = "data" /\ Unfinished("data") /\ ~Unfinished("life") /\ ~PendingJob
        /\ UNCHANGED <<backend, saved, restores>> /\ RollbackLeads("resume", at')
    BY <1>1, RollbackNext
  <1>4. at' = "release_undone" BY <1>3, RollbackOrder
  <1>5. UNCHANGED <<app, built, home, env, dist, dbs, panel, site, job>> BY DEF ResumeWriters, files
  <1>6. D' = D /\ L' = L BY DEF ResumeWriters, D, L
  <1>7. RollbackInv'
    <2>1. timers' \/ D'.timers BY <1>2, <1>3, <1>6 DEF IInv, RollbackInv, ResumeWriters, D
    <2>2. QED BY <1>3, <1>5, <1>6, <2>1, RollbackFrame DEF IInv
  <1>8. RollingBackInv'
    <2>1. /\ app.rel = D.to /\ L.state = "complete" /\ Restarted /\ panel.up /\ Live.port = D.port
          /\ Served(D.port)
      BY <1>3 DEF IInv, RollingBackInv, Early, LifeOpen, DataOpen, Final, Unfinished, Opened, Reopening, Pausing, D
    <2>2. (/\ app.rel = D.to /\ L.state = "complete" /\ Restarted /\ panel.up /\ Live.port = D.port
            /\ Served(D.port) /\ timers)'
      <3>1. timers' /\ Live' = Live /\ Started' = Started
        BY <1>2, <1>3, <1>5 DEF ResumeWriters, IInv, RollbackInv, Started, Live, InPlace, D
      <3>2. QED BY <1>5, <1>6, <2>1, <3>1 DEF Restarted, Served
    <2>3. QED BY <1>3, <1>4, <1>6, <2>2 DEF RollingBackInv, Early, LifeOpen, DataOpen, Final, Opened, Reopening, Pausing, Unfinished, D
  <1>9. app'.rel <= built BY <1>5 DEF IInv, FilesInv
  <1>10. QED BY <1>1, <1>2, <1>5, <1>6, <1>7, <1>8, <1>9, RollbackKeeps

LEMMA RollbackReleaseRolledBack == ASSUME IInv, op = "forward", of = "data", D.kind = "rollback", ReleaseRolledBack PROVE IInv'
  <1>1. Step("release_undone") BY DEF ReleaseRolledBack
  <1>2. TypeInv' /\ DataTyped /\ DataTyped' /\ of = "data" BY StepsTyped DEF ReleaseStep, IInv, TypeInv
  <1>3. /\ at = "release_undone" /\ op' = "forward" /\ of' = "data" /\ Unfinished("data") /\ ~Unfinished("life") /\ ~PendingJob
        /\ UNCHANGED <<backend, saved, restores>> /\ RollbackLeads("release_undone", at')
    BY <1>1, RollbackNext
  <1>4. at' = "complete" BY <1>3, RollbackOrder
  <1>5. UNCHANGED <<app, built, home, env, dist, dbs, panel, timers, site, job>> BY DEF ReleaseRolledBack, files
  <1>6. D' = D /\ L'.state = "rolled_back" BY <1>2 DEF ReleaseRolledBack, Finish, D, L, DataTyped, Record, NoRecord
  <1>7. RollbackInv'
    <2>1. timers' \/ D'.timers BY <1>3, <1>5, <1>6 DEF IInv, RollbackInv
    <2>2. QED BY <1>3, <1>5, <1>6, <2>1, RollbackFrame DEF IInv
  <1>8. RollingBackInv'
    <2>1. /\ app.rel = D.to /\ L.state = "complete" /\ Restarted /\ panel.up /\ Live.port = D.port
          /\ Served(D.port) /\ timers
      BY <1>3 DEF IInv, RollingBackInv, Early, LifeOpen, DataOpen, Final, Unfinished, Opened, Reopening, Pausing, D
    <2>2. (/\ app.rel = D.to /\ L.state = "rolled_back" /\ Restarted /\ panel.up /\ Live.port = D.port
            /\ Served(D.port) /\ timers)'
      BY <1>2, <1>3, <1>5, <1>6, <2>1, Views DEF Env0, Fits, Live, Started, InPlace, Restarted, Served, Early, L, D, DataTyped, ReleaseRolledBack
    <2>3. QED BY <1>3, <1>4, <1>6, <2>2 DEF RollingBackInv, Early, LifeOpen, DataOpen, Final, Opened, Reopening, Pausing, Unfinished, D
  <1>9. app'.rel <= built BY <1>5 DEF IInv, FilesInv
  <1>10. QED BY <1>1, <1>2, <1>5, <1>6, <1>7, <1>8, <1>9, RollbackKeeps

LEMMA RollbackEnds == ASSUME IInv, op = "forward", of = "data", D.kind = "rollback", Complete PROVE IInv'
  <1>1. Step("complete") BY CompleteStep
  <1>2. TypeInv' /\ DataTyped /\ DataTyped' BY StepsTyped DEF SharedStep, IInv, TypeInv
  <1>3. /\ at = "complete" /\ op' = "idle" /\ todo' = <<>> /\ Unfinished("data") /\ ~Unfinished("life") /\ ~PendingJob
        /\ UNCHANGED <<backend, saved, restores>>
    <2>1. ~RollbackLeads("complete", at') BY DEF RollbackLeads, PauseLeads, OpenLeads
    <2>2. QED BY <1>1, <2>1, RollbackNext
  <1>4. UNCHANGED <<app, built, home, env, dist, dbs, panel, timers, site, job>> BY CompleteStep DEF files
  <1>5. L' = L /\ D'.state = "complete" /\ D'.clone = 0
    BY <1>2 DEF Complete, Finish, D, L, DataTyped, Record, NoRecord
  <1>6. ~Unfinished("life")' /\ ~Unfinished("data")' /\ ~PendingJob'
    BY <1>3, <1>4, <1>5 DEF Unfinished, PendingJob, L, D, Final
  <1>7. /\ app.rel = D.to /\ InPlace /\ dist[D.to] = Env0(D.to).setting /\ Fits(D.to, Env0(D.to).db)
        /\ Restarted /\ Live.port = D.port /\ Served(D.port) /\ timers /\ L.state = "rolled_back"
    BY <1>3 DEF IInv, RollbackInv, RollingBackInv, Opened, Reopening, D
  <1>8. Live = Env0(D.to) /\ Live' = Live BY <1>4, <1>7 DEF Live, Env0
  <1>9. OneInv' /\ FilesInv' BY <1>3, <1>4, <1>5, <1>6 DEF IInv, OneInv, FilesInv, PendingJob
  <1>10. RetainedInv' BY <1>5, <1>7 DEF RetainedInv
  <1>11. UpdateInv' /\ RollbackInv' /\ RestoreInv' BY <1>6 DEF UpdateInv, RollbackInv, RestoreInv
  <1>12. JobInv' BY <1>6 DEF JobInv, JobOpen, PendingJob, Final
  <1>13. SoundInv' BY <1>4, <1>7, <1>8 DEF SoundInv, Sound, InPlace, Restarted, Started, Served, Fits
  <1>14. QED BY <1>2, <1>3, <1>6, <1>9, <1>10, <1>11, <1>12, <1>13, IdleKeeps

-----------------------------------------------------------------------------
\* A restore, step by step.

LEMMA RestoreNext ==
  ASSUME IInv, op = "forward", of = "data", D.kind = "restore", NEW s, Step(s)
  PROVE  /\ at = s /\ of' = "data" /\ Unfinished("data") /\ ~Unfinished("life") /\ ~PendingJob
         /\ UNCHANGED <<backend, saved, restores>>
         /\ \/ op' = "idle" /\ s = "complete" /\ todo' = <<>>
            \/ op' = "forward" /\ s # "complete" /\ RestoreLeads(s, at') /\ todo' # <<>>
  <1>1. TypeInv /\ PlanInv /\ OneInv BY DEF IInv
  <1>2. Plan = "restore" /\ Last = "complete" BY DEF Plan, Last
  <1>3. Unfinished("data") /\ ~Unfinished("life") /\ ~PendingJob BY <1>1 DEF OneInv
  <1>4. /\ at = s /\ of' = of /\ UNCHANGED <<backend, helper, saved, bounds>>
        /\ \/ op' = "idle" /\ s = Last /\ todo' = <<>>
           \/ op' = op /\ Leads(Plan, s, at') /\ todo' # <<>>
    BY <1>1, Advance
  <1>5. Leads("restore", s, at') => RestoreLeads(s, at') BY DEF Leads
  <1>6. ~RestoreLeads("complete", at') BY DEF RestoreLeads, PauseLeads, OpenLeads
  <1>7. restores' = restores BY <1>4 DEF bounds
  <1>8. QED BY <1>2, <1>3, <1>4, <1>5, <1>6, <1>7

\* What a step of a restore has to keep that is not its last one.
LEMMA RestoreKeeps ==
  ASSUME IInv, op = "forward", of = "data", D.kind = "restore", NEW s, Step(s), s # "complete",
         TypeInv', UNCHANGED job, L' = L, Unfinished("data")', D'.kind = "restore",
         FilesInv', RetainedInv', RestoreInv', RestoringInv', SoundInv'
  PROVE  IInv'
  <1>1. /\ op' = "forward" /\ of' = "data" /\ Unfinished("data") /\ ~Unfinished("life") /\ ~PendingJob
        /\ todo' # <<>> /\ UNCHANGED <<backend, saved, restores>>
    BY RestoreNext
  <1>2. ~Unfinished("life")' /\ ~PendingJob' BY <1>1 DEF Unfinished, PendingJob, L
  <1>3. PlanInv'
    <2>1. Plan' = Plan BY <1>1 DEF Plan
    <2>2. QED BY <2>1, PlanKept DEF IInv
  <1>4. OneInv' BY <1>1, <1>2 DEF OneInv, PendingJob, Final
  <1>5. UpdateInv' /\ RollbackInv' BY <1>2 DEF UpdateInv, RollbackInv
  <1>6. JobInv' BY <1>2 DEF JobInv, JobOpen, PendingJob, Final
  <1>7. UpdatingInv' /\ RollingBackInv' /\ UndoingInv' /\ ChangingInv' /\ ChangingBackInv' /\ HelperInv'
    BY <1>1, <1>2 DEF HelperInv, UpdatingInv, RollingBackInv, UndoingInv, ChangingInv, ChangingBackInv
  <1>8. QED BY <1>3, <1>4, <1>5, <1>6, <1>7 DEF IInv

\* A step that leaves files, databases and backup alone.
LEMMA RestoreFrame ==
  ASSUME FilesInv, RetainedInv, RestoreInv, Unfinished("data"), Unfinished("data")', D.kind = "restore", L' = L,
         D'.kind = D.kind, D'.prev = D.prev, D'.to = D.to, D'.port = D.port, D'.clone = D.clone,
         D'.backup = D.backup, D'.state \in {D.state, "maintenance"},
         UNCHANGED <<app, built, home, env, dist, dbs, backend, saved, restores>>, timers' \/ D'.timers
  PROVE  FilesInv' /\ RetainedInv' /\ RestoreInv'
  <1>1. (\A r : Env0(r)' = Env0(r)) /\ Live' = Live BY DEF Env0, Live
  <1>2. (\A r, d : Fits(r, d)' = Fits(r, d)) /\ InPlace' = InPlace BY DEF Fits, InPlace
  <1>3. FilesInv' BY DEF FilesInv
  <1>4. RetainedInv'
    <2>1. \A d : Keeps(d)' = Keeps(d)
      <3>1. TAKE d
      <3>2. Fits(L.prev, d)' = Fits(L.prev, d) /\ Fits(L.prev, Env0(L.prev).db)' = Fits(L.prev, Env0(L.prev).db)
        BY <1>1 DEF Fits
      <3>3. QED BY <3>2 DEF Keeps
    <2>2. QED BY <1>1, <2>1 DEF RetainedInv
  <1>5. RestoreInv' BY <1>1, <1>2 DEF RestoreInv
  <1>6. QED BY <1>3, <1>4, <1>5

LEMMA RestorePrepare == ASSUME IInv, op = "forward", of = "data", D.kind = "restore", Clone PROVE IInv'
  <1>1. Step("clone") BY DEF Clone
  <1>2. TypeInv' /\ DataTyped /\ DataTyped' /\ of = "data" BY StepsTyped DEF SharedStep, IInv, TypeInv
  <1>3. /\ at = "clone" /\ op' = "forward" /\ of' = "data" /\ Unfinished("data") /\ ~Unfinished("life") /\ ~PendingJob
        /\ UNCHANGED <<backend, saved, restores>> /\ RestoreLeads("clone", at')
    BY <1>1, RestoreNext
  <1>4. at' = "maintenance" BY <1>3, RestoreOrder
  <1>5. UNCHANGED <<app, built, home, env, dist, panel, timers, site, job>> BY DEF Clone, files
  <1>6. D' = D /\ L' = L BY DEF Clone, D, L
  <1>7. PICK c \in saved : dbs' = [dbs EXCEPT ![D.clone] = c] BY <1>2 DEF Clone, D
  <1>8. /\ D.state = "preparing" /\ D.clone # 0 /\ Live.db # D.clone /\ Live' = Live /\ D.backup = {}
        /\ \A b \in saved : b.head = SchemaOf[app.rel]
    BY <1>3, <1>5 DEF IInv, RestoringInv, RestoreInv, Live
  <1>9. D.clone \in Database /\ Live.db \in Database /\ dbs'[D.clone] = c /\ \A d : d # D.clone => dbs'[d] = dbs[d]
    BY <1>2, <1>7, <1>8, Views DEF DataTyped, D
  <1>10. Unfinished("data")' BY <1>3, <1>6 DEF Unfinished, D, Final
  <1>11. FilesInv' /\ RetainedInv' /\ RestoreInv'
    <2>1. FilesInv' BY <1>3, <1>5, <1>6, <1>10 DEF IInv, FilesInv
    <2>2. RestoreInv'
      <3>1. \A r : Fits(r, Live.db)' = Fits(r, Live.db) BY <1>8, <1>9 DEF Fits
      <3>2. QED BY <1>3, <1>5, <1>6, <1>8, <3>1 DEF IInv, RestoreInv, InPlace
    <2>3. RetainedInv'
      <3>1. SUFFICES ASSUME L.state = "complete" PROVE RetainedInv' BY <1>6 DEF RetainedInv
      <3>2. /\ L.prev < L.to /\ dist[L.prev] = Env0(L.prev).setting /\ app.rel = L.to /\ Keeps(Live.db)
        BY <1>3, <3>1 DEF IInv, RetainedInv, D
      <3>3. Env0(L.prev).db # D.clone
        <4>1. home[L.prev] \in Release BY <1>2, Views DEF L, DataTyped
        <4>2. CASE home[L.prev] = home[app.rel] BY <1>8, <4>2 DEF Env0, Live
        <4>3. CASE home[L.prev] # home[app.rel] BY <1>3, <1>8, <4>1, <4>3 DEF IInv, RestoreInv, Env0, D
        <4>4. QED BY <4>2, <4>3
      <3>4. Env0(L.prev)' = Env0(L.prev) /\ L'.prev = L.prev BY <1>5, <1>6 DEF Env0
      <3>5. Keeps(Live.db)' BY <1>8, <1>9, <3>2, <3>3, <3>4 DEF Keeps, Fits
      <3>6. QED BY <1>5, <1>6, <1>8, <3>2, <3>4, <3>5 DEF RetainedInv
    <2>4. QED BY <2>1, <2>2, <2>3
  <1>12. RestoringInv'
    <2>1. /\ D.state = "preparing" /\ (\A b \in saved : b.head = SchemaOf[app.rel]) /\ Live.db # D.clone
          /\ D.clone # 0
      BY <1>3 DEF IInv, RestoringInv, Early, LifeOpen, DataOpen, Final, Unfinished, Opened, Reopening, Pausing, D
    <2>2. (/\ D.state = "preparing" /\ (\A b \in saved : b.head = SchemaOf[app.rel]) /\ Live.db # D.clone
            /\ (backend # "sqlite" => D.clone # 0 /\ dbs[D.clone].head = SchemaOf[app.rel]))'
      BY <1>3, <1>5, <1>6, <1>8, <1>9
    <2>3. QED BY <1>3, <1>4, <1>6, <2>2 DEF RestoringInv, Early, LifeOpen, DataOpen, Final, Opened, Reopening, Pausing, Unfinished, D
  <1>13. SoundInv'
    <2>1. Sound BY <1>3, <1>8 DEF IInv, SoundInv, Settled, LifeOpen, DataOpen, JobOpen, PendingJob, Unfinished, L, Final
    <2>2. Started' = Started /\ InPlace' = InPlace BY <1>5, <1>8 DEF Started, InPlace
    <2>3. QED BY <1>5, <1>8, <1>9, <2>1, <2>2 DEF SoundInv, Sound, Fits, Served
  <1>14. Unfinished("data")' /\ D'.kind = "restore" BY <1>3, <1>6 DEF Unfinished, D, Final
  <1>15. QED BY <1>1, <1>2, <1>5, <1>6, <1>11, <1>12, <1>13, <1>14, RestoreKeeps

LEMMA RestoreMaintenance == ASSUME IInv, op = "forward", of = "data", D.kind = "restore", Maintenance PROVE IInv'
  <1>1. Step("maintenance") BY DEF Maintenance
  <1>2. TypeInv' /\ DataTyped /\ DataTyped' /\ of = "data" BY StepsTyped DEF SharedStep, IInv, TypeInv
  <1>3. /\ at = "maintenance" /\ op' = "forward" /\ of' = "data" /\ Unfinished("data") /\ ~Unfinished("life") /\ ~PendingJob
        /\ UNCHANGED <<backend, saved, restores>> /\ RestoreLeads("maintenance", at')
    BY <1>1, RestoreNext
  <1>4. at' = "close" BY <1>3, RestoreOrder
  <1>5. UNCHANGED <<app, built, home, env, dist, dbs, panel, timers, site, job>> BY DEF Maintenance, files
  <1>6. /\ L' = L /\ D'.kind = D.kind /\ D'.prev = D.prev /\ D'.to = D.to /\ D'.port = D.port /\ D'.clone = D.clone
        /\ D'.state = "maintenance" /\ D'.timers = D.timers /\ D'.backup = D.backup
    BY <1>2 DEF Maintenance, Set, D, L, DataTyped, Record
  <1>7. FilesInv' /\ RetainedInv' /\ RestoreInv'
    <2>1. timers' \/ D'.timers BY <1>3, <1>5, <1>6 DEF IInv, RestoreInv
    <2>2. Unfinished("data")' BY <1>3, <1>6 DEF Unfinished, D, Final
    <2>3. QED BY <1>3, <1>5, <1>6, <2>1, <2>2, RestoreFrame DEF IInv
  <1>8. RestoringInv'
    <2>1. /\ D.state = "preparing" /\ (\A b \in saved : b.head = SchemaOf[app.rel]) /\ Live.db # D.clone
          /\ (backend # "sqlite" => D.clone # 0 /\ dbs[D.clone].head = SchemaOf[app.rel])
      BY <1>3 DEF IInv, RestoringInv
    <2>2. timers BY <1>3, <2>1 DEF IInv, SoundInv, Settled, Sound, LifeOpen, DataOpen, JobOpen, PendingJob, Unfinished, L, Final
    <2>3. Live' = Live BY <1>5 DEF Live
    <2>4. QED BY <1>3, <1>4, <1>5, <1>6, <2>1, <2>2, <2>3 DEF RestoringInv, DataOpen, Final, Reopening, Pausing
  <1>9. SoundInv'
    <2>1. D'.state \notin Final \cup {"preparing"} BY <1>3, <1>6 DEF IInv, RestoringInv, Unfinished, D, Final
    <2>2. QED BY <2>1 DEF SoundInv, Settled, DataOpen
  <1>10. Unfinished("data")' /\ D'.kind = "restore" BY <1>3, <1>6 DEF Unfinished, D, Final
  <1>11. QED BY <1>1, <1>2, <1>5, <1>6, <1>7, <1>8, <1>9, <1>10, RestoreKeeps

LEMMA RestoreCloseSite == ASSUME IInv, op = "forward", of = "data", D.kind = "restore", CloseSite PROVE IInv'
  <1>1. Step("close") BY DEF CloseSite
  <1>2. TypeInv' /\ DataTyped /\ DataTyped' /\ of = "data" BY StepsTyped DEF SharedStep, IInv, TypeInv
  <1>3. /\ at = "close" /\ op' = "forward" /\ of' = "data" /\ Unfinished("data") /\ ~Unfinished("life") /\ ~PendingJob
        /\ UNCHANGED <<backend, saved, restores>> /\ RestoreLeads("close", at')
    BY <1>1, RestoreNext
  <1>4. at' = "note" BY <1>3, RestoreOrder
  <1>5. UNCHANGED <<app, built, home, env, dist, dbs, panel, timers, job>> BY DEF CloseSite, files
  <1>6. D' = D /\ L' = L BY DEF CloseSite, D, L
  <1>7. FilesInv' /\ RetainedInv' /\ RestoreInv'
    <2>1. timers' \/ D'.timers BY <1>3, <1>5, <1>6 DEF IInv, RestoreInv
    <2>2. Unfinished("data")' BY <1>3, <1>6 DEF Unfinished, D, Final
    <2>3. QED BY <1>3, <1>5, <1>6, <2>1, <2>2, RestoreFrame DEF IInv
  <1>8. RestoringInv'
    <2>1. /\ D.state # "preparing" /\ (\A b \in saved : b.head = SchemaOf[app.rel]) /\ Live.db # D.clone
          /\ (backend # "sqlite" => D.clone # 0 /\ dbs[D.clone].head = SchemaOf[app.rel]) /\ timers
      BY <1>3 DEF IInv, RestoringInv, Early, LifeOpen, DataOpen, Final, Unfinished, Opened, Reopening, Pausing, D
    <2>2. (/\ D.state # "preparing" /\ (\A b \in saved : b.head = SchemaOf[app.rel]) /\ Live.db # D.clone
            /\ (backend # "sqlite" => D.clone # 0 /\ dbs[D.clone].head = SchemaOf[app.rel]) /\ timers)'
      BY <1>2, <1>3, <1>5, <1>6, <2>1, Views DEF Env0, Fits, Live, Started, InPlace, Restarted, Served, Early, L, D, DataTyped, CloseSite
    <2>3. QED BY <1>3, <1>4, <1>6, <2>2 DEF RestoringInv, Early, LifeOpen, DataOpen, Final, Opened, Reopening, Pausing, Unfinished, D
  <1>9. SoundInv'
    <2>1. D'.state \notin Final \cup {"preparing"} BY <1>3, <1>6 DEF IInv, RestoringInv, Unfinished, D, Final
    <2>2. QED BY <2>1 DEF SoundInv, Settled, DataOpen
  <1>10. Unfinished("data")' /\ D'.kind = "restore" BY <1>3, <1>6 DEF Unfinished, D, Final
  <1>11. QED BY <1>1, <1>2, <1>5, <1>6, <1>7, <1>8, <1>9, <1>10, RestoreKeeps

LEMMA RestoreNoteTimers == ASSUME IInv, op = "forward", of = "data", D.kind = "restore", NoteTimers PROVE IInv'
  <1>1. Step("note") BY DEF NoteTimers
  <1>2. TypeInv' /\ DataTyped /\ DataTyped' /\ of = "data" BY StepsTyped DEF SharedStep, IInv, TypeInv
  <1>3. /\ at = "note" /\ op' = "forward" /\ of' = "data" /\ Unfinished("data") /\ ~Unfinished("life") /\ ~PendingJob
        /\ UNCHANGED <<backend, saved, restores>> /\ RestoreLeads("note", at')
    BY <1>1, RestoreNext
  <1>4. at' = "stop_timers" BY <1>3, RestoreOrder
  <1>5. UNCHANGED <<app, built, home, env, dist, dbs, panel, timers, site, job>> BY DEF NoteTimers, files
  <1>6. /\ L' = L /\ D'.kind = D.kind /\ D'.prev = D.prev /\ D'.to = D.to /\ D'.port = D.port /\ D'.clone = D.clone
        /\ D'.state = D.state /\ D'.timers = timers /\ D'.backup = D.backup
    BY <1>2 DEF NoteTimers, Set, D, L, DataTyped, Record
  <1>7. FilesInv' /\ RetainedInv' /\ RestoreInv'
    <2>1. timers' \/ D'.timers
      <3>1. DataOpen BY <1>3 DEF IInv, RestoringInv, DataOpen, Unfinished, D, Final
      <3>2. timers BY <1>3, <3>1 DEF IInv, RestoringInv, Pausing, D
      <3>3. QED BY <1>5, <1>6, <3>2
    <2>2. Unfinished("data")' BY <1>3, <1>6 DEF Unfinished, D, Final
    <2>3. QED BY <1>3, <1>5, <1>6, <2>1, <2>2, RestoreFrame DEF IInv
  <1>8. RestoringInv'
    <2>1. /\ D.state # "preparing" /\ (\A b \in saved : b.head = SchemaOf[app.rel]) /\ Live.db # D.clone
          /\ (backend # "sqlite" => D.clone # 0 /\ dbs[D.clone].head = SchemaOf[app.rel]) /\ timers
      BY <1>3 DEF IInv, RestoringInv, Early, LifeOpen, DataOpen, Final, Unfinished, Opened, Reopening, Pausing, D
    <2>2. (/\ D.state # "preparing" /\ (\A b \in saved : b.head = SchemaOf[app.rel]) /\ Live.db # D.clone
            /\ (backend # "sqlite" => D.clone # 0 /\ dbs[D.clone].head = SchemaOf[app.rel]) /\ D.timers)'
      BY <1>2, <1>3, <1>5, <1>6, <2>1, Views DEF Env0, Fits, Live, Started, InPlace, Restarted, Served, Early, L, D, DataTyped, NoteTimers
    <2>3. QED BY <1>3, <1>4, <1>6, <2>2 DEF RestoringInv, Early, LifeOpen, DataOpen, Final, Opened, Reopening, Pausing, Unfinished, D
  <1>9. SoundInv'
    <2>1. D'.state \notin Final \cup {"preparing"} BY <1>3, <1>6 DEF IInv, RestoringInv, Unfinished, D, Final
    <2>2. QED BY <2>1 DEF SoundInv, Settled, DataOpen
  <1>10. Unfinished("data")' /\ D'.kind = "restore" BY <1>3, <1>6 DEF Unfinished, D, Final
  <1>11. QED BY <1>1, <1>2, <1>5, <1>6, <1>7, <1>8, <1>9, <1>10, RestoreKeeps

LEMMA RestoreStopTimers == ASSUME IInv, op = "forward", of = "data", D.kind = "restore", StopTimers PROVE IInv'
  <1>1. Step("stop_timers") BY DEF StopTimers
  <1>2. TypeInv' /\ DataTyped /\ DataTyped' /\ of = "data" BY StepsTyped DEF SharedStep, IInv, TypeInv
  <1>3. /\ at = "stop_timers" /\ op' = "forward" /\ of' = "data" /\ Unfinished("data") /\ ~Unfinished("life") /\ ~PendingJob
        /\ UNCHANGED <<backend, saved, restores>> /\ RestoreLeads("stop_timers", at')
    BY <1>1, RestoreNext
  <1>4. at' = "stop_panel" BY <1>3, RestoreOrder
  <1>5. UNCHANGED <<app, built, home, env, dist, dbs, panel, site, job>> BY DEF StopTimers, files
  <1>6. D' = D /\ L' = L BY DEF StopTimers, D, L
  <1>7. FilesInv' /\ RetainedInv' /\ RestoreInv'
    <2>1. timers' \/ D'.timers
      <3>1. DataOpen BY <1>3 DEF IInv, RestoringInv, DataOpen, Unfinished, D, Final
      <3>2. D.timers BY <1>3, <3>1 DEF IInv, RestoringInv, Pausing, D
      <3>3. QED BY <1>5, <1>6, <3>2
    <2>2. Unfinished("data")' BY <1>3, <1>6 DEF Unfinished, D, Final
    <2>3. QED BY <1>3, <1>5, <1>6, <2>1, <2>2, RestoreFrame DEF IInv
  <1>8. RestoringInv'
    <2>1. /\ D.state # "preparing" /\ (\A b \in saved : b.head = SchemaOf[app.rel]) /\ Live.db # D.clone
          /\ (backend # "sqlite" => D.clone # 0 /\ dbs[D.clone].head = SchemaOf[app.rel]) /\ D.timers
      BY <1>3 DEF IInv, RestoringInv, Early, LifeOpen, DataOpen, Final, Unfinished, Opened, Reopening, Pausing, D
    <2>2. (/\ D.state # "preparing" /\ (\A b \in saved : b.head = SchemaOf[app.rel]) /\ Live.db # D.clone
            /\ (backend # "sqlite" => D.clone # 0 /\ dbs[D.clone].head = SchemaOf[app.rel]))'
      BY <1>2, <1>3, <1>5, <1>6, <2>1, Views DEF Env0, Fits, Live, Started, InPlace, Restarted, Served, Early, L, D, DataTyped, StopTimers
    <2>3. QED BY <1>3, <1>4, <1>6, <2>2 DEF RestoringInv, Early, LifeOpen, DataOpen, Final, Opened, Reopening, Pausing, Unfinished, D
  <1>9. SoundInv'
    <2>1. D'.state \notin Final \cup {"preparing"} BY <1>3, <1>6 DEF IInv, RestoringInv, Unfinished, D, Final
    <2>2. QED BY <2>1 DEF SoundInv, Settled, DataOpen
  <1>10. Unfinished("data")' /\ D'.kind = "restore" BY <1>3, <1>6 DEF Unfinished, D, Final
  <1>11. QED BY <1>1, <1>2, <1>5, <1>6, <1>7, <1>8, <1>9, <1>10, RestoreKeeps

LEMMA RestoreStopPanel == ASSUME IInv, op = "forward", of = "data", D.kind = "restore", StopPanel PROVE IInv'
  <1>1. Step("stop_panel") BY DEF StopPanel
  <1>2. TypeInv' /\ DataTyped /\ DataTyped' /\ of = "data" BY StepsTyped DEF SharedStep, IInv, TypeInv
  <1>3. /\ at = "stop_panel" /\ op' = "forward" /\ of' = "data" /\ Unfinished("data") /\ ~Unfinished("life") /\ ~PendingJob
        /\ UNCHANGED <<backend, saved, restores>> /\ RestoreLeads("stop_panel", at')
    BY <1>1, RestoreNext
  <1>4. at' = "backup" BY <1>3, RestoreOrder
  <1>5. UNCHANGED <<app, built, home, env, dist, dbs, timers, site, job>> BY DEF StopPanel, files
  <1>6. D' = D /\ L' = L BY DEF StopPanel, D, L
  <1>7. FilesInv' /\ RetainedInv' /\ RestoreInv'
    <2>1. timers' \/ D'.timers BY <1>3, <1>5, <1>6 DEF IInv, RestoreInv
    <2>2. Unfinished("data")' BY <1>3, <1>6 DEF Unfinished, D, Final
    <2>3. QED BY <1>3, <1>5, <1>6, <2>1, <2>2, RestoreFrame DEF IInv
  <1>8. RestoringInv'
    <2>1. /\ D.state # "preparing" /\ (\A b \in saved : b.head = SchemaOf[app.rel]) /\ Live.db # D.clone
          /\ (backend # "sqlite" => D.clone # 0 /\ dbs[D.clone].head = SchemaOf[app.rel])
      BY <1>3 DEF IInv, RestoringInv, Early, LifeOpen, DataOpen, Final, Unfinished, Opened, Reopening, Pausing, D
    <2>2. (/\ D.state # "preparing" /\ (\A b \in saved : b.head = SchemaOf[app.rel]) /\ Live.db # D.clone
            /\ (backend # "sqlite" => D.clone # 0 /\ dbs[D.clone].head = SchemaOf[app.rel]))'
      BY <1>2, <1>3, <1>5, <1>6, <2>1, Views DEF Env0, Fits, Live, Started, InPlace, Restarted, Served, Early, L, D, DataTyped, StopPanel
    <2>3. QED BY <1>3, <1>4, <1>6, <2>2 DEF RestoringInv, Early, LifeOpen, DataOpen, Final, Opened, Reopening, Pausing, Unfinished, D
  <1>9. SoundInv'
    <2>1. D'.state \notin Final \cup {"preparing"} BY <1>3, <1>6 DEF IInv, RestoringInv, Unfinished, D, Final
    <2>2. QED BY <2>1 DEF SoundInv, Settled, DataOpen
  <1>10. Unfinished("data")' /\ D'.kind = "restore" BY <1>3, <1>6 DEF Unfinished, D, Final
  <1>11. QED BY <1>1, <1>2, <1>5, <1>6, <1>7, <1>8, <1>9, <1>10, RestoreKeeps

LEMMA RestoreFinalBackup == ASSUME IInv, op = "forward", of = "data", D.kind = "restore", FinalBackup PROVE IInv'
  <1>1. Step("backup") BY DEF FinalBackup
  <1>2. TypeInv' /\ DataTyped /\ DataTyped' /\ of = "data" BY StepsTyped DEF SharedStep, IInv, TypeInv
  <1>3. /\ at = "backup" /\ op' = "forward" /\ of' = "data" /\ Unfinished("data") /\ ~Unfinished("life") /\ ~PendingJob
        /\ UNCHANGED <<backend, saved, restores>> /\ RestoreLeads("backup", at')
    BY <1>1, RestoreNext
  <1>4. at' = "load" BY <1>3, RestoreOrder
  <1>5. UNCHANGED <<app, built, home, env, dist, dbs, panel, timers, site, job>> BY DEF FinalBackup, files
  <1>6. /\ L' = L /\ D'.kind = D.kind /\ D'.prev = D.prev /\ D'.to = D.to /\ D'.port = D.port /\ D'.clone = D.clone
        /\ D'.state = "restoring" /\ D'.timers = D.timers /\ D'.backup = {[db |-> dbs[Live.db], env |-> Live]}
    BY <1>2 DEF FinalBackup, Set, D, L, DataTyped, Record
  <1>7. /\ D.state \in {"maintenance", "restoring"} /\ Live.db # D.clone /\ Live' = Live /\ ~Unfinished("life")'
        /\ (backend # "sqlite" => D.clone # 0 /\ dbs[D.clone].head = SchemaOf[app.rel])
        /\ \A b \in saved : b.head = SchemaOf[app.rel]
    BY <1>3, <1>5, <1>6 DEF IInv, RestoringInv, RestoreInv, Live, D, Unfinished, L
  <1>8. Live.db <= restores + 1 /\ (backend = "sqlite" => Live.db = 1) BY <1>2, Views DEF IInv, FilesInv, Live
  <1>9. FilesInv' /\ RetainedInv' /\ RestoreInv'
    <2>1. Unfinished("data")' BY <1>6 DEF Unfinished, D, Final
    <2>2. (\A r : Env0(r)' = Env0(r)) /\ (\A r, d : Fits(r, d)' = Fits(r, d)) /\ InPlace' = InPlace
      BY <1>5 DEF Env0, Fits, InPlace
    <2>3. FilesInv' BY <1>3, <1>5, <1>6, <2>1 DEF IInv, FilesInv
    <2>4. RetainedInv'
      <3>1. \A d : Keeps(d)' = Keeps(d)
        <4>1. TAKE d
        <4>2. Fits(L.prev, d)' = Fits(L.prev, d) /\ Fits(L.prev, Env0(L.prev).db)' = Fits(L.prev, Env0(L.prev).db)
          BY <1>5, <1>6 DEF Env0, Fits
        <4>3. QED BY <4>2 DEF Keeps
      <3>2. L.state = "complete" => Keeps(Live.db) BY <1>3 DEF IInv, RetainedInv
      <3>3. QED BY <1>3, <1>5, <1>6, <1>7, <2>2, <3>1, <3>2 DEF IInv, RetainedInv
    <2>5. RestoreInv'
      <3>1. /\ D.prev = app.rel /\ D.to = app.rel /\ InPlace /\ dist[app.rel] = Live.setting /\ Live.port = D.port
            /\ Fits(app.rel, Live.db) /\ (timers \/ D.timers)
            /\ D.clone # 0 => \A r \in Release : r # home[app.rel] => env[r].db # D.clone
        BY <1>3 DEF IInv, RestoreInv
      <3>2. Compatible(SchemaOf[app.rel], dbs[Live.db].head) BY <3>1 DEF Fits
      <3>3. QED BY <1>3, <1>5, <1>6, <1>7, <1>8, <2>2, <3>1, <3>2 DEF RestoreInv
    <2>6. QED BY <2>3, <2>4, <2>5
  <1>10. RestoringInv'
    <2>1. /\ D.state # "preparing" /\ (\A b \in saved : b.head = SchemaOf[app.rel]) /\ Live.db # D.clone
          /\ (backend # "sqlite" => D.clone # 0 /\ dbs[D.clone].head = SchemaOf[app.rel])
      BY <1>3 DEF IInv, RestoringInv, Early, LifeOpen, DataOpen, Final, Unfinished, Opened, Reopening, Pausing, D
    <2>2. (/\ D.state # "preparing" /\ (\A b \in saved : b.head = SchemaOf[app.rel]) /\ Live.db # D.clone
            /\ (backend # "sqlite" => D.clone # 0 /\ dbs[D.clone].head = SchemaOf[app.rel])
            /\ D.backup # {})'
      BY <1>3, <1>5, <1>6, <1>7
    <2>3. QED BY <1>3, <1>4, <1>6, <2>2 DEF RestoringInv, Early, LifeOpen, DataOpen, Final, Opened, Reopening, Pausing, Unfinished, D
  <1>11. SoundInv'
    <2>1. D'.state \notin Final \cup {"preparing"} BY <1>3, <1>6 DEF IInv, RestoringInv, Unfinished, D, Final
    <2>2. QED BY <2>1 DEF SoundInv, Settled, DataOpen
  <1>12. Unfinished("data")' /\ D'.kind = "restore" BY <1>3, <1>6 DEF Unfinished, D, Final
  <1>13. QED BY <1>1, <1>2, <1>5, <1>6, <1>9, <1>10, <1>11, <1>12, RestoreKeeps

LEMMA RestoreSwap == ASSUME IInv, op = "forward", of = "data", D.kind = "restore", Load PROVE IInv'
  <1>1. Step("load") BY DEF Load
  <1>2. TypeInv' /\ DataTyped /\ DataTyped' /\ of = "data" BY StepsTyped DEF SharedStep, IInv, TypeInv
  <1>3. /\ at = "load" /\ op' = "forward" /\ of' = "data" /\ Unfinished("data") /\ ~Unfinished("life") /\ ~PendingJob
        /\ UNCHANGED <<backend, saved, restores>> /\ RestoreLeads("load", at')
    BY <1>1, RestoreNext
  <1>4. at' = "restart" BY <1>3, RestoreOrder
  <1>5. UNCHANGED <<app, built, home, dist, panel, timers, site, job>> BY DEF Load, files
  <1>6. D' = D /\ L' = L BY DEF Load, D, L
  <1>7. /\ D.state # "preparing" /\ D.backup # {} /\ (\A b \in saved : b.head = SchemaOf[app.rel])
        /\ (backend # "sqlite" => D.clone # 0 /\ dbs[D.clone].head = SchemaOf[app.rel])
    BY <1>3 DEF IInv, RestoringInv
  <1>8. /\ D.prev = app.rel /\ D.to = app.rel /\ InPlace /\ dist[app.rel] = Live.setting /\ Live.port = D.port
        /\ D.state \in {"preparing", "maintenance", "restoring"} /\ (timers \/ D.timers) /\ Fits(app.rel, Live.db)
        /\ \A b \in D.backup :
             /\ b.env.setting = Live.setting /\ b.env.port = D.port /\ Compatible(SchemaOf[app.rel], b.db.head)
             /\ Fits(app.rel, b.env.db) /\ b.env.db <= restores + 1 /\ (backend = "sqlite" => b.env.db = 1)
        /\ D.clone # 0 => /\ \A r \in Release : r # home[app.rel] => env[r].db # D.clone
                          /\ \A b \in D.backup : b.env.db # D.clone
    BY <1>3 DEF IInv, RestoreInv
  <1>9. Unfinished("data")' /\ InPlace' = InPlace BY <1>3, <1>5, <1>6 DEF Unfinished, D, InPlace
  <1>10. ASSUME backend = "sqlite" PROVE FilesInv' /\ RetainedInv' /\ RestoreInv'
    <2>1. UNCHANGED env /\ Live' = Live BY <1>5, <1>10 DEF Load, Live
    <2>2. PICK c \in saved : dbs' = [dbs EXCEPT ![Live.db] = c] BY <1>10 DEF Load
    <2>3. Live.db = 1 /\ (\A r \in Release : Env0(r).db = 1 /\ Env0(r)' = Env0(r)) /\ D.clone = 0
      BY <1>2, <1>5, <1>10, <2>1, Views DEF IInv, FilesInv, Live, Env0, DataTyped
    <2>4. dbs'[1].head = SchemaOf[app.rel] BY <1>2, <1>7, <2>2, <2>3, Views DEF DataTyped
    <2>5. FilesInv' BY <1>3, <1>5, <1>6, <1>9, <2>1 DEF IInv, FilesInv
    <2>6. Fits(app.rel, 1)' BY <1>5, <2>4 DEF Fits, Compatible
    <2>7. RestoreInv'
      <3>1. \A d : d = 1 => Fits(app.rel, d)' BY <1>5, <2>6 DEF Fits
      <3>2. Live' = Live /\ Live.db = 1 /\ D' = D BY <1>6, <2>1, <2>3
      <3>3. QED BY <1>3, <1>5, <1>6, <1>7, <1>8, <1>9, <1>10, <2>3, <3>1, <3>2 DEF RestoreInv
    <2>8. RetainedInv'
      <3>1. L.prev \in Release /\ L'.prev = L.prev BY <1>2, <1>6, Views DEF L
      <3>2. Keeps(1)' BY <2>3, <3>1 DEF Keeps, Fits
      <3>3. QED BY <1>3, <1>5, <1>6, <1>8, <1>10, <2>1, <2>3, <3>1, <3>2 DEF IInv, RetainedInv, Keeps
    <2>9. QED BY <2>5, <2>7, <2>8
  <1>11. ASSUME backend # "sqlite" PROVE FilesInv' /\ RetainedInv' /\ RestoreInv'
    <2>1. UNCHANGED dbs /\ env' = [env EXCEPT ![home[app.rel]] = [Live EXCEPT !.db = D.clone]]
      BY <1>2, <1>11 DEF Load, WriteEnv, D
    <2>2. /\ D.clone \in Database /\ D.clone <= restores + 1 /\ home[app.rel] \in Release
          /\ \A r \in Release : r # home[app.rel] => env'[r] = env[r]
          /\ env'[home[app.rel]] = Live' /\ Live' = [Live EXCEPT !.db = D.clone]
          /\ Live'.db = D.clone /\ Live'.setting = Live.setting /\ Live'.port = Live.port
      <3>1. D.clone \in Database /\ D.clone <= restores + 1 BY <1>2, <1>7, <1>11, Views DEF IInv, FilesInv, D
      <3>2. Live = env[home[app.rel]] /\ Live' = env'[home[app.rel]] BY <1>5 DEF Live
      <3>3. QED BY <1>2, <2>1, <3>1, <3>2, Views DEF DataTyped, Env
    <2>3. \A r \in Release : env'[r].db <= restores + 1
      <3>1. TAKE r \in Release
      <3>2. CASE r = home[app.rel] BY <2>2, <3>2
      <3>3. CASE r # home[app.rel] BY <2>2, <3>3 DEF IInv, FilesInv
      <3>4. QED BY <3>2, <3>3
    <2>4. FilesInv' BY <1>3, <1>5, <1>6, <1>9, <1>11, <2>3 DEF IInv, FilesInv
    <2>5. \A r, d : Fits(r, d)' = Fits(r, d) BY <2>1 DEF Fits
    <2>6. Fits(app.rel, D.clone) BY <1>7, <1>11 DEF Fits, Compatible
    <2>7. RestoreInv'
      <3>1. \A b \in D'.backup : Fits(app.rel, b.env.db)' BY <1>5, <1>6, <1>8, <2>5
      <3>2. QED BY <1>3, <1>5, <1>6, <1>7, <1>8, <1>9, <1>11, <2>2, <2>5, <2>6, <3>1 DEF RestoreInv
    <2>8. RetainedInv'
      <3>1. SUFFICES ASSUME L.state = "complete" PROVE RetainedInv' BY <1>6 DEF RetainedInv
      <3>2. /\ L.prev < L.to /\ dist[L.prev] = Env0(L.prev).setting /\ app.rel = L.to /\ Keeps(Live.db)
            /\ home[L.prev] # home[L.to] => \A b \in D.backup : Keeps(b.env.db)
        BY <1>3, <3>1 DEF IInv, RetainedInv, D
      <3>3. home[L.prev] \in Release /\ L'.prev = L.prev /\ L'.to = L.to BY <1>2, <1>6, Views DEF L, DataTyped
      <3>4. CASE home[L.prev] = home[app.rel]
        <4>1. Env0(L.prev) = Live /\ Env0(L.prev)' = Live' BY <1>5, <3>3, <3>4 DEF Env0, Live
        <4>2. Keeps(Live.db)' BY <4>1, <3>3 DEF Keeps, Fits
        <4>3. QED BY <1>5, <1>6, <2>2, <3>2, <3>3, <3>4, <4>1, <4>2 DEF RetainedInv
      <3>5. CASE home[L.prev] # home[app.rel]
        <4>1. Env0(L.prev)' = Env0(L.prev) BY <1>5, <2>2, <3>3, <3>5 DEF Env0
        <4>2. \A d : Keeps(d)' = (Fits(L.prev, d) => Fits(L.prev, Env0(L.prev).db))
          BY <2>1, <3>3, <4>1 DEF Keeps, Fits
        <4>3. Keeps(D.clone)'
          <5>1. dbs[D.clone].head = SchemaOf[app.rel] BY <1>7, <1>11
          <5>2. Fits(L.prev, D.clone) /\ Fits(app.rel, Live.db) => Fits(L.prev, Live.db)
            BY <5>1 DEF Fits, Compatible
          <5>3. QED BY <1>6, <1>8, <3>2, <4>2, <5>2 DEF Keeps
        <4>4. QED BY <1>5, <1>6, <2>2, <3>2, <3>3, <4>1, <4>2, <4>3 DEF RetainedInv, Keeps
      <3>6. QED BY <3>4, <3>5
    <2>9. QED BY <2>4, <2>7, <2>8
  <1>12. FilesInv' /\ RetainedInv' /\ RestoreInv' BY <1>10, <1>11
  <1>13. RestoringInv'
    <2>1. /\ D.state # "preparing" /\ (\A b \in saved : b.head = SchemaOf[app.rel]) /\ Live.db # D.clone
          /\ (backend # "sqlite" => D.clone # 0 /\ dbs[D.clone].head = SchemaOf[app.rel])
          /\ D.backup # {}
      BY <1>3 DEF IInv, RestoringInv, Early, LifeOpen, DataOpen, Final, Unfinished, Opened, Reopening, Pausing, D
    <2>2. (/\ D.state # "preparing")' BY <1>6, <2>1
    <2>3. QED BY <1>3, <1>4, <1>6, <2>2 DEF RestoringInv, Early, LifeOpen, DataOpen, Final, Opened, Reopening, Pausing, Unfinished, D
  <1>14. SoundInv'
    <2>1. D'.state \notin Final \cup {"preparing"} BY <1>3, <1>6 DEF IInv, RestoringInv, Unfinished, D, Final
    <2>2. QED BY <2>1 DEF SoundInv, Settled, DataOpen
  <1>15. Unfinished("data")' /\ D'.kind = "restore" BY <1>3, <1>6 DEF Unfinished, D, Final
  <1>16. QED BY <1>1, <1>2, <1>5, <1>6, <1>12, <1>13, <1>14, <1>15, RestoreKeeps

LEMMA RestoreRestart == ASSUME IInv, op = "forward", of = "data", D.kind = "restore", Restart PROVE IInv'
  <1>1. Step("restart") BY DEF Restart
  <1>2. TypeInv' /\ DataTyped /\ DataTyped' /\ of = "data" BY StepsTyped DEF SharedStep, IInv, TypeInv
  <1>3. /\ at = "restart" /\ op' = "forward" /\ of' = "data" /\ Unfinished("data") /\ ~Unfinished("life") /\ ~PendingJob
        /\ UNCHANGED <<backend, saved, restores>> /\ RestoreLeads("restart", at')
    BY <1>1, RestoreNext
  <1>4. at' = "health" BY <1>3, RestoreOrder
  <1>5. UNCHANGED <<app, built, home, env, dist, dbs, timers, site, job>> BY DEF Restart, files
  <1>6. D' = D /\ L' = L BY DEF Restart, D, L
  <1>7. FilesInv' /\ RetainedInv' /\ RestoreInv'
    <2>1. timers' \/ D'.timers BY <1>3, <1>5, <1>6 DEF IInv, RestoreInv
    <2>2. Unfinished("data")' BY <1>3, <1>6 DEF Unfinished, D, Final
    <2>3. QED BY <1>3, <1>5, <1>6, <2>1, <2>2, RestoreFrame DEF IInv
  <1>8. RestoringInv'
    <2>1. /\ D.state # "preparing"
      BY <1>3 DEF IInv, RestoringInv, Early, LifeOpen, DataOpen, Final, Unfinished, Opened, Reopening, Pausing, D
    <2>2. (/\ D.state # "preparing" /\ Restarted)'
      BY <1>2, <1>3, <1>5, <1>6, <2>1, Views DEF Env0, Fits, Live, Started, InPlace, Restarted, Served, Early, L, D, DataTyped, Restart
    <2>3. QED BY <1>3, <1>4, <1>6, <2>2 DEF RestoringInv, Early, LifeOpen, DataOpen, Final, Opened, Reopening, Pausing, Unfinished, D
  <1>9. SoundInv'
    <2>1. D'.state \notin Final \cup {"preparing"} BY <1>3, <1>6 DEF IInv, RestoringInv, Unfinished, D, Final
    <2>2. QED BY <2>1 DEF SoundInv, Settled, DataOpen
  <1>10. Unfinished("data")' /\ D'.kind = "restore" BY <1>3, <1>6 DEF Unfinished, D, Final
  <1>11. QED BY <1>1, <1>2, <1>5, <1>6, <1>7, <1>8, <1>9, <1>10, RestoreKeeps

LEMMA RestoreHealth == ASSUME IInv, op = "forward", of = "data", D.kind = "restore", Health PROVE IInv'
  <1>1. Step("health") BY DEF Health
  <1>2. TypeInv' /\ DataTyped /\ DataTyped' /\ of = "data" BY StepsTyped DEF SharedStep, IInv, TypeInv
  <1>3. /\ at = "health" /\ op' = "forward" /\ of' = "data" /\ Unfinished("data") /\ ~Unfinished("life") /\ ~PendingJob
        /\ UNCHANGED <<backend, saved, restores>> /\ RestoreLeads("health", at')
    BY <1>1, RestoreNext
  <1>4. at' = "open" BY <1>3, RestoreOrder
  <1>5. UNCHANGED <<app, built, home, env, dist, dbs, panel, timers, site, job>> BY DEF Health, files
  <1>6. D' = D /\ L' = L BY DEF Health, D, L
  <1>7. FilesInv' /\ RetainedInv' /\ RestoreInv'
    <2>1. timers' \/ D'.timers BY <1>3, <1>5, <1>6 DEF IInv, RestoreInv
    <2>2. Unfinished("data")' BY <1>3, <1>6 DEF Unfinished, D, Final
    <2>3. QED BY <1>3, <1>5, <1>6, <2>1, <2>2, RestoreFrame DEF IInv
  <1>8. RestoringInv'
    <2>1. /\ D.state # "preparing" /\ Restarted
      BY <1>3 DEF IInv, RestoringInv, Early, LifeOpen, DataOpen, Final, Unfinished, Opened, Reopening, Pausing, D
    <2>2. (/\ D.state # "preparing" /\ Restarted /\ panel.up /\ Live.port = D.port)'
      <3>1. panel.up /\ Live.port = D.port /\ Live' = Live /\ Started' = Started
        BY <1>2, <1>5, <2>1 DEF Health, Healthy, Restarted, Started, Live, InPlace, D
      <3>2. QED BY <1>5, <1>6, <2>1, <3>1 DEF Restarted
    <2>3. QED BY <1>3, <1>4, <1>6, <2>2 DEF RestoringInv, Early, LifeOpen, DataOpen, Final, Opened, Reopening, Pausing, Unfinished, D
  <1>9. SoundInv'
    <2>1. D'.state \notin Final \cup {"preparing"} BY <1>3, <1>6 DEF IInv, RestoringInv, Unfinished, D, Final
    <2>2. QED BY <2>1 DEF SoundInv, Settled, DataOpen
  <1>10. Unfinished("data")' /\ D'.kind = "restore" BY <1>3, <1>6 DEF Unfinished, D, Final
  <1>11. QED BY <1>1, <1>2, <1>5, <1>6, <1>7, <1>8, <1>9, <1>10, RestoreKeeps

LEMMA RestoreOpenSite == ASSUME IInv, op = "forward", of = "data", D.kind = "restore", OpenSite PROVE IInv'
  <1>1. Step("open") BY DEF OpenSite
  <1>2. TypeInv' /\ DataTyped /\ DataTyped' /\ of = "data" BY StepsTyped DEF SharedStep, IInv, TypeInv
  <1>3. /\ at = "open" /\ op' = "forward" /\ of' = "data" /\ Unfinished("data") /\ ~Unfinished("life") /\ ~PendingJob
        /\ UNCHANGED <<backend, saved, restores>> /\ RestoreLeads("open", at')
    BY <1>1, RestoreNext
  <1>4. at' = "resume" BY <1>3, RestoreOrder
  <1>5. UNCHANGED <<app, built, home, env, dist, dbs, panel, timers, job>> BY DEF OpenSite, files
  <1>6. D' = D /\ L' = L BY DEF OpenSite, D, L
  <1>7. FilesInv' /\ RetainedInv' /\ RestoreInv'
    <2>1. timers' \/ D'.timers BY <1>3, <1>5, <1>6 DEF IInv, RestoreInv
    <2>2. Unfinished("data")' BY <1>3, <1>6 DEF Unfinished, D, Final
    <2>3. QED BY <1>3, <1>5, <1>6, <2>1, <2>2, RestoreFrame DEF IInv
  <1>8. RestoringInv'
    <2>1. /\ D.state # "preparing" /\ Restarted /\ panel.up /\ Live.port = D.port
      BY <1>3 DEF IInv, RestoringInv, Early, LifeOpen, DataOpen, Final, Unfinished, Opened, Reopening, Pausing, D
    <2>2. (/\ D.state # "preparing" /\ Restarted /\ panel.up /\ Live.port = D.port /\ Served(D.port))'
      BY <1>2, <1>3, <1>5, <1>6, <2>1, Views DEF Env0, Fits, Live, Started, InPlace, Restarted, Served, Early, L, D, DataTyped, OpenSite
    <2>3. QED BY <1>3, <1>4, <1>6, <2>2 DEF RestoringInv, Early, LifeOpen, DataOpen, Final, Opened, Reopening, Pausing, Unfinished, D
  <1>9. SoundInv'
    <2>1. D'.state \notin Final \cup {"preparing"} BY <1>3, <1>6 DEF IInv, RestoringInv, Unfinished, D, Final
    <2>2. QED BY <2>1 DEF SoundInv, Settled, DataOpen
  <1>10. Unfinished("data")' /\ D'.kind = "restore" BY <1>3, <1>6 DEF Unfinished, D, Final
  <1>11. QED BY <1>1, <1>2, <1>5, <1>6, <1>7, <1>8, <1>9, <1>10, RestoreKeeps

LEMMA RestoreResumeWriters == ASSUME IInv, op = "forward", of = "data", D.kind = "restore", ResumeWriters PROVE IInv'
  <1>1. Step("resume") BY DEF ResumeWriters
  <1>2. TypeInv' /\ DataTyped /\ DataTyped' /\ of = "data" BY StepsTyped DEF SharedStep, IInv, TypeInv
  <1>3. /\ at = "resume" /\ op' = "forward" /\ of' = "data" /\ Unfinished("data") /\ ~Unfinished("life") /\ ~PendingJob
        /\ UNCHANGED <<backend, saved, restores>> /\ RestoreLeads("resume", at')
    BY <1>1, RestoreNext
  <1>4. at' = "complete" BY <1>3, RestoreOrder
  <1>5. UNCHANGED <<app, built, home, env, dist, dbs, panel, site, job>> BY DEF ResumeWriters, files
  <1>6. D' = D /\ L' = L BY DEF ResumeWriters, D, L
  <1>7. FilesInv' /\ RetainedInv' /\ RestoreInv'
    <2>1. timers' \/ D'.timers BY <1>2, <1>3, <1>6 DEF IInv, RestoreInv, ResumeWriters, D
    <2>2. Unfinished("data")' BY <1>3, <1>6 DEF Unfinished, D, Final
    <2>3. QED BY <1>3, <1>5, <1>6, <2>1, <2>2, RestoreFrame DEF IInv
  <1>8. RestoringInv'
    <2>1. /\ D.state # "preparing" /\ Restarted /\ panel.up /\ Live.port = D.port /\ Served(D.port)
      BY <1>3 DEF IInv, RestoringInv, Early, LifeOpen, DataOpen, Final, Unfinished, Opened, Reopening, Pausing, D
    <2>2. (/\ D.state # "preparing" /\ Restarted /\ panel.up /\ Live.port = D.port /\ Served(D.port)
            /\ timers)'
      <3>1. timers' /\ Live' = Live /\ Started' = Started
        BY <1>2, <1>3, <1>5 DEF ResumeWriters, IInv, RestoreInv, Started, Live, InPlace, D
      <3>2. QED BY <1>5, <1>6, <2>1, <3>1 DEF Restarted, Served
    <2>3. QED BY <1>3, <1>4, <1>6, <2>2 DEF RestoringInv, Early, LifeOpen, DataOpen, Final, Opened, Reopening, Pausing, Unfinished, D
  <1>9. SoundInv'
    <2>1. D'.state \notin Final \cup {"preparing"} BY <1>3, <1>6 DEF IInv, RestoringInv, Unfinished, D, Final
    <2>2. QED BY <2>1 DEF SoundInv, Settled, DataOpen
  <1>10. Unfinished("data")' /\ D'.kind = "restore" BY <1>3, <1>6 DEF Unfinished, D, Final
  <1>11. QED BY <1>1, <1>2, <1>5, <1>6, <1>7, <1>8, <1>9, <1>10, RestoreKeeps

LEMMA RestoreEnds == ASSUME IInv, op = "forward", of = "data", D.kind = "restore", Complete PROVE IInv'
  <1>1. Step("complete") BY CompleteStep
  <1>2. TypeInv' /\ DataTyped /\ DataTyped' BY StepsTyped DEF SharedStep, IInv, TypeInv
  <1>3. /\ at = "complete" /\ op' = "idle" /\ todo' = <<>> /\ Unfinished("data") /\ ~Unfinished("life") /\ ~PendingJob
        /\ UNCHANGED <<backend, saved, restores>>
    <2>1. ~RestoreLeads("complete", at') BY DEF RestoreLeads, PauseLeads, OpenLeads
    <2>2. QED BY <1>1, <2>1, RestoreNext
  <1>4. UNCHANGED <<app, built, home, env, dist, dbs, panel, timers, site, job>> BY CompleteStep DEF files
  <1>5. L' = L /\ D'.state = "complete" /\ D'.clone = 0
    BY <1>2 DEF Complete, Finish, D, L, DataTyped, Record, NoRecord
  <1>6. ~Unfinished("life")' /\ ~Unfinished("data")' /\ ~PendingJob'
    BY <1>3, <1>4, <1>5 DEF Unfinished, PendingJob, L, D, Final
  <1>7. /\ InPlace /\ dist[app.rel] = Live.setting /\ Fits(app.rel, Live.db)
        /\ Restarted /\ Live.port = D.port /\ Served(D.port) /\ timers
    BY <1>3 DEF IInv, RestoreInv, RestoringInv, Reopening, DataOpen, Unfinished, D
  <1>8. Live' = Live BY <1>4 DEF Live
  <1>9. OneInv' BY <1>3, <1>4, <1>6 DEF IInv, OneInv, PendingJob
  <1>10. FilesInv'
    <2>1. 0 <= restores + 1 BY DEF IInv, TypeInv, ControlTyped
    <2>2. QED BY <1>3, <1>4, <1>5, <1>6, <2>1 DEF IInv, FilesInv
  <1>11. RetainedInv'
    <2>1. Env0(L.prev)' = Env0(L.prev) BY <1>4, <1>5 DEF Env0
    <2>2. L.state = "complete" => L.prev < L.to /\ dist[L.prev] = Env0(L.prev).setting /\ app.rel = L.to /\ Keeps(Live.db)
      BY <1>3 DEF IInv, RetainedInv
    <2>3. Keeps(Live.db)' = Keeps(Live.db) BY <1>4, <1>5, <1>8, <2>1 DEF Keeps, Fits
    <2>4. QED BY <1>4, <1>5, <1>6, <1>8, <2>1, <2>2, <2>3 DEF RetainedInv
  <1>12. UpdateInv' /\ RollbackInv' /\ RestoreInv' BY <1>6 DEF UpdateInv, RollbackInv, RestoreInv
  <1>13. JobInv' BY <1>6 DEF JobInv, JobOpen, PendingJob, Final
  <1>14. SoundInv' BY <1>4, <1>7, <1>8 DEF SoundInv, Sound, InPlace, Restarted, Started, Served, Fits
  <1>15. QED BY <1>2, <1>3, <1>6, <1>9, <1>10, <1>11, <1>12, <1>13, <1>14, IdleKeeps

-----------------------------------------------------------------------------
\* Undoing an update or a rollback.

LEMMA UnupdateNext ==
  ASSUME IInv, op \in {"undo", "recover"}, of = "life", NEW s, Step(s)
  PROVE  /\ at = s /\ of' = "life" /\ Unfinished("life") /\ ~Unfinished("data") /\ ~PendingJob
         /\ UNCHANGED <<backend, saved, restores>>
         /\ \/ op' = "idle" /\ s = "undone" /\ todo' = <<>>
            \/ op' = op /\ s # "undone" /\ UpdateBackLeads(s, at') /\ todo' # <<>>
  <1>1. TypeInv /\ PlanInv /\ OneInv BY DEF IInv
  <1>2. Plan = "unupdate" /\ Last = "undone" BY DEF Plan, Last
  <1>3. Unfinished("life") /\ ~Unfinished("data") /\ ~PendingJob BY <1>1 DEF OneInv
  <1>4. /\ at = s /\ of' = of /\ UNCHANGED <<backend, helper, saved, bounds>>
        /\ \/ op' = "idle" /\ s = Last /\ todo' = <<>>
           \/ op' = op /\ Leads(Plan, s, at') /\ todo' # <<>>
    BY <1>1, Advance
  <1>5. Leads("unupdate", s, at') => UpdateBackLeads(s, at') BY DEF Leads
  <1>6. ~UpdateBackLeads("undone", at') BY DEF UpdateBackLeads, BackLeads, OpenLeads
  <1>7. restores' = restores BY <1>4 DEF bounds
  <1>8. QED BY <1>2, <1>3, <1>4, <1>5, <1>6, <1>7

LEMMA UnupdateKeeps ==
  ASSUME IInv, op \in {"undo", "recover"}, of = "life", NEW s, Step(s), s # "undone",
         TypeInv', UNCHANGED <<job, journal>>, FilesInv', UpdateInv', UndoingInv'
  PROVE  IInv'
  <1>1. /\ op' = op /\ of' = "life" /\ Unfinished("life") /\ ~Unfinished("data") /\ ~PendingJob
        /\ at = s /\ todo' # <<>> /\ UNCHANGED <<backend, saved, restores>>
    BY UnupdateNext
  <1>2. Unfinished("life")' /\ ~Unfinished("data")' /\ ~PendingJob' /\ L' = L /\ D' = D
    BY <1>1 DEF Unfinished, PendingJob, L, D
  <1>3. LifeOpen' BY <1>1, <1>2 DEF IInv, UndoingInv, LifeOpen
  <1>4. PlanInv'
    <2>1. Plan' = Plan BY <1>1 DEF Plan
    <2>2. QED BY <2>1, PlanKept DEF IInv
  <1>5. OneInv' BY <1>1, <1>2 DEF OneInv, PendingJob, Final
  <1>6. RetainedInv' BY <1>2 DEF RetainedInv, Unfinished, Final, L
  <1>7. RollbackInv' /\ RestoreInv' BY <1>2 DEF RollbackInv, RestoreInv
  <1>8. JobInv' BY <1>2 DEF JobInv, JobOpen, PendingJob, Final
  <1>9. SoundInv' BY <1>3 DEF SoundInv, Settled
  <1>10. UpdatingInv' /\ RollingBackInv' /\ RestoringInv' /\ ChangingInv' /\ ChangingBackInv' /\ HelperInv'
    BY <1>1, <1>2 DEF HelperInv, UpdatingInv, RollingBackInv, RestoringInv, ChangingInv, ChangingBackInv
  <1>11. QED BY <1>4, <1>5, <1>6, <1>7, <1>8, <1>9, <1>10 DEF IInv

LEMMA UnupdatePointerBack == ASSUME IInv, op \in {"undo", "recover"}, of = "life", PointerBack PROVE IInv'
  <1>1. Step("pointer") BY DEF PointerBack
  <1>2. TypeInv' /\ DataTyped /\ DataTyped' /\ of = "life" BY StepsTyped DEF UndoStep, IInv, TypeInv
  <1>3. /\ at = "pointer" /\ op' = op /\ of' = "life" /\ Unfinished("life") /\ ~Unfinished("data") /\ ~PendingJob
        /\ UNCHANGED <<backend, saved, restores>> /\ UpdateBackLeads("pointer", at')
    BY <1>1, UnupdateNext
  <1>4. at' = "environment" BY <1>3, UpdateBackOrder
  <1>5. UNCHANGED <<built, home, env, dist, dbs, panel, timers, site, job>> BY DEF PointerBack, files
  <1>6. D' = D /\ L' = L /\ journal' = journal BY DEF PointerBack, D, L
  <1>7. app'.rel = L.prev /\ app'.at \in {app.at, "link"} /\ L.prev # L.to
    <2>1. app' \in {app, [at |-> "link", rel |-> L.prev]} /\ (app.at = "link" => app' = [at |-> "link", rel |-> L.prev])
      BY <1>2 DEF PointerBack, L
    <2>2. app.at # "link" => app.rel = L.prev BY <1>3 DEF IInv, UpdateInv
    <2>3. L.prev # L.to BY <1>2, <1>3, Views DEF IInv, UpdateInv, L, Release
    <2>4. QED BY <2>1, <2>2, <2>3
  <1>8. FilesInv'
    <2>1. L.prev <= built
      <3>1. L.prev < L.to /\ L.to = built BY <1>3 DEF IInv, UpdateInv
      <3>2. L.prev \in Nat /\ built \in Nat
        <4>1. L.prev \in Release /\ built \in Release BY <1>2, Views DEF L, DataTyped
        <4>2. QED BY <4>1 DEF Release
      <3>3. QED BY <3>1, <3>2
    <2>2. QED BY <1>3, <1>5, <1>6, <1>7, <2>1 DEF IInv, FilesInv, Unfinished
  <1>9. UpdateInv'
    <2>1. Env0(L.prev)' = Env0(L.prev) BY <1>5, <1>6 DEF Env0
    <2>2. Fits(L.prev, Env0(L.prev).db)' BY <1>3, <1>5, <1>6, <2>1 DEF IInv, UpdateInv, Fits
    <2>3. (timers' \/ L'.timers) /\ UpdateInv BY <1>3, <1>5, <1>6 DEF IInv, UpdateInv
    <2>4. QED BY <1>3, <1>5, <1>6, <1>7, <2>1, <2>2, <2>3, UpdateMoved
  <1>10. UndoingInv'
    <2>1. /\ LifeOpen
      BY <1>3 DEF IInv, UndoingInv, Early, LifeOpen, DataOpen, Final, Unfinished, Opened, Reopening, Pausing, L
    <2>2. (/\ LifeOpen /\ app.rel = L.prev)' BY <1>6, <1>7, <2>1 DEF LifeOpen
    <2>3. QED BY <1>3, <1>4, <1>6, <2>2 DEF UndoingInv, Early, LifeOpen, DataOpen, Final, Opened, Reopening, Pausing, Unfinished, L
  <1>11. QED BY <1>1, <1>2, <1>5, <1>6, <1>8, <1>9, <1>10, UnupdateKeeps

LEMMA UnupdateRestoreRecordedEnvironment == ASSUME IInv, op \in {"undo", "recover"}, of = "life", RestoreRecordedEnvironment PROVE IInv'
  <1>1. Step("environment") BY DEF RestoreRecordedEnvironment
  <1>2. TypeInv' /\ DataTyped /\ DataTyped' /\ of = "life" BY StepsTyped DEF UndoStep, IInv, TypeInv
  <1>3. /\ at = "environment" /\ op' = op /\ of' = "life" /\ Unfinished("life") /\ ~Unfinished("data") /\ ~PendingJob
        /\ UNCHANGED <<backend, saved, restores>> /\ UpdateBackLeads("environment", at')
    BY <1>1, UnupdateNext
  <1>4. at' = "restart" BY <1>3, UpdateBackOrder
  <1>5. UNCHANGED <<built, home, dist, dbs, panel, timers, site, job>> BY DEF RestoreRecordedEnvironment, files
  <1>6. D' = D /\ L' = L /\ journal' = journal BY DEF RestoreRecordedEnvironment, D, L
  <1>7. app.rel = L.prev /\ app'.rel = L.prev /\ (app.at = "link" => app'.at = "link") /\ L.prev # L.to
    <2>1. app.rel = L.prev BY <1>3 DEF IInv, UndoingInv
    <2>2. app' \in {app, [app EXCEPT !.at = "bare"]} /\ (app.at # "gone" => app' = app)
      BY <1>2 DEF RestoreRecordedEnvironment
    <2>3. L.prev # L.to BY <1>2, <1>3, Views DEF IInv, UpdateInv, L, Release
    <2>4. QED BY <1>2, <2>1, <2>2, <2>3 DEF DataTyped
  <1>8. /\ \A r \in Release : env'[r].db = env[r].db /\ env'[r].setting = env[r].setting /\ env'[r].port = env[r].port
        /\ \A r \in Release : Env0(r)'.db = Env0(r).db /\ Env0(r)'.setting = Env0(r).setting /\ Env0(r)'.port = Env0(r).port
    <2>1. env' = env \/ \E b \in L.backup : env' = [env EXCEPT ![home[app.rel]] = b.env]
      <3>1. CASE L.backup = {} BY <1>2, <3>1 DEF RestoreRecordedEnvironment, L
      <3>2. CASE L.backup # {}
        <4>1. (CHOOSE b \in L.backup : TRUE) \in L.backup BY <3>2
        <4>2. env' = env \/ env' = [env EXCEPT ![home[app.rel]] = (CHOOSE b \in L.backup : TRUE).env]
          BY <1>2, <3>2 DEF RestoreRecordedEnvironment, WriteEnv, L
        <4>3. QED BY <4>1, <4>2
      <3>3. QED BY <3>1, <3>2
    <2>2. \A b \in L.backup : /\ b.env.setting = env[home[app.rel]].setting /\ b.env.port = env[home[app.rel]].port
                              /\ b.env.db = env[home[app.rel]].db
      BY <1>3, <1>7 DEF IInv, UpdateInv, Env0
    <2>3. \A r \in Release : env'[r].db = env[r].db /\ env'[r].setting = env[r].setting /\ env'[r].port = env[r].port
      BY <1>2, <2>1, <2>2, Views DEF DataTyped
    <2>4. QED BY <1>2, <1>5, <2>3 DEF Env0, DataTyped
  <1>9. FilesInv' BY <1>3, <1>5, <1>6, <1>7, <1>8 DEF IInv, FilesInv, Unfinished
  <1>10. UpdateInv'
    <2>1. L.prev \in Release BY <1>2, Views DEF L
    <2>2. Fits(L.prev, Env0(L.prev).db)' BY <1>3, <1>5, <1>6, <1>8, <2>1 DEF IInv, UpdateInv, Fits
    <2>3. (timers' \/ L'.timers) /\ UpdateInv BY <1>3, <1>5, <1>6 DEF IInv, UpdateInv
    <2>4. QED BY <1>3, <1>5, <1>6, <1>7, <1>8, <2>1, <2>2, <2>3, UpdateMoved
  <1>11. UndoingInv'
    <2>1. /\ LifeOpen /\ app.rel = L.prev
      BY <1>3 DEF IInv, UndoingInv, Early, LifeOpen, DataOpen, Final, Unfinished, Opened, Reopening, Pausing, L
    <2>2. (/\ LifeOpen /\ app.rel = L.prev)' BY <1>6, <1>7, <2>1 DEF LifeOpen
    <2>3. QED BY <1>3, <1>4, <1>6, <2>2 DEF UndoingInv, Early, LifeOpen, DataOpen, Final, Opened, Reopening, Pausing, Unfinished, L
  <1>12. QED BY <1>1, <1>2, <1>5, <1>6, <1>9, <1>10, <1>11, UnupdateKeeps

LEMMA UnupdateRestart == ASSUME IInv, op \in {"undo", "recover"}, of = "life", Restart PROVE IInv'
  <1>1. Step("restart") BY DEF Restart
  <1>2. TypeInv' /\ DataTyped /\ DataTyped' /\ of = "life" BY StepsTyped DEF SharedStep, IInv, TypeInv
  <1>3. /\ at = "restart" /\ op' = op /\ of' = "life" /\ Unfinished("life") /\ ~Unfinished("data") /\ ~PendingJob
        /\ UNCHANGED <<backend, saved, restores>> /\ UpdateBackLeads("restart", at')
    BY <1>1, UnupdateNext
  <1>4. at' = "health" BY <1>3, UpdateBackOrder
  <1>5. UNCHANGED <<app, built, home, env, dist, dbs, timers, site, job>> BY DEF Restart, files
  <1>6. D' = D /\ L' = L /\ journal' = journal BY DEF Restart, D, L
  <1>7. FilesInv' BY <1>3, <1>5, <1>6 DEF IInv, FilesInv, Unfinished
  <1>8. UpdateInv'
    <2>1. Fits(L.prev, Env0(L.prev).db)' BY <1>3, <1>5, <1>6 DEF IInv, UpdateInv, Fits, Env0
    <2>2. timers' \/ L'.timers BY <1>2, <1>3, <1>5, <1>6 DEF IInv, UpdateInv, L, Restart
    <2>3. QED BY <1>2, <1>3, <1>5, <1>6, <2>1, <2>2, UpdateFrame DEF IInv
  <1>9. UndoingInv'
    <2>1. /\ LifeOpen /\ app.rel = L.prev
      BY <1>3 DEF IInv, UndoingInv, Early, LifeOpen, DataOpen, Final, Unfinished, Opened, Reopening, Pausing, L
    <2>2. (/\ LifeOpen /\ app.rel = L.prev /\ Restarted)'
      <3>1. panel' = Started /\ Live' = Live /\ Started' = Started BY <1>5 DEF Restart, Started, Live, InPlace
      <3>2. QED BY <1>5, <1>6, <2>1, <3>1 DEF Restarted, LifeOpen, DataOpen
    <2>3. QED BY <1>3, <1>4, <1>6, <2>2 DEF UndoingInv, Early, LifeOpen, DataOpen, Final, Opened, Reopening, Pausing, Unfinished, L
  <1>10. QED BY <1>1, <1>2, <1>5, <1>6, <1>7, <1>8, <1>9, UnupdateKeeps

LEMMA UnupdateHealth == ASSUME IInv, op \in {"undo", "recover"}, of = "life", Health PROVE IInv'
  <1>1. Step("health") BY DEF Health
  <1>2. TypeInv' /\ DataTyped /\ DataTyped' /\ of = "life" BY StepsTyped DEF SharedStep, IInv, TypeInv
  <1>3. /\ at = "health" /\ op' = op /\ of' = "life" /\ Unfinished("life") /\ ~Unfinished("data") /\ ~PendingJob
        /\ UNCHANGED <<backend, saved, restores>> /\ UpdateBackLeads("health", at')
    BY <1>1, UnupdateNext
  <1>4. at' = "open" BY <1>3, UpdateBackOrder
  <1>5. UNCHANGED <<app, built, home, env, dist, dbs, panel, timers, site, job>> BY DEF Health, files
  <1>6. D' = D /\ L' = L /\ journal' = journal BY DEF Health, D, L
  <1>7. FilesInv' BY <1>3, <1>5, <1>6 DEF IInv, FilesInv, Unfinished
  <1>8. UpdateInv'
    <2>1. Fits(L.prev, Env0(L.prev).db)' BY <1>3, <1>5, <1>6 DEF IInv, UpdateInv, Fits, Env0
    <2>2. timers' \/ L'.timers BY <1>2, <1>3, <1>5, <1>6 DEF IInv, UpdateInv, L, Health
    <2>3. QED BY <1>2, <1>3, <1>5, <1>6, <2>1, <2>2, UpdateFrame DEF IInv
  <1>9. UndoingInv'
    <2>1. /\ LifeOpen /\ app.rel = L.prev /\ Restarted
      BY <1>3 DEF IInv, UndoingInv, Early, LifeOpen, DataOpen, Final, Unfinished, Opened, Reopening, Pausing, L
    <2>2. (/\ LifeOpen /\ app.rel = L.prev /\ Restarted /\ panel.up /\ Live.port = L.port)'
      <3>1. panel.up /\ Live.port = L.port /\ Live' = Live /\ Started' = Started
        BY <1>2, <1>5, <2>1 DEF Health, Healthy, Restarted, Started, Live, InPlace, L
      <3>2. QED BY <1>5, <1>6, <2>1, <3>1 DEF Restarted, LifeOpen, DataOpen
    <2>3. QED BY <1>3, <1>4, <1>6, <2>2 DEF UndoingInv, Early, LifeOpen, DataOpen, Final, Opened, Reopening, Pausing, Unfinished, L
  <1>10. QED BY <1>1, <1>2, <1>5, <1>6, <1>7, <1>8, <1>9, UnupdateKeeps

LEMMA UnupdateOpenSite == ASSUME IInv, op \in {"undo", "recover"}, of = "life", OpenSite PROVE IInv'
  <1>1. Step("open") BY DEF OpenSite
  <1>2. TypeInv' /\ DataTyped /\ DataTyped' /\ of = "life" BY StepsTyped DEF SharedStep, IInv, TypeInv
  <1>3. /\ at = "open" /\ op' = op /\ of' = "life" /\ Unfinished("life") /\ ~Unfinished("data") /\ ~PendingJob
        /\ UNCHANGED <<backend, saved, restores>> /\ UpdateBackLeads("open", at')
    BY <1>1, UnupdateNext
  <1>4. at' = "resume" BY <1>3, UpdateBackOrder
  <1>5. UNCHANGED <<app, built, home, env, dist, dbs, panel, timers, job>> BY DEF OpenSite, files
  <1>6. D' = D /\ L' = L /\ journal' = journal BY DEF OpenSite, D, L
  <1>7. FilesInv' BY <1>3, <1>5, <1>6 DEF IInv, FilesInv, Unfinished
  <1>8. UpdateInv'
    <2>1. Fits(L.prev, Env0(L.prev).db)' BY <1>3, <1>5, <1>6 DEF IInv, UpdateInv, Fits, Env0
    <2>2. timers' \/ L'.timers BY <1>2, <1>3, <1>5, <1>6 DEF IInv, UpdateInv, L, OpenSite
    <2>3. QED BY <1>2, <1>3, <1>5, <1>6, <2>1, <2>2, UpdateFrame DEF IInv
  <1>9. UndoingInv'
    <2>1. /\ LifeOpen /\ app.rel = L.prev /\ Restarted /\ panel.up /\ Live.port = L.port
      BY <1>3 DEF IInv, UndoingInv, Early, LifeOpen, DataOpen, Final, Unfinished, Opened, Reopening, Pausing, L
    <2>2. (/\ LifeOpen /\ app.rel = L.prev /\ Restarted /\ panel.up /\ Live.port = L.port
            /\ Served(L.port))'
      <3>1. site' = [port |-> L.port, open |-> TRUE] /\ Live' = Live /\ Started' = Started
        BY <1>2, <1>5 DEF OpenSite, Started, Live, InPlace, L
      <3>2. QED BY <1>5, <1>6, <2>1, <3>1 DEF Restarted, Served, LifeOpen, DataOpen
    <2>3. QED BY <1>3, <1>4, <1>6, <2>2 DEF UndoingInv, Early, LifeOpen, DataOpen, Final, Opened, Reopening, Pausing, Unfinished, L
  <1>10. QED BY <1>1, <1>2, <1>5, <1>6, <1>7, <1>8, <1>9, UnupdateKeeps

LEMMA UnupdateResumeWriters == ASSUME IInv, op \in {"undo", "recover"}, of = "life", ResumeWriters PROVE IInv'
  <1>1. Step("resume") BY DEF ResumeWriters
  <1>2. TypeInv' /\ DataTyped /\ DataTyped' /\ of = "life" BY StepsTyped DEF SharedStep, IInv, TypeInv
  <1>3. /\ at = "resume" /\ op' = op /\ of' = "life" /\ Unfinished("life") /\ ~Unfinished("data") /\ ~PendingJob
        /\ UNCHANGED <<backend, saved, restores>> /\ UpdateBackLeads("resume", at')
    BY <1>1, UnupdateNext
  <1>4. at' = "undone" BY <1>3, UpdateBackOrder
  <1>5. UNCHANGED <<app, built, home, env, dist, dbs, panel, site, job>> BY DEF ResumeWriters, files
  <1>6. D' = D /\ L' = L /\ journal' = journal BY DEF ResumeWriters, D, L
  <1>7. FilesInv' BY <1>3, <1>5, <1>6 DEF IInv, FilesInv, Unfinished
  <1>8. UpdateInv'
    <2>1. Fits(L.prev, Env0(L.prev).db)' BY <1>3, <1>5, <1>6 DEF IInv, UpdateInv, Fits, Env0
    <2>2. timers' \/ L'.timers BY <1>2, <1>3, <1>5, <1>6 DEF IInv, UpdateInv, L, ResumeWriters
    <2>3. QED BY <1>2, <1>3, <1>5, <1>6, <2>1, <2>2, UpdateFrame DEF IInv
  <1>9. UndoingInv'
    <2>1. /\ LifeOpen /\ app.rel = L.prev /\ Restarted /\ panel.up /\ Live.port = L.port
          /\ Served(L.port)
      BY <1>3 DEF IInv, UndoingInv, Early, LifeOpen, DataOpen, Final, Unfinished, Opened, Reopening, Pausing, L
    <2>2. (/\ LifeOpen /\ app.rel = L.prev /\ Restarted /\ panel.up /\ Live.port = L.port
            /\ Served(L.port) /\ timers)'
      <3>1. timers' /\ Live' = Live /\ Started' = Started
        BY <1>2, <1>3, <1>5 DEF ResumeWriters, IInv, UpdateInv, Started, Live, InPlace, L
      <3>2. QED BY <1>5, <1>6, <2>1, <3>1 DEF Restarted, Served, LifeOpen, DataOpen
    <2>3. QED BY <1>3, <1>4, <1>6, <2>2 DEF UndoingInv, Early, LifeOpen, DataOpen, Final, Opened, Reopening, Pausing, Unfinished, L
  <1>10. QED BY <1>1, <1>2, <1>5, <1>6, <1>7, <1>8, <1>9, UnupdateKeeps

LEMMA UndoneStep == ASSUME RolledBack PROVE Step("undone") /\ UNCHANGED <<files, panel, timers, site, job>>
  BY Zenon DEF RolledBack

LEMMA UnupdateEnds == ASSUME IInv, op \in {"undo", "recover"}, of = "life", RolledBack PROVE IInv'
  <1>1. Step("undone") BY UndoneStep
  <1>2. TypeInv' /\ DataTyped /\ DataTyped' BY StepsTyped DEF UndoStep, IInv, TypeInv
  <1>3. /\ at = "undone" /\ op' = "idle" /\ todo' = <<>> /\ Unfinished("life") /\ ~Unfinished("data") /\ ~PendingJob
        /\ UNCHANGED <<backend, saved, restores>>
    <2>1. ~UpdateBackLeads("undone", at') BY DEF UpdateBackLeads, BackLeads, OpenLeads
    <2>2. QED BY <1>1, <2>1, UnupdateNext
  <1>4. UNCHANGED <<app, built, home, env, dist, dbs, panel, timers, site, job>> BY UndoneStep DEF files
  <1>5. D' = D /\ L'.state = "rolled_back" BY <1>2 DEF RolledBack, Finish, D, L, DataTyped, Record, NoRecord
  <1>6. ~Unfinished("life")' /\ ~Unfinished("data")' /\ ~PendingJob'
    BY <1>3, <1>4, <1>5 DEF Unfinished, PendingJob, L, D, Final
  <1>7. Sound
    <2>1. CASE LifeOpen
      <3>1. app.rel = L.prev /\ Reopening("life") BY <1>3, <2>1 DEF IInv, UndoingInv
      <3>2. Restarted /\ panel.up /\ Live.port = L.port /\ Served(L.port) /\ timers BY <1>3, <3>1 DEF Reopening, L
      <3>3. dist[L.prev] = Env0(L.prev).setting /\ Fits(L.prev, Env0(L.prev).db) BY <1>3 DEF IInv, UpdateInv
      <3>4. InPlace BY <3>2 DEF Restarted, Started
      <3>5. QED BY <3>1, <3>2, <3>3, <3>4 DEF Sound, Restarted, Live, Env0
    <2>2. CASE ~LifeOpen
      BY <1>3, <2>2 DEF IInv, SoundInv, Settled, DataOpen, JobOpen, PendingJob, Unfinished, D, Final
    <2>3. QED BY <2>1, <2>2
  <1>8. Live' = Live BY <1>4 DEF Live
  <1>9. OneInv' /\ FilesInv' BY <1>3, <1>4, <1>5, <1>6 DEF IInv, OneInv, FilesInv, PendingJob, Unfinished
  <1>10. RetainedInv' BY <1>5 DEF RetainedInv
  <1>11. UpdateInv' /\ RollbackInv' /\ RestoreInv' BY <1>6 DEF UpdateInv, RollbackInv, RestoreInv
  <1>12. JobInv' BY <1>6 DEF JobInv, JobOpen, PendingJob, Final
  <1>13. SoundInv' BY <1>4, <1>7, <1>8 DEF SoundInv, Sound, InPlace, Started, Served, Fits
  <1>14. QED BY <1>2, <1>3, <1>6, <1>9, <1>10, <1>11, <1>12, <1>13, IdleKeeps

LEMMA UnrollbackNext ==
  ASSUME IInv, op \in {"undo", "recover"}, of = "data", D.kind = "rollback", NEW s, Step(s)
  PROVE  /\ at = s /\ of' = "data" /\ Unfinished("data") /\ ~Unfinished("life") /\ ~PendingJob
         /\ UNCHANGED <<backend, saved, restores>>
         /\ \/ op' = "idle" /\ s = "undone" /\ todo' = <<>>
            \/ op' = op /\ s # "undone" /\ RollbackBackLeads(s, at') /\ todo' # <<>>
  <1>1. TypeInv /\ PlanInv /\ OneInv BY DEF IInv
  <1>2. D.state # "preparing" BY <1>1 DEF IInv, RollbackInv, OneInv
  <1>3. Plan = "unrollback" /\ Last = "undone" BY <1>2 DEF Plan, Last
  <1>4. Unfinished("data") /\ ~Unfinished("life") /\ ~PendingJob BY <1>1 DEF OneInv
  <1>5. /\ at = s /\ of' = of /\ UNCHANGED <<backend, helper, saved, bounds>>
        /\ \/ op' = "idle" /\ s = Last /\ todo' = <<>>
           \/ op' = op /\ Leads(Plan, s, at') /\ todo' # <<>>
    BY <1>1, Advance
  <1>6. Leads("unrollback", s, at') => RollbackBackLeads(s, at') BY DEF Leads
  <1>7. ~RollbackBackLeads("undone", at') BY DEF RollbackBackLeads, BackLeads, OpenLeads
  <1>8. restores' = restores BY <1>5 DEF bounds
  <1>9. QED BY <1>3, <1>4, <1>5, <1>6, <1>7, <1>8

LEMMA UnrollbackKeeps ==
  ASSUME IInv, op \in {"undo", "recover"}, of = "data", D.kind = "rollback", NEW s, Step(s), s # "undone",
         TypeInv', UNCHANGED <<job, journal, built, home, env, dist, dbs>>, app'.rel <= built, RollbackInv', UndoingInv'
  PROVE  IInv'
  <1>1. /\ op' = op /\ of' = "data" /\ Unfinished("data") /\ ~Unfinished("life") /\ ~PendingJob
        /\ at = s /\ todo' # <<>> /\ UNCHANGED <<backend, saved, restores>>
    BY UnrollbackNext
  <1>2. Unfinished("data")' /\ ~Unfinished("life")' /\ ~PendingJob' /\ L' = L /\ D' = D
        /\ D.state = "maintenance" /\ D.backup = {}
    BY <1>1 DEF IInv, RollbackInv, Unfinished, PendingJob, L, D
  <1>3. PlanInv'
    <2>1. Plan' = Plan BY <1>1, <1>2 DEF Plan
    <2>2. QED BY <2>1, PlanKept DEF IInv
  <1>4. OneInv' BY <1>1, <1>2 DEF OneInv, PendingJob, Final
  <1>5. FilesInv' BY <1>1, <1>2 DEF IInv, FilesInv
  <1>6. RetainedInv'
    <2>1. Env0(L.prev)' = Env0(L.prev) BY <1>2 DEF Env0
    <2>2. QED BY <1>2, <2>1 DEF IInv, RetainedInv
  <1>7. UpdateInv' /\ RestoreInv' BY <1>2 DEF UpdateInv, RestoreInv
  <1>8. JobInv' BY <1>2 DEF JobInv, JobOpen, PendingJob, Final
  <1>9. SoundInv' BY <1>2 DEF SoundInv, Settled, DataOpen, Final
  <1>10. UpdatingInv' /\ RollingBackInv' /\ RestoringInv' /\ ChangingInv' /\ ChangingBackInv' /\ HelperInv'
    BY <1>1, <1>2 DEF HelperInv, UpdatingInv, RollingBackInv, RestoringInv, ChangingInv, ChangingBackInv
  <1>11. QED BY <1>3, <1>4, <1>5, <1>6, <1>7, <1>8, <1>9, <1>10 DEF IInv

LEMMA UnrollbackStopPanel == ASSUME IInv, op \in {"undo", "recover"}, of = "data", D.kind = "rollback", StopPanel PROVE IInv'
  <1>1. Step("stop_panel") BY DEF StopPanel
  <1>2. TypeInv' /\ DataTyped /\ DataTyped' /\ of = "data" BY StepsTyped DEF SharedStep, IInv, TypeInv
  <1>3. /\ at = "stop_panel" /\ op' = op /\ of' = "data" /\ Unfinished("data") /\ ~Unfinished("life") /\ ~PendingJob
        /\ UNCHANGED <<backend, saved, restores>> /\ RollbackBackLeads("stop_panel", at')
    BY <1>1, UnrollbackNext
  <1>4. at' = "pointer" BY <1>3, RollbackBackOrder
  <1>5. UNCHANGED <<app, built, home, env, dist, dbs, timers, site, job>> BY DEF StopPanel, files
  <1>6. D' = D /\ L' = L /\ journal' = journal BY DEF StopPanel, D, L
  <1>7. RollbackInv'
    <2>1. timers' \/ D'.timers BY <1>3, <1>5, <1>6 DEF IInv, RollbackInv
    <2>2. QED BY <1>3, <1>5, <1>6, <2>1, RollbackFrame DEF IInv
  <1>8. app'.rel <= built BY <1>5 DEF IInv, FilesInv
  <1>9. UndoingInv'
    <2>1. /\ D.state # "preparing"
      BY <1>3 DEF IInv, RollbackInv, UndoingInv, Early, LifeOpen, DataOpen, Final, Unfinished, Opened, Reopening, Pausing, D
    <2>2. (/\ D.state # "preparing")'
      BY <1>2, <1>3, <1>5, <1>6, <2>1, Views DEF Env0, Fits, Live, Started, InPlace, Restarted, Served, Early, L, D, DataTyped, StopPanel
    <2>3. QED BY <1>3, <1>4, <1>6, <2>2 DEF UndoingInv, Early, LifeOpen, DataOpen, Final, Opened, Reopening, Pausing, Unfinished, D
  <1>10. QED BY <1>1, <1>2, <1>5, <1>6, <1>7, <1>8, <1>9, UnrollbackKeeps

LEMMA UnrollbackPointerBack == ASSUME IInv, op \in {"undo", "recover"}, of = "data", D.kind = "rollback", PointerBack PROVE IInv'
  <1>1. Step("pointer") BY DEF PointerBack
  <1>2. TypeInv' /\ DataTyped /\ DataTyped' /\ of = "data" BY StepsTyped DEF UndoStep, IInv, TypeInv
  <1>3. /\ at = "pointer" /\ op' = op /\ of' = "data" /\ Unfinished("data") /\ ~Unfinished("life") /\ ~PendingJob
        /\ UNCHANGED <<backend, saved, restores>> /\ RollbackBackLeads("pointer", at')
    BY <1>1, UnrollbackNext
  <1>4. at' = "restart" BY <1>3, RollbackBackOrder
  <1>5. UNCHANGED <<built, home, env, dist, dbs, panel, timers, site, job>> BY DEF PointerBack, files
  <1>6. D' = D /\ L' = L /\ journal' = journal BY DEF PointerBack, D, L
  <1>7. app'.rel = D.prev /\ (app'.at = "link" \/ app' = app)
    <2>1. app' = IF app.at = "link" THEN [at |-> "link", rel |-> D.prev] ELSE app
      BY <1>2, <1>3 DEF PointerBack, D, IInv, RollbackInv, InPlace
    <2>2. app.at # "link" => app.rel = D.prev BY <1>3 DEF IInv, RollbackInv
    <2>3. QED BY <2>1, <2>2
  <1>8. RollbackInv'
    <2>1. timers' \/ D'.timers BY <1>3, <1>5, <1>6 DEF IInv, RollbackInv
    <2>2. QED BY <1>3, <1>5, <1>6, <1>7, <2>1, RollbackFrame DEF IInv
  <1>9. app'.rel <= built BY <1>3, <1>7 DEF IInv, RollbackInv
  <1>10. UndoingInv'
    <2>1. /\ D.state # "preparing"
      BY <1>3 DEF IInv, RollbackInv, UndoingInv, Early, LifeOpen, DataOpen, Final, Unfinished, Opened, Reopening, Pausing, D
    <2>2. (/\ D.state # "preparing" /\ app.rel = D.prev)' BY <1>6, <1>7, <2>1
    <2>3. QED BY <1>3, <1>4, <1>6, <2>2 DEF UndoingInv, Early, LifeOpen, DataOpen, Final, Opened, Reopening, Pausing, Unfinished, D
  <1>11. QED BY <1>1, <1>2, <1>5, <1>6, <1>8, <1>9, <1>10, UnrollbackKeeps

LEMMA UnrollbackRestart == ASSUME IInv, op \in {"undo", "recover"}, of = "data", D.kind = "rollback", Restart PROVE IInv'
  <1>1. Step("restart") BY DEF Restart
  <1>2. TypeInv' /\ DataTyped /\ DataTyped' /\ of = "data" BY StepsTyped DEF SharedStep, IInv, TypeInv
  <1>3. /\ at = "restart" /\ op' = op /\ of' = "data" /\ Unfinished("data") /\ ~Unfinished("life") /\ ~PendingJob
        /\ UNCHANGED <<backend, saved, restores>> /\ RollbackBackLeads("restart", at')
    BY <1>1, UnrollbackNext
  <1>4. at' = "health" BY <1>3, RollbackBackOrder
  <1>5. UNCHANGED <<app, built, home, env, dist, dbs, timers, site, job>> BY DEF Restart, files
  <1>6. D' = D /\ L' = L /\ journal' = journal BY DEF Restart, D, L
  <1>7. RollbackInv'
    <2>1. timers' \/ D'.timers BY <1>3, <1>5, <1>6 DEF IInv, RollbackInv
    <2>2. QED BY <1>3, <1>5, <1>6, <2>1, RollbackFrame DEF IInv
  <1>8. app'.rel <= built BY <1>5 DEF IInv, FilesInv
  <1>9. UndoingInv'
    <2>1. /\ D.state # "preparing" /\ app.rel = D.prev
      BY <1>3 DEF IInv, RollbackInv, UndoingInv, Early, LifeOpen, DataOpen, Final, Unfinished, Opened, Reopening, Pausing, D
    <2>2. (/\ D.state # "preparing" /\ app.rel = D.prev /\ Restarted)'
      <3>1. panel' = Started /\ Live' = Live /\ Started' = Started BY <1>5 DEF Restart, Started, Live, InPlace
      <3>2. QED BY <1>5, <1>6, <2>1, <3>1 DEF Restarted, LifeOpen, DataOpen
    <2>3. QED BY <1>3, <1>4, <1>6, <2>2 DEF UndoingInv, Early, LifeOpen, DataOpen, Final, Opened, Reopening, Pausing, Unfinished, D
  <1>10. QED BY <1>1, <1>2, <1>5, <1>6, <1>7, <1>8, <1>9, UnrollbackKeeps

LEMMA UnrollbackHealth == ASSUME IInv, op \in {"undo", "recover"}, of = "data", D.kind = "rollback", Health PROVE IInv'
  <1>1. Step("health") BY DEF Health
  <1>2. TypeInv' /\ DataTyped /\ DataTyped' /\ of = "data" BY StepsTyped DEF SharedStep, IInv, TypeInv
  <1>3. /\ at = "health" /\ op' = op /\ of' = "data" /\ Unfinished("data") /\ ~Unfinished("life") /\ ~PendingJob
        /\ UNCHANGED <<backend, saved, restores>> /\ RollbackBackLeads("health", at')
    BY <1>1, UnrollbackNext
  <1>4. at' = "open" BY <1>3, RollbackBackOrder
  <1>5. UNCHANGED <<app, built, home, env, dist, dbs, panel, timers, site, job>> BY DEF Health, files
  <1>6. D' = D /\ L' = L /\ journal' = journal BY DEF Health, D, L
  <1>7. RollbackInv'
    <2>1. timers' \/ D'.timers BY <1>3, <1>5, <1>6 DEF IInv, RollbackInv
    <2>2. QED BY <1>3, <1>5, <1>6, <2>1, RollbackFrame DEF IInv
  <1>8. app'.rel <= built BY <1>5 DEF IInv, FilesInv
  <1>9. UndoingInv'
    <2>1. /\ D.state # "preparing" /\ app.rel = D.prev /\ Restarted
      BY <1>3 DEF IInv, RollbackInv, UndoingInv, Early, LifeOpen, DataOpen, Final, Unfinished, Opened, Reopening, Pausing, D
    <2>2. (/\ D.state # "preparing" /\ app.rel = D.prev /\ Restarted /\ panel.up /\ Live.port = D.port)'
      <3>1. panel.up /\ Live.port = D.port /\ Live' = Live /\ Started' = Started
        BY <1>2, <1>5, <2>1 DEF Health, Healthy, Restarted, Started, Live, InPlace, D
      <3>2. QED BY <1>5, <1>6, <2>1, <3>1 DEF Restarted, LifeOpen, DataOpen
    <2>3. QED BY <1>3, <1>4, <1>6, <2>2 DEF UndoingInv, Early, LifeOpen, DataOpen, Final, Opened, Reopening, Pausing, Unfinished, D
  <1>10. QED BY <1>1, <1>2, <1>5, <1>6, <1>7, <1>8, <1>9, UnrollbackKeeps

LEMMA UnrollbackOpenSite == ASSUME IInv, op \in {"undo", "recover"}, of = "data", D.kind = "rollback", OpenSite PROVE IInv'
  <1>1. Step("open") BY DEF OpenSite
  <1>2. TypeInv' /\ DataTyped /\ DataTyped' /\ of = "data" BY StepsTyped DEF SharedStep, IInv, TypeInv
  <1>3. /\ at = "open" /\ op' = op /\ of' = "data" /\ Unfinished("data") /\ ~Unfinished("life") /\ ~PendingJob
        /\ UNCHANGED <<backend, saved, restores>> /\ RollbackBackLeads("open", at')
    BY <1>1, UnrollbackNext
  <1>4. at' = "resume" BY <1>3, RollbackBackOrder
  <1>5. UNCHANGED <<app, built, home, env, dist, dbs, panel, timers, job>> BY DEF OpenSite, files
  <1>6. D' = D /\ L' = L /\ journal' = journal BY DEF OpenSite, D, L
  <1>7. RollbackInv'
    <2>1. timers' \/ D'.timers BY <1>3, <1>5, <1>6 DEF IInv, RollbackInv
    <2>2. QED BY <1>3, <1>5, <1>6, <2>1, RollbackFrame DEF IInv
  <1>8. app'.rel <= built BY <1>5 DEF IInv, FilesInv
  <1>9. UndoingInv'
    <2>1. /\ D.state # "preparing" /\ app.rel = D.prev /\ Restarted /\ panel.up /\ Live.port = D.port
      BY <1>3 DEF IInv, RollbackInv, UndoingInv, Early, LifeOpen, DataOpen, Final, Unfinished, Opened, Reopening, Pausing, D
    <2>2. (/\ D.state # "preparing" /\ app.rel = D.prev /\ Restarted /\ panel.up /\ Live.port = D.port
            /\ Served(D.port))'
      <3>1. site' = [port |-> D.port, open |-> TRUE] /\ Live' = Live /\ Started' = Started
        BY <1>2, <1>5 DEF OpenSite, Started, Live, InPlace, D
      <3>2. QED BY <1>5, <1>6, <2>1, <3>1 DEF Restarted, Served, LifeOpen, DataOpen
    <2>3. QED BY <1>3, <1>4, <1>6, <2>2 DEF UndoingInv, Early, LifeOpen, DataOpen, Final, Opened, Reopening, Pausing, Unfinished, D
  <1>10. QED BY <1>1, <1>2, <1>5, <1>6, <1>7, <1>8, <1>9, UnrollbackKeeps

LEMMA UnrollbackResumeWriters == ASSUME IInv, op \in {"undo", "recover"}, of = "data", D.kind = "rollback", ResumeWriters PROVE IInv'
  <1>1. Step("resume") BY DEF ResumeWriters
  <1>2. TypeInv' /\ DataTyped /\ DataTyped' /\ of = "data" BY StepsTyped DEF SharedStep, IInv, TypeInv
  <1>3. /\ at = "resume" /\ op' = op /\ of' = "data" /\ Unfinished("data") /\ ~Unfinished("life") /\ ~PendingJob
        /\ UNCHANGED <<backend, saved, restores>> /\ RollbackBackLeads("resume", at')
    BY <1>1, UnrollbackNext
  <1>4. at' = "undone" BY <1>3, RollbackBackOrder
  <1>5. UNCHANGED <<app, built, home, env, dist, dbs, panel, site, job>> BY DEF ResumeWriters, files
  <1>6. D' = D /\ L' = L /\ journal' = journal BY DEF ResumeWriters, D, L
  <1>7. RollbackInv'
    <2>1. timers' \/ D'.timers BY <1>2, <1>3, <1>6 DEF IInv, RollbackInv, ResumeWriters, D
    <2>2. QED BY <1>3, <1>5, <1>6, <2>1, RollbackFrame DEF IInv
  <1>8. app'.rel <= built BY <1>5 DEF IInv, FilesInv
  <1>9. UndoingInv'
    <2>1. /\ D.state # "preparing" /\ app.rel = D.prev /\ Restarted /\ panel.up /\ Live.port = D.port
          /\ Served(D.port)
      BY <1>3 DEF IInv, RollbackInv, UndoingInv, Early, LifeOpen, DataOpen, Final, Unfinished, Opened, Reopening, Pausing, D
    <2>2. (/\ D.state # "preparing" /\ app.rel = D.prev /\ Restarted /\ panel.up /\ Live.port = D.port
            /\ Served(D.port) /\ timers)'
      <3>1. timers' /\ Live' = Live /\ Started' = Started
        BY <1>2, <1>3, <1>5 DEF ResumeWriters, IInv, RollbackInv, Started, Live, InPlace, D
      <3>2. QED BY <1>5, <1>6, <2>1, <3>1 DEF Restarted, Served, LifeOpen, DataOpen
    <2>3. QED BY <1>3, <1>4, <1>6, <2>2 DEF UndoingInv, Early, LifeOpen, DataOpen, Final, Opened, Reopening, Pausing, Unfinished, D
  <1>10. QED BY <1>1, <1>2, <1>5, <1>6, <1>7, <1>8, <1>9, UnrollbackKeeps

LEMMA UnrollbackEnds == ASSUME IInv, op \in {"undo", "recover"}, of = "data", D.kind = "rollback", RolledBack PROVE IInv'
  <1>1. Step("undone") BY UndoneStep
  <1>2. TypeInv' /\ DataTyped /\ DataTyped' BY StepsTyped DEF UndoStep, IInv, TypeInv
  <1>3. /\ at = "undone" /\ op' = "idle" /\ todo' = <<>> /\ Unfinished("data") /\ ~Unfinished("life") /\ ~PendingJob
        /\ UNCHANGED <<backend, saved, restores>>
    <2>1. ~RollbackBackLeads("undone", at') BY DEF RollbackBackLeads, BackLeads, OpenLeads
    <2>2. QED BY <1>1, <2>1, UnrollbackNext
  <1>4. UNCHANGED <<app, built, home, env, dist, dbs, panel, timers, site, job>> BY UndoneStep DEF files
  <1>5. L' = L /\ D'.state = "rolled_back" /\ D'.clone = 0
    BY <1>2 DEF RolledBack, Finish, D, L, DataTyped, Record, NoRecord
  <1>6. ~Unfinished("life")' /\ ~Unfinished("data")' /\ ~PendingJob'
    BY <1>3, <1>4, <1>5 DEF Unfinished, PendingJob, L, D, Final
  <1>7. /\ app.rel = D.prev /\ InPlace /\ Restarted /\ Live.port = D.port /\ Served(D.port) /\ timers
        /\ dist[D.prev] = Env0(D.prev).setting /\ Fits(D.prev, Env0(D.prev).db) /\ Fits(D.to, Env0(D.to).db)
        /\ L.state = "complete" => L.prev = D.to /\ L.to = D.prev
    <2>1. DataOpen /\ D.state = "maintenance" BY <1>3 DEF IInv, RollbackInv, DataOpen, Final
    <2>2. app.rel = D.prev /\ Reopening("data") BY <1>3, <2>1 DEF IInv, UndoingInv
    <2>3. Restarted /\ Live.port = D.port /\ Served(D.port) /\ timers BY <1>3, <2>2 DEF Reopening, D
    <2>4. QED BY <1>3, <2>2, <2>3 DEF IInv, RollbackInv
  <1>8. Live = Env0(D.prev) /\ Live' = Live BY <1>4, <1>7 DEF Live, Env0
  <1>9. OneInv' /\ FilesInv' BY <1>3, <1>4, <1>5, <1>6 DEF IInv, OneInv, FilesInv, PendingJob, Unfinished
  <1>10. RetainedInv'
    <2>1. Env0(L.prev)' = Env0(L.prev) BY <1>4, <1>5 DEF Env0
    <2>2. QED BY <1>4, <1>5, <1>6, <1>7, <1>8, <2>1 DEF IInv, RetainedInv, Keeps, Fits
  <1>11. UpdateInv' /\ RollbackInv' /\ RestoreInv' BY <1>6 DEF UpdateInv, RollbackInv, RestoreInv
  <1>12. JobInv' BY <1>6 DEF JobInv, JobOpen, PendingJob, Final
  <1>13. SoundInv' BY <1>4, <1>7, <1>8 DEF SoundInv, Sound, InPlace, Restarted, Started, Served, Fits
  <1>14. QED BY <1>2, <1>3, <1>6, <1>9, <1>10, <1>11, <1>12, <1>13, IdleKeeps

-----------------------------------------------------------------------------
\* Undoing a restore.

LEMMA UnrestoreNext ==
  ASSUME IInv, op \in {"undo", "recover"}, of = "data", D.kind = "restore", D.state # "preparing", NEW s, Step(s)
  PROVE  /\ at = s /\ of' = "data" /\ Unfinished("data") /\ ~Unfinished("life") /\ ~PendingJob
         /\ UNCHANGED <<backend, saved, restores>>
         /\ \/ op' = "idle" /\ s = "undone" /\ todo' = <<>>
            \/ op' = op /\ s # "undone" /\ RestoreBackLeads(s, at') /\ todo' # <<>>
  <1>1. TypeInv /\ PlanInv /\ OneInv BY DEF IInv
  <1>2. Plan = "unrestore" /\ Last = "undone" BY DEF Plan, Last
  <1>3. Unfinished("data") /\ ~Unfinished("life") /\ ~PendingJob BY <1>1 DEF OneInv
  <1>4. /\ at = s /\ of' = of /\ UNCHANGED <<backend, helper, saved, bounds>>
        /\ \/ op' = "idle" /\ s = Last /\ todo' = <<>>
           \/ op' = op /\ Leads(Plan, s, at') /\ todo' # <<>>
    BY <1>1, Advance
  <1>5. Leads("unrestore", s, at') => RestoreBackLeads(s, at') BY DEF Leads
  <1>6. ~RestoreBackLeads("undone", at') BY DEF RestoreBackLeads, BackLeads, OpenLeads
  <1>7. restores' = restores BY <1>4 DEF bounds
  <1>8. QED BY <1>2, <1>3, <1>4, <1>5, <1>6, <1>7

LEMMA UnrestoreKeeps ==
  ASSUME IInv, op \in {"undo", "recover"}, of = "data", D.kind = "restore", D.state # "preparing", NEW s, Step(s),
         s # "undone", TypeInv', UNCHANGED job, L' = L, D'.kind = D.kind, D'.state = D.state,
         FilesInv', RetainedInv', RestoreInv', UndoingInv'
  PROVE  IInv'
  <1>1. /\ op' = op /\ of' = "data" /\ Unfinished("data") /\ ~Unfinished("life") /\ ~PendingJob
        /\ at = s /\ todo' # <<>> /\ UNCHANGED <<backend, saved, restores>>
    BY UnrestoreNext
  <1>2. Unfinished("data")' /\ ~Unfinished("life")' /\ ~PendingJob' BY <1>1 DEF Unfinished, PendingJob, L, D
  <1>3. PlanInv'
    <2>1. Plan' = Plan BY <1>1, <1>2 DEF Plan
    <2>2. QED BY <2>1, PlanKept DEF IInv
  <1>4. OneInv' BY <1>1, <1>2 DEF OneInv, PendingJob, Final
  <1>5. UpdateInv' /\ RollbackInv' BY <1>2 DEF UpdateInv, RollbackInv
  <1>6. JobInv' BY <1>2 DEF JobInv, JobOpen, PendingJob, Final
  <1>7. SoundInv' BY <1>1 DEF SoundInv, Settled, DataOpen, Unfinished, D
  <1>8. UpdatingInv' /\ RollingBackInv' /\ RestoringInv' /\ ChangingInv' /\ ChangingBackInv' /\ HelperInv'
    BY <1>1, <1>2 DEF HelperInv, UpdatingInv, RollingBackInv, RestoringInv, ChangingInv, ChangingBackInv
  <1>9. QED BY <1>3, <1>4, <1>5, <1>6, <1>7, <1>8 DEF IInv

\* The clone of a restore is of no use to any release.
LEMMA CloneDropped ==
  ASSUME IInv, DataTyped', of = "data", D.kind = "restore", Unfinished("data"), ~Unfinished("life"),
         CleanupRecordedDatabase, UNCHANGED <<backend, saved, restores>>, Live.db # D.clone
  PROVE  /\ FilesInv' /\ RetainedInv' /\ RestoreInv' /\ Fits(app.rel, Live.db)'
         /\ UNCHANGED <<app, built, home, env, dist, panel, timers, site, job>> /\ L' = L /\ D'.kind = D.kind
         /\ D'.state = D.state /\ D'.port = D.port /\ D'.clone = 0
  <1>1. DataTyped BY DEF IInv, TypeInv
  <1>2. UNCHANGED <<app, built, home, env, dist, panel, timers, site, job>> BY DEF CleanupRecordedDatabase
  <1>3. /\ L' = L /\ D'.kind = D.kind /\ D'.prev = D.prev /\ D'.to = D.to /\ D'.port = D.port /\ D'.clone = 0
        /\ D'.state = D.state /\ D'.timers = D.timers /\ D'.backup = D.backup
    BY <1>1 DEF CleanupRecordedDatabase, D, L, DataTyped, Record
  <1>4. \A d : d # D.clone => dbs'[d] = dbs[d] BY <1>1 DEF CleanupRecordedDatabase, D, DataTyped
  <1>5. /\ Unfinished("data")' /\ InPlace' = InPlace /\ Live' = Live
        /\ D.prev = app.rel /\ D.to = app.rel /\ InPlace /\ dist[app.rel] = Live.setting /\ Live.port = D.port
        /\ D.state \in {"preparing", "maintenance", "restoring"} /\ (timers \/ D.timers) /\ Fits(app.rel, Live.db)
        /\ \A b \in D.backup :
             /\ b.env.setting = Live.setting /\ b.env.port = D.port /\ Compatible(SchemaOf[app.rel], b.db.head)
             /\ Fits(app.rel, b.env.db) /\ b.env.db <= restores + 1 /\ (backend = "sqlite" => b.env.db = 1)
        /\ D.clone # 0 => /\ \A r \in Release : r # home[app.rel] => env[r].db # D.clone
                          /\ \A b \in D.backup : b.env.db # D.clone
                          /\ (D.backup = {} => Live.db # D.clone)
        /\ D.state = "preparing" => D.backup = {}
    BY <1>2, <1>3 DEF IInv, RestoreInv, Unfinished, D, InPlace, Live
  <1>6. FilesInv'
    <2>1. 0 <= restores + 1 BY DEF IInv, TypeInv, ControlTyped
    <2>2. QED BY <1>2, <1>3, <2>1 DEF IInv, FilesInv
  <1>7. \A r, d : d # D.clone => Fits(r, d)' = Fits(r, d) BY <1>4 DEF Fits
  <1>8. Database \subseteq Nat \ {0} BY HostAssumption DEF Database, HostAssumption
  <1>9. \A b \in D.backup : b.env.db # D.clone
    <2>1. TAKE b \in D.backup
    <2>2. b \in [db : Copy, env : Env] BY <1>1, Views DEF D
    <2>3. b.env.db # 0 BY <1>8, <2>2 DEF Env
    <2>4. QED BY <1>5, <2>3
  <1>10. RestoreInv' /\ Fits(app.rel, Live.db)'
    <2>1. Fits(app.rel, Live.db)' BY <1>2, <1>7, <1>5
    <2>2. \A b \in D.backup : Fits(app.rel, b.env.db)' BY <1>2, <1>7, <1>9, <1>5
    <2>3. QED BY <1>2, <1>3, <1>5, <2>1, <2>2 DEF RestoreInv
  <1>11. RetainedInv'
    <2>1. SUFFICES ASSUME L.state = "complete" PROVE RetainedInv' BY <1>3 DEF RetainedInv
    <2>2. /\ L.prev < L.to /\ dist[L.prev] = Env0(L.prev).setting /\ app.rel = L.to /\ Keeps(Live.db)
          /\ home[L.prev] # home[L.to] => \A c \in D.backup : Keeps(c.env.db)
      BY <2>1 DEF IInv, RetainedInv, D
    <2>3. home[L.prev] \in Release /\ L'.prev = L.prev /\ L'.to = L.to /\ Env0(L.prev)' = Env0(L.prev)
      BY <1>1, <1>2, <1>3, Views DEF L, DataTyped, Env0
    <2>4. CASE home[L.prev] = home[L.to]
      <3>1. Env0(L.prev) = Live BY <2>2, <2>4 DEF Env0, Live
      <3>2. Keeps(Live.db)' BY <1>5, <2>3, <3>1 DEF Keeps, Fits
      <3>3. QED BY <1>2, <1>3, <1>5, <2>2, <2>3, <2>4, <3>2 DEF RetainedInv
    <2>5. CASE home[L.prev] # home[L.to]
      <3>1. Env0(L.prev).db # D.clone
        <4>1. Env0(L.prev) \in Env BY <1>1, <2>3 DEF DataTyped, Env0
        <4>2. Env0(L.prev).db # 0 BY <1>8, <4>1 DEF Env
        <4>3. QED BY <1>5, <2>2, <2>3, <2>5, <4>2 DEF Env0
      <3>2. \A d : d # D.clone => Keeps(d)' = Keeps(d)
        <4>1. TAKE d
        <4>2. Fits(L.prev, Env0(L.prev).db)' = Fits(L.prev, Env0(L.prev).db) BY <1>4, <2>3, <3>1 DEF Fits
        <4>3. d # D.clone => Fits(L.prev, d)' = Fits(L.prev, d) BY <1>4, <2>3 DEF Fits
        <4>4. QED BY <4>2, <4>3 DEF Keeps
      <3>3. \A c \in D.backup : Keeps(c.env.db)' BY <1>9, <2>2, <2>5, <3>2
      <3>4. Keeps(Live.db)' BY <1>5, <2>2, <3>2
      <3>5. QED BY <1>2, <1>3, <2>2, <2>3, <3>3, <3>4 DEF RetainedInv
    <2>6. QED BY <2>4, <2>5
  <1>12. QED BY <1>2, <1>3, <1>6, <1>10, <1>11

LEMMA UnrestoreStopPanel == ASSUME IInv, op \in {"undo", "recover"}, of = "data", D.kind = "restore", D.state # "preparing", StopPanel PROVE IInv'
  <1>1. Step("stop_panel") BY DEF StopPanel
  <1>2. TypeInv' /\ DataTyped /\ DataTyped' /\ of = "data" BY StepsTyped DEF SharedStep, IInv, TypeInv
  <1>3. /\ at = "stop_panel" /\ op' = op /\ of' = "data" /\ Unfinished("data") /\ ~Unfinished("life") /\ ~PendingJob
        /\ UNCHANGED <<backend, saved, restores>> /\ RestoreBackLeads("stop_panel", at')
    BY <1>1, UnrestoreNext
  <1>4. at' = "pointer" BY <1>3, RestoreBackOrder
  <1>5. UNCHANGED <<app, built, home, env, dist, dbs, timers, site, job>> BY DEF StopPanel, files
  <1>6. D' = D /\ L' = L BY DEF StopPanel, D, L
  <1>7. FilesInv' /\ RetainedInv' /\ RestoreInv'
    <2>1. timers' \/ D'.timers BY <1>2, <1>3, <1>5, <1>6 DEF IInv, RestoreInv, D, StopPanel
    <2>2. Unfinished("data")' BY <1>3, <1>6 DEF Unfinished, D
    <2>3. QED BY <1>3, <1>5, <1>6, <2>1, <2>2, RestoreFrame DEF IInv
  <1>8. UndoingInv'
    <2>1. /\ D.state # "preparing"
      BY <1>3 DEF IInv, UndoingInv, Early, LifeOpen, DataOpen, Final, Unfinished, Opened, Reopening, Pausing, D
    <2>2. (/\ D.state # "preparing")'
      BY <1>2, <1>3, <1>5, <1>6, <2>1, Views DEF Env0, Fits, Live, Started, InPlace, Restarted, Served, Early, L, D, DataTyped, StopPanel
    <2>3. QED BY <1>3, <1>4, <1>6, <2>2 DEF UndoingInv, Early, LifeOpen, DataOpen, Final, Opened, Reopening, Pausing, Unfinished, D
  <1>9. QED BY <1>1, <1>2, <1>5, <1>6, <1>7, <1>8, UnrestoreKeeps

LEMMA UnrestorePointerBack == ASSUME IInv, op \in {"undo", "recover"}, of = "data", D.kind = "restore", D.state # "preparing", PointerBack PROVE IInv'
  <1>1. Step("pointer") BY DEF PointerBack
  <1>2. TypeInv' /\ DataTyped /\ DataTyped' /\ of = "data" BY StepsTyped DEF UndoStep, IInv, TypeInv
  <1>3. /\ at = "pointer" /\ op' = op /\ of' = "data" /\ Unfinished("data") /\ ~Unfinished("life") /\ ~PendingJob
        /\ UNCHANGED <<backend, saved, restores>> /\ RestoreBackLeads("pointer", at')
    BY <1>1, UnrestoreNext
  <1>4. at' = "database" BY <1>3, RestoreBackOrder
  <1>5. UNCHANGED <<built, home, env, dist, dbs, panel, timers, site, job>> BY DEF PointerBack, files
  <1>6. D' = D /\ L' = L BY DEF PointerBack, D, L
  <1>7. app' = app
    <2>1. app' = IF app.at = "link" THEN [at |-> "link", rel |-> D.prev] ELSE app
      BY <1>2, <1>3 DEF PointerBack, D, IInv, RestoreInv, InPlace
    <2>2. app.rel = D.prev BY <1>3 DEF IInv, RestoreInv
    <2>3. QED BY <1>2, <2>1, <2>2 DEF DataTyped
  <1>8. FilesInv' /\ RetainedInv' /\ RestoreInv'
    <2>1. timers' \/ D'.timers BY <1>2, <1>3, <1>5, <1>6 DEF IInv, RestoreInv, D, PointerBack
    <2>2. Unfinished("data")' BY <1>3, <1>6 DEF Unfinished, D
    <2>3. QED BY <1>3, <1>5, <1>6, <1>7, <2>1, <2>2, RestoreFrame DEF IInv
  <1>9. UndoingInv'
    <2>1. /\ D.state # "preparing"
      BY <1>3 DEF IInv, UndoingInv, Early, LifeOpen, DataOpen, Final, Unfinished, Opened, Reopening, Pausing, D
    <2>2. (/\ D.state # "preparing")' BY <1>6, <2>1
    <2>3. QED BY <1>3, <1>4, <1>6, <2>2 DEF UndoingInv, Early, LifeOpen, DataOpen, Final, Opened, Reopening, Pausing, Unfinished, D
  <1>10. QED BY <1>1, <1>2, <1>5, <1>6, <1>8, <1>9, UnrestoreKeeps

LEMMA UnrestoreDatabaseBack == ASSUME IInv, op \in {"undo", "recover"}, of = "data", D.kind = "restore", D.state # "preparing", DatabaseBack PROVE IInv'
  <1>1. Step("database") BY DEF DatabaseBack
  <1>2. TypeInv' /\ DataTyped /\ DataTyped' /\ of = "data" BY StepsTyped DEF UndoStep, IInv, TypeInv
  <1>3. /\ at = "database" /\ op' = op /\ of' = "data" /\ Unfinished("data") /\ ~Unfinished("life") /\ ~PendingJob
        /\ UNCHANGED <<backend, saved, restores>> /\ RestoreBackLeads("database", at')
    BY <1>1, UnrestoreNext
  <1>4. at' = "environment" BY <1>3, RestoreBackOrder
  <1>5. UNCHANGED <<app, built, home, env, dist, panel, timers, site, job>> BY DEF DatabaseBack, files
  <1>6. D' = D /\ L' = L BY DEF DatabaseBack, D, L
  <1>7. /\ Unfinished("data")' /\ InPlace' = InPlace /\ Live' = Live
        /\ D.prev = app.rel /\ D.to = app.rel /\ InPlace /\ dist[app.rel] = Live.setting /\ Live.port = D.port
        /\ D.state \in {"preparing", "maintenance", "restoring"} /\ (timers \/ D.timers) /\ Fits(app.rel, Live.db)
        /\ \A b \in D.backup :
             /\ b.env.setting = Live.setting /\ b.env.port = D.port /\ Compatible(SchemaOf[app.rel], b.db.head)
             /\ Fits(app.rel, b.env.db) /\ b.env.db <= restores + 1 /\ (backend = "sqlite" => b.env.db = 1)
        /\ D.clone # 0 => /\ \A r \in Release : r # home[app.rel] => env[r].db # D.clone
                          /\ \A b \in D.backup : b.env.db # D.clone
                          /\ (D.backup = {} => Live.db # D.clone)
        /\ D.state = "preparing" => D.backup = {}
    BY <1>3, <1>5, <1>6 DEF IInv, RestoreInv, Unfinished, D, InPlace, Live
  <1>8. ASSUME backend = "sqlite", D.backup # {} PROVE FilesInv' /\ RetainedInv' /\ RestoreInv'
    <2>1. (CHOOSE b \in D.backup : TRUE) \in D.backup BY <1>8
    <2>2. PICK b \in D.backup : dbs' = [dbs EXCEPT ![Live.db] = b.db] BY <1>2, <1>8, <2>1 DEF DatabaseBack, D
    <2>3. Live.db = 1 /\ (\A r \in Release : Env0(r).db = 1 /\ Env0(r)' = Env0(r)) /\ D.clone = 0
      BY <1>2, <1>5, <1>8, Views DEF IInv, FilesInv, Live, Env0, DataTyped
    <2>4. dbs'[1] = b.db BY <1>2, <2>2, <2>3, Views DEF DataTyped
    <2>5. FilesInv' BY <1>3, <1>5, <1>6, <1>7 DEF IInv, FilesInv
    <2>6. Fits(app.rel, 1)' BY <1>5, <1>7, <2>4 DEF Fits
    <2>7. RestoreInv'
      <3>1. \A d : d = 1 => Fits(app.rel, d)' BY <1>5, <2>6 DEF Fits
      <3>2. Live' = Live /\ Live.db = 1 /\ D' = D BY <1>6, <1>7, <2>3
      <3>3. QED BY <1>3, <1>5, <1>6, <1>7, <1>8, <2>3, <3>1, <3>2 DEF RestoreInv
    <2>8. RetainedInv'
      <3>1. L.prev \in Release /\ L'.prev = L.prev BY <1>2, <1>6, Views DEF L
      <3>2. Keeps(1)' BY <2>3, <3>1 DEF Keeps, Fits
      <3>3. QED BY <1>3, <1>5, <1>6, <1>7, <1>8, <2>3, <3>1, <3>2 DEF IInv, RetainedInv, Keeps
    <2>9. QED BY <2>5, <2>7, <2>8
  <1>9. ASSUME ~(backend = "sqlite" /\ D.backup # {}) PROVE FilesInv' /\ RetainedInv' /\ RestoreInv'
    <2>1. dbs' = dbs BY <1>2, <1>9 DEF DatabaseBack, D
    <2>2. QED BY <1>3, <1>5, <1>6, <1>7, <2>1, RestoreFrame DEF IInv
  <1>10. FilesInv' /\ RetainedInv' /\ RestoreInv' BY <1>8, <1>9
  <1>11. UndoingInv'
    <2>1. /\ D.state # "preparing"
      BY <1>3 DEF IInv, UndoingInv, Early, LifeOpen, DataOpen, Final, Unfinished, Opened, Reopening, Pausing, D
    <2>2. (/\ D.state # "preparing")' BY <1>6, <2>1
    <2>3. QED BY <1>3, <1>4, <1>6, <2>2 DEF UndoingInv, Early, LifeOpen, DataOpen, Final, Opened, Reopening, Pausing, Unfinished, D
  <1>12. QED BY <1>1, <1>2, <1>5, <1>6, <1>10, <1>11, UnrestoreKeeps

LEMMA UnrestoreRestoreRecordedEnvironment == ASSUME IInv, op \in {"undo", "recover"}, of = "data", D.kind = "restore", D.state # "preparing", RestoreRecordedEnvironment PROVE IInv'
  <1>1. Step("environment") BY DEF RestoreRecordedEnvironment
  <1>2. TypeInv' /\ DataTyped /\ DataTyped' /\ of = "data" BY StepsTyped DEF UndoStep, IInv, TypeInv
  <1>3. /\ at = "environment" /\ op' = op /\ of' = "data" /\ Unfinished("data") /\ ~Unfinished("life") /\ ~PendingJob
        /\ UNCHANGED <<backend, saved, restores>> /\ RestoreBackLeads("environment", at')
    BY <1>1, UnrestoreNext
  <1>4. at' = "drop" BY <1>3, RestoreBackOrder
  <1>5. UNCHANGED <<built, home, dist, dbs, panel, timers, site, job>> BY DEF RestoreRecordedEnvironment, files
  <1>6. D' = D /\ L' = L BY DEF RestoreRecordedEnvironment, D, L
  <1>7. app' = app
    <2>1. app.at # "gone" BY <1>3 DEF IInv, RestoreInv, InPlace
    <2>2. QED BY <1>2, <2>1 DEF RestoreRecordedEnvironment
  <1>8. /\ Unfinished("data")' /\ InPlace' = InPlace
        /\ D.prev = app.rel /\ D.to = app.rel /\ InPlace /\ dist[app.rel] = Live.setting /\ Live.port = D.port
        /\ D.state \in {"preparing", "maintenance", "restoring"} /\ (timers \/ D.timers) /\ Fits(app.rel, Live.db)
        /\ \A b \in D.backup :
             /\ b.env.setting = Live.setting /\ b.env.port = D.port /\ Compatible(SchemaOf[app.rel], b.db.head)
             /\ Fits(app.rel, b.env.db) /\ b.env.db <= restores + 1 /\ (backend = "sqlite" => b.env.db = 1)
        /\ D.clone # 0 => /\ \A r \in Release : r # home[app.rel] => env[r].db # D.clone
                          /\ \A b \in D.backup : b.env.db # D.clone
                          /\ (D.backup = {} => Live.db # D.clone)
        /\ D.state = "preparing" => D.backup = {}
    BY <1>3, <1>5, <1>6, <1>7 DEF IInv, RestoreInv, Unfinished, D, InPlace
  <1>9. ASSUME NEW b \in D.backup, env' = [env EXCEPT ![home[app.rel]] = b.env]
        PROVE  FilesInv' /\ RetainedInv' /\ RestoreInv' /\ Live'.db = b.env.db
    <2>1. /\ home[app.rel] \in Release /\ env'[home[app.rel]] = b.env /\ Live' = b.env
          /\ \A r \in Release : r # home[app.rel] => env'[r] = env[r]
      BY <1>2, <1>5, <1>7, <1>9, Views DEF DataTyped, Live
    <2>2. \A r \in Release : env'[r].db <= restores + 1
      <3>1. TAKE r \in Release
      <3>2. CASE r = home[app.rel] BY <1>8, <2>1, <3>2
      <3>3. CASE r # home[app.rel] BY <2>1, <3>3 DEF IInv, FilesInv
      <3>4. QED BY <3>2, <3>3
    <2>3. FilesInv'
      <3>1. backend = "sqlite" => \A r \in Release : env'[r].db = 1 BY <1>8, <2>1 DEF IInv, FilesInv
      <3>2. QED BY <1>3, <1>5, <1>6, <1>7, <1>8, <2>2, <3>1 DEF IInv, FilesInv
    <2>4. \A r, d : Fits(r, d)' = Fits(r, d) BY <1>5 DEF Fits
    <2>5. RestoreInv'
      <3>1. \A c \in D.backup : Fits(app.rel, c.env.db)' BY <1>7, <1>8, <2>4
      <3>2. Fits(app.rel, Live.db)' BY <1>7, <2>1, <3>1
      <3>3. b.env.setting = Live.setting /\ b.env.port = D.port
            /\ \A c \in D.backup : c.env.setting = Live.setting
        BY <1>8
      <3>4. QED BY <1>3, <1>5, <1>6, <1>7, <1>8, <2>1, <3>1, <3>2, <3>3 DEF RestoreInv
    <2>6. RetainedInv'
      <3>1. SUFFICES ASSUME L.state = "complete" PROVE RetainedInv' BY <1>6 DEF RetainedInv
      <3>2. /\ L.prev < L.to /\ dist[L.prev] = Env0(L.prev).setting /\ app.rel = L.to /\ Keeps(Live.db)
            /\ home[L.prev] # home[L.to] => \A c \in D.backup : Keeps(c.env.db)
        BY <1>3, <3>1 DEF IInv, RetainedInv, D
      <3>3. home[L.prev] \in Release /\ L'.prev = L.prev /\ L'.to = L.to BY <1>2, <1>6, Views DEF L, DataTyped
      <3>4. CASE home[L.prev] = home[app.rel]
        <4>1. Env0(L.prev) = Live /\ Env0(L.prev)' = Live' BY <1>5, <1>7, <3>3, <3>4 DEF Env0, Live
        <4>2. Keeps(Live.db)' BY <4>1, <3>3 DEF Keeps, Fits
        <4>3. QED BY <1>5, <1>6, <1>7, <1>8, <2>1, <3>2, <3>3, <3>4, <4>1, <4>2 DEF RetainedInv
      <3>5. CASE home[L.prev] # home[app.rel]
        <4>1. Env0(L.prev)' = Env0(L.prev) BY <1>5, <2>1, <3>3, <3>5 DEF Env0
        <4>2. \A d : Keeps(d)' = Keeps(d)
          <5>1. TAKE d
          <5>2. Fits(L.prev, d)' = Fits(L.prev, d) /\ Fits(L.prev, Env0(L.prev).db)' = Fits(L.prev, Env0(L.prev).db)
            BY <1>5, <3>3, <4>1 DEF Fits
          <5>3. QED BY <5>2 DEF Keeps
        <4>3. Keeps(Live.db)' BY <2>1, <3>2, <3>5, <4>2
        <4>4. \A c \in D.backup : Keeps(c.env.db)' BY <3>2, <3>5, <4>2
        <4>5. QED BY <1>5, <1>6, <1>7, <3>2, <3>3, <4>1, <4>3, <4>4 DEF RetainedInv
      <3>6. QED BY <3>4, <3>5
    <2>7. QED BY <2>1, <2>3, <2>5, <2>6
  <1>10. ASSUME D.backup # {} PROVE \E b \in D.backup : env' = [env EXCEPT ![home[app.rel]] = b.env]
    <2>1. (CHOOSE b \in D.backup : TRUE) \in D.backup BY <1>10
    <2>2. env' = [env EXCEPT ![home[app.rel]] = (CHOOSE b \in D.backup : TRUE).env]
      BY <1>2, <1>8, <1>10 DEF RestoreRecordedEnvironment, WriteEnv, D
    <2>3. QED BY <2>1, <2>2
  <1>11. ASSUME D.backup = {} PROVE FilesInv' /\ RetainedInv' /\ RestoreInv' /\ Live' = Live
    <2>1. env' = env BY <1>2, <1>11 DEF RestoreRecordedEnvironment, D
    <2>2. Live' = Live BY <1>5, <1>7, <2>1 DEF Live
    <2>3. QED BY <1>3, <1>5, <1>6, <1>7, <1>8, <2>1, <2>2, RestoreFrame DEF IInv
  <1>12. FilesInv' /\ RetainedInv' /\ RestoreInv'
    <2>1. CASE D.backup = {} BY <1>11, <2>1
    <2>2. CASE D.backup # {} BY <1>9, <1>10, <2>2
    <2>3. QED BY <2>1, <2>2
  <1>13. UndoingInv'
    <2>1. /\ D.state # "preparing"
      BY <1>3 DEF IInv, UndoingInv, Early, LifeOpen, DataOpen, Final, Unfinished, Opened, Reopening, Pausing, D
    <2>2. (/\ D.state # "preparing" /\ Live.db # D.clone)'
      <3>1. Live.db \in Database /\ Database \subseteq Nat \ {0} BY <1>2, HostAssumption, Views DEF Database, HostAssumption
      <3>2. CASE D.backup = {}
        <4>1. Live' = Live BY <1>11, <3>2
        <4>2. Live.db # D.clone BY <1>8, <3>1, <3>2
        <4>3. QED BY <1>6, <2>1, <4>1, <4>2
      <3>3. CASE D.backup # {}
        <4>1. PICK b \in D.backup : Live'.db = b.env.db BY <1>9, <1>10, <3>3
        <4>2. b.env.db # 0
          <5>1. b \in [db : Copy, env : Env] BY <1>2, Views DEF D
          <5>2. b.env.db \in Database BY <5>1 DEF Env
          <5>3. QED BY <3>1, <5>2
        <4>3. b.env.db # D.clone BY <1>8, <4>2
        <4>4. QED BY <1>6, <2>1, <4>1, <4>3
      <3>4. QED BY <3>2, <3>3
    <2>3. QED BY <1>3, <1>4, <1>6, <2>2 DEF UndoingInv, Early, LifeOpen, DataOpen, Final, Opened, Reopening, Pausing, Unfinished, D
  <1>14. QED BY <1>1, <1>2, <1>5, <1>6, <1>12, <1>13, UnrestoreKeeps

LEMMA UnrestoreCleanupRecordedDatabase == ASSUME IInv, op \in {"undo", "recover"}, of = "data", D.kind = "restore", D.state # "preparing", CleanupRecordedDatabase PROVE IInv'
  <1>1. Step("drop") BY DEF CleanupRecordedDatabase
  <1>2. TypeInv' /\ DataTyped /\ DataTyped' /\ of = "data" BY StepsTyped DEF UndoStep, IInv, TypeInv
  <1>3. /\ at = "drop" /\ op' = op /\ of' = "data" /\ Unfinished("data") /\ ~Unfinished("life") /\ ~PendingJob
        /\ UNCHANGED <<backend, saved, restores>> /\ RestoreBackLeads("drop", at')
    BY <1>1, UnrestoreNext
  <1>4. at' = "restart" BY <1>3, RestoreBackOrder
  <1>5. UNCHANGED <<app, built, home, env, dist, panel, timers, site, job>> BY DEF CleanupRecordedDatabase, files
  <1>6. Live.db # D.clone BY <1>3 DEF IInv, UndoingInv, DataOpen, Unfinished, D
  <1>7. /\ FilesInv' /\ RetainedInv' /\ RestoreInv' /\ L' = L
        /\ D'.kind = D.kind /\ D'.state = D.state /\ D'.port = D.port /\ D'.clone = 0
    BY <1>2, <1>3, <1>6, CloneDropped
  <1>8. UndoingInv'
    <2>1. /\ D.state # "preparing" /\ Live.db # D.clone
      BY <1>3 DEF IInv, UndoingInv, Early, LifeOpen, DataOpen, Final, Unfinished, Opened, Reopening, Pausing, D
    <2>2. (/\ D.state # "preparing" /\ Live.db # D.clone)'
      <3>1. Live' = Live BY <1>5 DEF Live
      <3>2. Live.db # 0 BY <1>2, HostAssumption, Views DEF Database, HostAssumption
      <3>3. QED BY <1>7, <2>1, <3>1, <3>2
    <2>3. QED BY <1>3, <1>4, <1>7, <2>2 DEF UndoingInv, Early, LifeOpen, DataOpen, Final, Opened, Reopening, Pausing, Unfinished, D
  <1>9. QED BY <1>1, <1>2, <1>5, <1>6, <1>7, <1>8, UnrestoreKeeps

LEMMA UnrestoreRestart == ASSUME IInv, op \in {"undo", "recover"}, of = "data", D.kind = "restore", D.state # "preparing", Restart PROVE IInv'
  <1>1. Step("restart") BY DEF Restart
  <1>2. TypeInv' /\ DataTyped /\ DataTyped' /\ of = "data" BY StepsTyped DEF SharedStep, IInv, TypeInv
  <1>3. /\ at = "restart" /\ op' = op /\ of' = "data" /\ Unfinished("data") /\ ~Unfinished("life") /\ ~PendingJob
        /\ UNCHANGED <<backend, saved, restores>> /\ RestoreBackLeads("restart", at')
    BY <1>1, UnrestoreNext
  <1>4. at' = "health" BY <1>3, RestoreBackOrder
  <1>5. UNCHANGED <<app, built, home, env, dist, dbs, timers, site, job>> BY DEF Restart, files
  <1>6. D' = D /\ L' = L BY DEF Restart, D, L
  <1>7. FilesInv' /\ RetainedInv' /\ RestoreInv'
    <2>1. timers' \/ D'.timers BY <1>2, <1>3, <1>5, <1>6 DEF IInv, RestoreInv, D, Restart
    <2>2. Unfinished("data")' BY <1>3, <1>6 DEF Unfinished, D
    <2>3. QED BY <1>3, <1>5, <1>6, <2>1, <2>2, RestoreFrame DEF IInv
  <1>8. UndoingInv'
    <2>1. /\ D.state # "preparing" /\ Live.db # D.clone
      BY <1>3 DEF IInv, UndoingInv, Early, LifeOpen, DataOpen, Final, Unfinished, Opened, Reopening, Pausing, D
    <2>2. (/\ D.state # "preparing" /\ Live.db # D.clone /\ Restarted)'
      <3>1. panel' = Started /\ Live' = Live /\ Started' = Started BY <1>5 DEF Restart, Started, Live, InPlace
      <3>2. QED BY <1>5, <1>6, <2>1, <3>1 DEF Restarted, LifeOpen, DataOpen
    <2>3. QED BY <1>3, <1>4, <1>6, <2>2 DEF UndoingInv, Early, LifeOpen, DataOpen, Final, Opened, Reopening, Pausing, Unfinished, D
  <1>9. QED BY <1>1, <1>2, <1>5, <1>6, <1>7, <1>8, UnrestoreKeeps

LEMMA UnrestoreHealth == ASSUME IInv, op \in {"undo", "recover"}, of = "data", D.kind = "restore", D.state # "preparing", Health PROVE IInv'
  <1>1. Step("health") BY DEF Health
  <1>2. TypeInv' /\ DataTyped /\ DataTyped' /\ of = "data" BY StepsTyped DEF SharedStep, IInv, TypeInv
  <1>3. /\ at = "health" /\ op' = op /\ of' = "data" /\ Unfinished("data") /\ ~Unfinished("life") /\ ~PendingJob
        /\ UNCHANGED <<backend, saved, restores>> /\ RestoreBackLeads("health", at')
    BY <1>1, UnrestoreNext
  <1>4. at' = "open" BY <1>3, RestoreBackOrder
  <1>5. UNCHANGED <<app, built, home, env, dist, dbs, panel, timers, site, job>> BY DEF Health, files
  <1>6. D' = D /\ L' = L BY DEF Health, D, L
  <1>7. FilesInv' /\ RetainedInv' /\ RestoreInv'
    <2>1. timers' \/ D'.timers BY <1>2, <1>3, <1>5, <1>6 DEF IInv, RestoreInv, D, Health
    <2>2. Unfinished("data")' BY <1>3, <1>6 DEF Unfinished, D
    <2>3. QED BY <1>3, <1>5, <1>6, <2>1, <2>2, RestoreFrame DEF IInv
  <1>8. UndoingInv'
    <2>1. /\ D.state # "preparing" /\ Live.db # D.clone /\ Restarted
      BY <1>3 DEF IInv, UndoingInv, Early, LifeOpen, DataOpen, Final, Unfinished, Opened, Reopening, Pausing, D
    <2>2. (/\ D.state # "preparing" /\ Live.db # D.clone /\ Restarted /\ panel.up /\ Live.port = D.port)'
      <3>1. panel.up /\ Live.port = D.port /\ Live' = Live /\ Started' = Started
        BY <1>2, <1>5, <2>1 DEF Health, Healthy, Restarted, Started, Live, InPlace, D
      <3>2. QED BY <1>5, <1>6, <2>1, <3>1 DEF Restarted, LifeOpen, DataOpen
    <2>3. QED BY <1>3, <1>4, <1>6, <2>2 DEF UndoingInv, Early, LifeOpen, DataOpen, Final, Opened, Reopening, Pausing, Unfinished, D
  <1>9. QED BY <1>1, <1>2, <1>5, <1>6, <1>7, <1>8, UnrestoreKeeps

LEMMA UnrestoreOpenSite == ASSUME IInv, op \in {"undo", "recover"}, of = "data", D.kind = "restore", D.state # "preparing", OpenSite PROVE IInv'
  <1>1. Step("open") BY DEF OpenSite
  <1>2. TypeInv' /\ DataTyped /\ DataTyped' /\ of = "data" BY StepsTyped DEF SharedStep, IInv, TypeInv
  <1>3. /\ at = "open" /\ op' = op /\ of' = "data" /\ Unfinished("data") /\ ~Unfinished("life") /\ ~PendingJob
        /\ UNCHANGED <<backend, saved, restores>> /\ RestoreBackLeads("open", at')
    BY <1>1, UnrestoreNext
  <1>4. at' = "resume" BY <1>3, RestoreBackOrder
  <1>5. UNCHANGED <<app, built, home, env, dist, dbs, panel, timers, job>> BY DEF OpenSite, files
  <1>6. D' = D /\ L' = L BY DEF OpenSite, D, L
  <1>7. FilesInv' /\ RetainedInv' /\ RestoreInv'
    <2>1. timers' \/ D'.timers BY <1>2, <1>3, <1>5, <1>6 DEF IInv, RestoreInv, D, OpenSite
    <2>2. Unfinished("data")' BY <1>3, <1>6 DEF Unfinished, D
    <2>3. QED BY <1>3, <1>5, <1>6, <2>1, <2>2, RestoreFrame DEF IInv
  <1>8. UndoingInv'
    <2>1. /\ D.state # "preparing" /\ Live.db # D.clone /\ Restarted /\ panel.up /\ Live.port = D.port
      BY <1>3 DEF IInv, UndoingInv, Early, LifeOpen, DataOpen, Final, Unfinished, Opened, Reopening, Pausing, D
    <2>2. (/\ D.state # "preparing" /\ Live.db # D.clone /\ Restarted /\ panel.up /\ Live.port = D.port
            /\ Served(D.port))'
      <3>1. site' = [port |-> D.port, open |-> TRUE] /\ Live' = Live /\ Started' = Started
        BY <1>2, <1>5 DEF OpenSite, Started, Live, InPlace, D
      <3>2. QED BY <1>5, <1>6, <2>1, <3>1 DEF Restarted, Served, LifeOpen, DataOpen
    <2>3. QED BY <1>3, <1>4, <1>6, <2>2 DEF UndoingInv, Early, LifeOpen, DataOpen, Final, Opened, Reopening, Pausing, Unfinished, D
  <1>9. QED BY <1>1, <1>2, <1>5, <1>6, <1>7, <1>8, UnrestoreKeeps

LEMMA UnrestoreResumeWriters == ASSUME IInv, op \in {"undo", "recover"}, of = "data", D.kind = "restore", D.state # "preparing", ResumeWriters PROVE IInv'
  <1>1. Step("resume") BY DEF ResumeWriters
  <1>2. TypeInv' /\ DataTyped /\ DataTyped' /\ of = "data" BY StepsTyped DEF SharedStep, IInv, TypeInv
  <1>3. /\ at = "resume" /\ op' = op /\ of' = "data" /\ Unfinished("data") /\ ~Unfinished("life") /\ ~PendingJob
        /\ UNCHANGED <<backend, saved, restores>> /\ RestoreBackLeads("resume", at')
    BY <1>1, UnrestoreNext
  <1>4. at' = "undone" BY <1>3, RestoreBackOrder
  <1>5. UNCHANGED <<app, built, home, env, dist, dbs, panel, site, job>> BY DEF ResumeWriters, files
  <1>6. D' = D /\ L' = L BY DEF ResumeWriters, D, L
  <1>7. FilesInv' /\ RetainedInv' /\ RestoreInv'
    <2>1. timers' \/ D'.timers BY <1>2, <1>3, <1>5, <1>6 DEF IInv, RestoreInv, D, ResumeWriters
    <2>2. Unfinished("data")' BY <1>3, <1>6 DEF Unfinished, D
    <2>3. QED BY <1>3, <1>5, <1>6, <2>1, <2>2, RestoreFrame DEF IInv
  <1>8. UndoingInv'
    <2>1. /\ D.state # "preparing" /\ Live.db # D.clone /\ Restarted /\ panel.up /\ Live.port = D.port
          /\ Served(D.port)
      BY <1>3 DEF IInv, UndoingInv, Early, LifeOpen, DataOpen, Final, Unfinished, Opened, Reopening, Pausing, D
    <2>2. (/\ D.state # "preparing" /\ Live.db # D.clone /\ Restarted /\ panel.up /\ Live.port = D.port
            /\ Served(D.port) /\ timers)'
      <3>1. timers' /\ Live' = Live /\ Started' = Started
        BY <1>2, <1>3, <1>5 DEF ResumeWriters, IInv, RestoreInv, Started, Live, InPlace, D
      <3>2. QED BY <1>5, <1>6, <2>1, <3>1 DEF Restarted, Served, LifeOpen, DataOpen
    <2>3. QED BY <1>3, <1>4, <1>6, <2>2 DEF UndoingInv, Early, LifeOpen, DataOpen, Final, Opened, Reopening, Pausing, Unfinished, D
  <1>9. QED BY <1>1, <1>2, <1>5, <1>6, <1>7, <1>8, UnrestoreKeeps

LEMMA DropNext ==
  ASSUME IInv, op \in {"undo", "recover"}, of = "data", D.state = "preparing", NEW s, Step(s)
  PROVE  /\ at = s /\ of' = "data" /\ Unfinished("data") /\ ~Unfinished("life") /\ ~PendingJob
         /\ UNCHANGED <<backend, saved, restores>>
         /\ \/ op' = "idle" /\ s = "undone" /\ todo' = <<>>
            \/ op' = op /\ s # "undone" /\ s = "drop" /\ at' = "undone" /\ todo' # <<>>
  <1>1. TypeInv /\ PlanInv /\ OneInv BY DEF IInv
  <1>2. Plan = "drop" /\ Last = "undone" BY DEF Plan, Last
  <1>3. Unfinished("data") /\ ~Unfinished("life") /\ ~PendingJob BY <1>1 DEF OneInv
  <1>4. /\ at = s /\ of' = of /\ UNCHANGED <<backend, helper, saved, bounds>>
        /\ \/ op' = "idle" /\ s = Last /\ todo' = <<>>
           \/ op' = op /\ Leads(Plan, s, at') /\ todo' # <<>>
    BY <1>1, Advance
  <1>5. Leads("drop", s, at') => s = "drop" /\ at' = "undone" BY DEF Leads
  <1>6. restores' = restores BY <1>4 DEF bounds
  <1>7. QED BY <1>2, <1>3, <1>4, <1>5, <1>6

LEMMA DropCleanup == ASSUME IInv, op \in {"undo", "recover"}, of = "data", D.state = "preparing", CleanupRecordedDatabase PROVE IInv'
  <1>1. Step("drop") BY DEF CleanupRecordedDatabase
  <1>2. TypeInv' /\ DataTyped /\ DataTyped' BY StepsTyped DEF UndoStep, IInv, TypeInv
  <1>3. /\ at = "drop" /\ op' = op /\ of' = "data" /\ todo' # <<>> /\ Unfinished("data") /\ ~Unfinished("life") /\ ~PendingJob
        /\ UNCHANGED <<backend, saved, restores>>
    BY <1>1, DropNext
  <1>4. D.kind = "restore" /\ Live.db # D.clone
    <2>1. D.kind = "restore" BY <1>3 DEF IInv, RollbackInv, RestoreInv
    <2>2. D.clone # 0 => Live.db # D.clone BY <1>3, <2>1 DEF IInv, RestoreInv
    <2>3. Live.db # 0 BY <1>2, HostAssumption, Views DEF Database, HostAssumption
    <2>4. QED BY <2>1, <2>2, <2>3
  <1>5. /\ FilesInv' /\ RetainedInv' /\ RestoreInv' /\ Fits(app.rel, Live.db)' /\ L' = L
        /\ D'.kind = D.kind /\ D'.state = D.state /\ D'.port = D.port
        /\ UNCHANGED <<app, built, home, env, dist, panel, timers, site, job>>
    BY <1>2, <1>3, <1>4, CloneDropped
  <1>6. Unfinished("data")' /\ ~Unfinished("life")' /\ ~PendingJob'
    BY <1>3, <1>5 DEF Unfinished, PendingJob, L, D
  <1>7. PlanInv'
    <2>1. Plan' = Plan BY <1>3, <1>5 DEF Plan
    <2>2. QED BY <1>1, <2>1, PlanKept DEF IInv
  <1>8. OneInv' BY <1>3, <1>6 DEF OneInv, PendingJob, Final
  <1>9. UpdateInv' /\ RollbackInv' BY <1>4, <1>5, <1>6 DEF UpdateInv, RollbackInv
  <1>10. JobInv' BY <1>6 DEF JobInv, JobOpen, PendingJob, Final
  <1>11. SoundInv'
    <2>1. Sound BY <1>3 DEF IInv, SoundInv, Settled, LifeOpen, DataOpen, JobOpen, PendingJob, Unfinished, L, Final
    <2>2. Live' = Live /\ Started' = Started /\ InPlace' = InPlace BY <1>5 DEF Live, Started, InPlace
    <2>3. QED BY <1>5, <2>1, <2>2 DEF SoundInv, Sound, Served
  <1>12. UpdatingInv' /\ RollingBackInv' /\ RestoringInv' /\ ChangingInv' /\ ChangingBackInv' /\ HelperInv'
    BY <1>3, <1>6 DEF HelperInv, UpdatingInv, RollingBackInv, RestoringInv, ChangingInv, ChangingBackInv
  <1>13. UndoingInv' BY <1>3, <1>5 DEF UndoingInv, DataOpen
  <1>14. QED BY <1>2, <1>5, <1>7, <1>8, <1>9, <1>10, <1>11, <1>12, <1>13 DEF IInv

LEMMA UnrestoreEnds == ASSUME IInv, op \in {"undo", "recover"}, of = "data", D.kind = "restore", RolledBack PROVE IInv'
  <1>1. Step("undone") BY UndoneStep
  <1>2. TypeInv' /\ DataTyped /\ DataTyped' BY StepsTyped DEF UndoStep, IInv, TypeInv
  <1>3. /\ at = "undone" /\ op' = "idle" /\ todo' = <<>> /\ Unfinished("data") /\ ~Unfinished("life") /\ ~PendingJob
        /\ UNCHANGED <<backend, saved, restores>>
    <2>1. ~RestoreBackLeads("undone", at') BY DEF RestoreBackLeads, BackLeads, OpenLeads
    <2>2. CASE D.state = "preparing" BY <1>1, <2>2, DropNext
    <2>3. CASE D.state # "preparing" BY <1>1, <2>1, <2>3, UnrestoreNext
    <2>4. QED BY <2>2, <2>3
  <1>4. UNCHANGED <<app, built, home, env, dist, dbs, panel, timers, site, job>> BY UndoneStep DEF files
  <1>5. L' = L /\ D'.state = "rolled_back" /\ D'.clone = 0
    BY <1>2 DEF RolledBack, Finish, D, L, DataTyped, Record, NoRecord
  <1>6. ~Unfinished("life")' /\ ~Unfinished("data")' /\ ~PendingJob'
    BY <1>3, <1>4, <1>5 DEF Unfinished, PendingJob, L, D, Final
  <1>7. Sound
    <2>1. CASE D.state = "preparing"
      BY <1>3, <2>1 DEF IInv, SoundInv, Settled, LifeOpen, DataOpen, JobOpen, PendingJob, Unfinished, L, Final
    <2>2. CASE D.state # "preparing"
      <3>1. DataOpen BY <1>3, <2>2 DEF DataOpen, Unfinished, D
      <3>2. Restarted /\ Live.port = D.port /\ Served(D.port) /\ timers
        BY <1>3, <3>1 DEF IInv, UndoingInv, Reopening, D
      <3>3. InPlace /\ dist[app.rel] = Live.setting /\ Fits(app.rel, Live.db) BY <1>3 DEF IInv, RestoreInv
      <3>4. QED BY <3>2, <3>3 DEF Sound, Restarted
    <2>3. QED BY <2>1, <2>2
  <1>8. Live' = Live BY <1>4 DEF Live
  <1>9. OneInv' BY <1>3, <1>4, <1>6 DEF IInv, OneInv, PendingJob
  <1>10. FilesInv'
    <2>1. 0 <= restores + 1 BY DEF IInv, TypeInv, ControlTyped
    <2>2. QED BY <1>3, <1>4, <1>5, <1>6, <2>1 DEF IInv, FilesInv
  <1>11. RetainedInv'
    <2>1. Env0(L.prev)' = Env0(L.prev) BY <1>4, <1>5 DEF Env0
    <2>2. L.state = "complete" => L.prev < L.to /\ dist[L.prev] = Env0(L.prev).setting /\ app.rel = L.to /\ Keeps(Live.db)
      BY <1>3 DEF IInv, RetainedInv
    <2>3. Keeps(Live.db)' = Keeps(Live.db) BY <1>4, <1>5, <1>8, <2>1 DEF Keeps, Fits
    <2>4. QED BY <1>4, <1>5, <1>6, <1>8, <2>1, <2>2, <2>3 DEF RetainedInv
  <1>12. UpdateInv' /\ RollbackInv' /\ RestoreInv' BY <1>6 DEF UpdateInv, RollbackInv, RestoreInv
  <1>13. JobInv' BY <1>6 DEF JobInv, JobOpen, PendingJob, Final
  <1>14. SoundInv' BY <1>4, <1>7, <1>8 DEF SoundInv, Sound, InPlace, Started, Served, Fits
  <1>15. QED BY <1>2, <1>3, <1>6, <1>9, <1>10, <1>11, <1>12, <1>13, <1>14, IdleKeeps

-----------------------------------------------------------------------------
\* A settings change, step by step.

LEMMA ApplyNext ==
  ASSUME IInv, op = "forward", of = "job", NEW s, Step(s)
  PROVE  /\ at = s /\ of' = "job" /\ PendingJob /\ ~Unfinished("life") /\ ~Unfinished("data")
         /\ UNCHANGED <<backend, saved, restores>>
         /\ \/ op' = "idle" /\ s = "applied" /\ todo' = <<>>
            \/ op' = "forward" /\ s # "applied" /\ ApplyLeads(s, at') /\ todo' # <<>>
  <1>1. TypeInv /\ PlanInv /\ OneInv BY DEF IInv
  <1>2. Plan = "apply" /\ Last = "applied" BY DEF Plan, Last
  <1>3. PendingJob /\ ~Unfinished("data") /\ ~Unfinished("life") BY <1>1 DEF OneInv
  <1>4. /\ at = s /\ of' = of /\ UNCHANGED <<backend, helper, saved, bounds>>
        /\ \/ op' = "idle" /\ s = Last /\ todo' = <<>>
           \/ op' = op /\ Leads(Plan, s, at') /\ todo' # <<>>
    BY <1>1, Advance
  <1>5. Leads("apply", s, at') => ApplyLeads(s, at') BY DEF Leads
  <1>6. ~ApplyLeads("applied", at') BY DEF ApplyLeads
  <1>7. restores' = restores BY <1>4 DEF bounds
  <1>8. QED BY <1>2, <1>3, <1>4, <1>5, <1>6, <1>7

LEMMA UnapplyNext ==
  ASSUME IInv, op \in {"undo", "recover"}, of = "job", NEW s, Step(s)
  PROVE  /\ at = s /\ of' = "job" /\ PendingJob /\ UNCHANGED <<backend, saved, restores>>
         /\ \/ op' = "idle" /\ s = "unapplied" /\ todo' = <<>>
            \/ /\ op' = op /\ s # "unapplied" /\ todo' # <<>> /\ JobOpen /\ ~Unfinished("life") /\ ~Unfinished("data")
               /\ op = "undo" => ApplyBackLeads(s, at')
               /\ op = "recover" => ApplyRecoverLeads(s, at')
  <1>1. TypeInv /\ PlanInv /\ OneInv BY DEF IInv
  <1>2. Plan = (IF op = "undo" THEN "unapply" ELSE "recover") /\ Last = "unapplied" BY DEF Plan, Last
  <1>3. PendingJob BY <1>1 DEF OneInv
  <1>4. /\ at = s /\ of' = of /\ UNCHANGED <<backend, helper, saved, bounds>>
        /\ \/ op' = "idle" /\ s = Last /\ todo' = <<>>
           \/ op' = op /\ Leads(Plan, s, at') /\ todo' # <<>>
    BY <1>1, Advance
  <1>5. /\ Leads("unapply", s, at') => ApplyBackLeads(s, at')
        /\ Leads("recover", s, at') => ApplyRecoverLeads(s, at')
    BY DEF Leads
  <1>6. ~ApplyBackLeads("unapplied", at') /\ ~ApplyRecoverLeads("unapplied", at')
    BY DEF ApplyBackLeads, ApplyRecoverLeads
  <1>7. restores' = restores BY <1>4 DEF bounds
  <1>8. s # "unapplied" => JobOpen BY <1>4 DEF IInv, ChangingBackInv
  <1>9. JobOpen => ~Unfinished("life") /\ ~Unfinished("data") BY <1>1 DEF OneInv, JobOpen, Final
  <1>10. QED BY <1>2, <1>3, <1>4, <1>5, <1>6, <1>7, <1>8, <1>9

\* What a step of a settings change, or of its undoing, has to keep that is
\* not its last one.
LEMMA ChangeKeeps ==
  ASSUME IInv, op \in {"forward", "undo", "recover"}, of = "job", NEW s, Step(s), s \notin {"applied", "unapplied"},
         TypeInv', UNCHANGED journal, PendingJob', FilesInv', RetainedInv', JobInv', SoundInv',
         op = "forward" => ChangingInv', op # "forward" => ChangingBackInv' /\ JobOpen'
  PROVE  IInv'
  <1>1. op' = op /\ of' = "job" /\ ~Unfinished("life") /\ ~Unfinished("data") /\ todo' # <<>>
    BY ApplyNext, UnapplyNext
  <1>2. ~Unfinished("life")' /\ ~Unfinished("data")' BY <1>1 DEF Unfinished
  <1>3. PlanInv'
    <2>1. Plan' = Plan BY <1>1 DEF Plan
    <2>2. QED BY <2>1, PlanKept DEF IInv
  <1>4. OneInv' BY <1>1, <1>2 DEF OneInv
  <1>5. UpdateInv' /\ RollbackInv' /\ RestoreInv' BY <1>2 DEF UpdateInv, RollbackInv, RestoreInv
  <1>6. UpdatingInv' /\ RollingBackInv' /\ RestoringInv' /\ UndoingInv'
    BY <1>1 DEF UpdatingInv, RollingBackInv, RestoringInv, UndoingInv
  <1>7. ChangingInv' /\ ChangingBackInv' BY <1>1 DEF ChangingInv, ChangingBackInv
  <1>8. HelperInv'
    <2>1. PendingJob /\ (op = "recover" => JobOpen) BY ApplyNext, UnapplyNext
    <2>2. ~helper BY <2>1 DEF IInv, HelperInv, JobOpen
    <2>3. helper' = helper BY DEF Step
    <2>4. QED BY <2>2, <2>3 DEF HelperInv
  <1>9. QED BY <1>3, <1>4, <1>5, <1>6, <1>7, <1>8 DEF IInv

LEMMA ChangeFrame ==
  ASSUME FilesInv, RetainedInv, ~Unfinished("life"), ~Unfinished("data"), UNCHANGED journal,
         UNCHANGED <<app, built, home, env, backend, saved, restores>>, DataTyped,
         \A d \in Database : dbs'[d].head = dbs[d].head, \A r \in Release : r # app.rel => dist'[r] = dist[r]
  PROVE  FilesInv' /\ RetainedInv'
  <1>1. (\A r : Env0(r)' = Env0(r)) /\ Live' = Live /\ L' = L /\ D' = D BY DEF Env0, Live, L, D
  <1>2. \A r, d : d \in Database => Fits(r, d)' = Fits(r, d) BY DEF Fits
  <1>3. ~Unfinished("data")' BY DEF Unfinished
  <1>4. FilesInv' BY <1>1, <1>3 DEF FilesInv
  <1>5. RetainedInv'
    <2>1. SUFFICES ASSUME L.state = "complete" PROVE RetainedInv' BY <1>1 DEF RetainedInv
    <2>2. L.prev < L.to /\ dist[L.prev] = Env0(L.prev).setting /\ app.rel = L.to /\ Keeps(Live.db)
      BY <2>1 DEF RetainedInv
    <2>3. L.prev \in Release /\ L.prev # L.to
      <3>1. L.prev \in Release /\ L.to \in Release BY Views DEF L
      <3>2. QED BY <2>2, <3>1 DEF Release
    <2>4. Keeps(Live.db)' = Keeps(Live.db)
      <3>1. Live.db \in Database BY Views
      <3>2. Env0(L.prev).db \in Database BY <2>3 DEF DataTyped, Env0, Env
      <3>3. Fits(L.prev, Live.db)' = Fits(L.prev, Live.db) /\ Fits(L.prev, Env0(L.prev).db)' = Fits(L.prev, Env0(L.prev).db)
        BY <1>1, <3>1, <3>2 DEF Fits
      <3>4. QED BY <1>1, <3>3 DEF Keeps
    <2>5. QED BY <1>1, <1>3, <2>2, <2>3, <2>4 DEF RetainedInv
  <1>6. QED BY <1>4, <1>5

\* From here on this release has an .env of its own, no earlier one shares it.
LEMMA EnvReplaced ==
  ASSUME FilesInv, RetainedInv, ~Unfinished("life"), ~Unfinished("data"), UNCHANGED journal, NEW e, ReplaceEnv(e), e \in Env,
         e.db = Live.db, UNCHANGED <<app, built, dbs, dist, backend, saved, restores>>, DataTyped, DataTyped'
  PROVE  FilesInv' /\ RetainedInv' /\ Live' = e
  <1>1. L' = L /\ D' = D /\ ~Unfinished("data")' BY DEF L, D, Unfinished
  <1>2. home' = [home EXCEPT ![app.rel] = app.rel] /\ env' = [env EXCEPT ![app.rel] = e] BY DEF ReplaceEnv, WriteEnv
  <1>3. app.rel \in Release /\ home[app.rel] \in Release /\ Release \subseteq Nat BY Views DEF Release
  <1>4. Live' = e BY <1>2, <1>3 DEF Live, DataTyped
  <1>5. Live.db = env[home[app.rel]].db BY DEF Live
  <1>6. \A r \in Release : /\ env'[r].db = IF r = app.rel THEN Live.db ELSE env[r].db
                          /\ home'[r] = IF r = app.rel THEN r ELSE home[r]
    BY <1>2 DEF DataTyped
  <1>7. FilesInv'
    <2>1. \A r \in Release : home'[r] <= r BY <1>3, <1>6 DEF FilesInv
    <2>2. \A r \in Release : env'[r].db <= restores + 1 BY <1>3, <1>5, <1>6 DEF FilesInv
    <2>3. backend = "sqlite" => \A r \in Release : env'[r].db = 1 BY <1>3, <1>5, <1>6 DEF FilesInv
    <2>4. QED BY <1>1, <2>1, <2>2, <2>3 DEF FilesInv
  <1>8. RetainedInv'
    <2>1. SUFFICES ASSUME L.state = "complete" PROVE RetainedInv' BY <1>1 DEF RetainedInv
    <2>2. L.prev < L.to /\ dist[L.prev] = Env0(L.prev).setting /\ app.rel = L.to /\ Keeps(Live.db)
      BY <2>1 DEF RetainedInv
    <2>3. L.prev \in Release /\ L.prev # app.rel /\ home[L.prev] # app.rel /\ home[L.prev] \in Release
      <3>1. L.prev \in Release /\ home[L.prev] \in Release BY Views DEF L, DataTyped
      <3>2. home[L.prev] <= L.prev BY <3>1 DEF FilesInv
      <3>3. \A a, b, c \in Nat : a <= b /\ b < c => a # c /\ b # c OBVIOUS
      <3>4. L.prev \in Nat /\ home[L.prev] \in Nat /\ app.rel \in Nat /\ L.prev < app.rel BY <1>3, <2>2, <3>1
      <3>5. QED BY <3>1, <3>2, <3>3, <3>4
    <2>4. Env0(L.prev)' = Env0(L.prev) BY <1>1, <1>2, <2>3 DEF Env0, DataTyped
    <2>5. Keeps(Live.db)' = Keeps(Live.db) BY <1>1, <1>4, <2>4 DEF Keeps, Fits
    <2>6. QED BY <1>1, <2>2, <2>4, <2>5 DEF RetainedInv
  <1>9. QED BY <1>4, <1>7, <1>8

LEMMA ApplyCheck == ASSUME IInv, op = "forward", of = "job", Check PROVE IInv'
  <1>1. Step("check") BY DEF Check
  <1>2. TypeInv' /\ DataTyped /\ DataTyped' /\ of = "job" BY StepsTyped DEF SettingsStep, IInv, TypeInv
  <1>3. /\ at = "check" /\ op' = "forward" /\ of' = "job" /\ PendingJob /\ ~Unfinished("life") /\ ~Unfinished("data")
        /\ UNCHANGED <<backend, saved, restores>> /\ ApplyLeads("check", at')
    BY <1>1, ApplyNext
  <1>4. at' = "try" BY <1>3, ApplyOrder
  <1>5. UNCHANGED <<app, built, home, env, dist, dbs, panel, timers, site, journal>> BY DEF Check, files
  <1>6. job'.old = job.old /\ job'.new = job.new /\ job'.status = "building"
    BY <1>2 DEF Check, SetJob, DataTyped, Job
  <1>7. FilesInv' /\ RetainedInv'
    <2>1. \A d \in Database : dbs'[d].head = dbs[d].head BY <1>5
    <2>2. \A r \in Release : r # app.rel => dist'[r] = dist[r] BY <1>5
    <2>3. QED BY <1>2, <1>3, <1>5, <1>6, <2>1, <2>2, ChangeFrame DEF IInv
  <1>8. /\ ~JobOpen BY <1>3 DEF IInv, ChangingInv
  <1>9. Sound BY <1>3, <1>8 DEF IInv, SoundInv, Settled, LifeOpen, DataOpen, Unfinished, Final, L, D
  <1>10. Live = job.old /\ InPlace' = InPlace /\ Live' = Live /\ Started' = Started
    BY <1>3, <1>5, <1>8 DEF IInv, JobInv, InPlace, Live, Started
  <1>11. Fits(app.rel, Live.db)' = Fits(app.rel, Live.db) BY <1>5, <1>10 DEF Fits
  <1>12. Sound' BY <1>5, <1>9, <1>10, <1>11 DEF Sound, Served
  <1>13. JobInv' /\ JobOpen' = FALSE
    <2>1. app' = app BY <1>5
    <2>2. JobOpen' = FALSE BY <1>6, <1>8 DEF JobOpen
    <2>3. PendingJob' BY <1>3, <1>6 DEF PendingJob, Final
    <2>4. QED BY <1>3, <1>4, <1>5, <1>6, <1>8, <1>9, <1>10, <1>11, <1>12, <2>1, <2>2, <2>3 DEF IInv, JobInv
  <1>14. ChangingInv'
    <2>1. app' = app BY <1>5
    <2>2. QED BY <1>3, <1>4, <1>5, <1>6, <1>8, <1>9, <1>10, <1>11, <1>12, <2>1, <1>13 DEF ChangingInv, Restarted
  <1>15. SoundInv' BY <1>13, <1>12 DEF SoundInv, Settled
  <1>16. PendingJob' BY <1>3, <1>6 DEF PendingJob, Final
  <1>17. UNCHANGED journal BY <1>5
  <1>18. QED BY <1>1, <1>2, <1>7, <1>13, <1>14, <1>15, <1>16, <1>17, ChangeKeeps

LEMMA ApplyTryCandidate == ASSUME IInv, op = "forward", of = "job", TryCandidate PROVE IInv'
  <1>1. Step("try") BY DEF TryCandidate
  <1>2. TypeInv' /\ DataTyped /\ DataTyped' /\ of = "job" BY StepsTyped DEF SettingsStep, IInv, TypeInv
  <1>3. /\ at = "try" /\ op' = "forward" /\ of' = "job" /\ PendingJob /\ ~Unfinished("life") /\ ~Unfinished("data")
        /\ UNCHANGED <<backend, saved, restores>> /\ ApplyLeads("try", at')
    BY <1>1, ApplyNext
  <1>4. at' = "switching" BY <1>3, ApplyOrder
  <1>5. UNCHANGED <<app, built, home, env, dist, dbs, panel, timers, site, journal>> BY DEF TryCandidate, files
  <1>6. job'.old = job.old /\ job'.new = job.new /\ job'.status = "canary"
    BY <1>2 DEF TryCandidate, SetJob, DataTyped, Job
  <1>7. FilesInv' /\ RetainedInv'
    <2>1. \A d \in Database : dbs'[d].head = dbs[d].head BY <1>5
    <2>2. \A r \in Release : r # app.rel => dist'[r] = dist[r] BY <1>5
    <2>3. QED BY <1>2, <1>3, <1>5, <1>6, <2>1, <2>2, ChangeFrame DEF IInv
  <1>8. /\ ~JobOpen BY <1>3 DEF IInv, ChangingInv
  <1>9. Sound BY <1>3, <1>8 DEF IInv, SoundInv, Settled, LifeOpen, DataOpen, Unfinished, Final, L, D
  <1>10. Live = job.old /\ InPlace' = InPlace /\ Live' = Live /\ Started' = Started
    BY <1>3, <1>5, <1>8 DEF IInv, JobInv, InPlace, Live, Started
  <1>11. Fits(app.rel, Live.db)' = Fits(app.rel, Live.db) BY <1>5, <1>10 DEF Fits
  <1>12. Sound' BY <1>5, <1>9, <1>10, <1>11 DEF Sound, Served
  <1>13. JobInv' /\ JobOpen' = FALSE
    <2>1. app' = app BY <1>5
    <2>2. JobOpen' = FALSE BY <1>6, <1>8 DEF JobOpen
    <2>3. PendingJob' BY <1>3, <1>6 DEF PendingJob, Final
    <2>4. QED BY <1>3, <1>4, <1>5, <1>6, <1>8, <1>9, <1>10, <1>11, <1>12, <2>1, <2>2, <2>3 DEF IInv, JobInv
  <1>14. ChangingInv'
    <2>1. app' = app BY <1>5
    <2>2. QED BY <1>3, <1>4, <1>5, <1>6, <1>8, <1>9, <1>10, <1>11, <1>12, <2>1, <1>13 DEF ChangingInv, Restarted
  <1>15. SoundInv' BY <1>13, <1>12 DEF SoundInv, Settled
  <1>16. PendingJob' BY <1>3, <1>6 DEF PendingJob, Final
  <1>17. UNCHANGED journal BY <1>5
  <1>18. QED BY <1>1, <1>2, <1>7, <1>13, <1>14, <1>15, <1>16, <1>17, ChangeKeeps

LEMMA ApplySwitching == ASSUME IInv, op = "forward", of = "job", Switching PROVE IInv'
  <1>1. Step("switching") BY DEF Switching
  <1>2. TypeInv' /\ DataTyped /\ DataTyped' /\ of = "job" BY StepsTyped DEF SettingsStep, IInv, TypeInv
  <1>3. /\ at = "switching" /\ op' = "forward" /\ of' = "job" /\ PendingJob /\ ~Unfinished("life") /\ ~Unfinished("data")
        /\ UNCHANGED <<backend, saved, restores>> /\ ApplyLeads("switching", at')
    BY <1>1, ApplyNext
  <1>4. at' = "exchange" BY <1>3, ApplyOrder
  <1>5. UNCHANGED <<app, built, home, env, dist, dbs, panel, timers, site, journal>> BY DEF Switching, files
  <1>6. job'.old = job.old /\ job'.new = job.new /\ job'.status = "switching"
    BY <1>2 DEF Switching, SetJob, DataTyped, Job
  <1>7. FilesInv' /\ RetainedInv'
    <2>1. \A d \in Database : dbs'[d].head = dbs[d].head BY <1>5
    <2>2. \A r \in Release : r # app.rel => dist'[r] = dist[r] BY <1>5
    <2>3. QED BY <1>2, <1>3, <1>5, <1>6, <2>1, <2>2, ChangeFrame DEF IInv
  <1>8. /\ ~JobOpen BY <1>3 DEF IInv, ChangingInv
  <1>9. Sound BY <1>3, <1>8 DEF IInv, SoundInv, Settled, LifeOpen, DataOpen, Unfinished, Final, L, D
  <1>10. Live = job.old /\ InPlace' = InPlace /\ Live' = Live /\ Started' = Started
    BY <1>3, <1>5, <1>8 DEF IInv, JobInv, InPlace, Live, Started
  <1>11. Fits(app.rel, Live.db)' = Fits(app.rel, Live.db) BY <1>5, <1>10 DEF Fits
  <1>12. Sound' BY <1>5, <1>9, <1>10, <1>11 DEF Sound, Served
  <1>13. JobInv' /\ JobOpen' = TRUE
    <2>1. app' = app BY <1>5
    <2>2. JobOpen' = TRUE BY <1>6, <1>8 DEF JobOpen
    <2>3. PendingJob' BY <1>3, <1>6 DEF PendingJob, Final
    <2>4. QED BY <1>3, <1>4, <1>5, <1>6, <1>8, <1>9, <1>10, <1>11, <1>12, <2>1, <2>2, <2>3 DEF IInv, JobInv, Sound, Served
  <1>14. ChangingInv'
    <2>1. app' = app BY <1>5
    <2>2. QED BY <1>3, <1>4, <1>5, <1>6, <1>8, <1>9, <1>10, <1>11, <1>12, <2>1, <1>13 DEF ChangingInv, Restarted
  <1>15. SoundInv' BY <1>13, <1>12 DEF SoundInv, Settled
  <1>16. PendingJob' BY <1>3, <1>6 DEF PendingJob, Final
  <1>17. UNCHANGED journal BY <1>5
  <1>18. QED BY <1>1, <1>2, <1>7, <1>13, <1>14, <1>15, <1>16, <1>17, ChangeKeeps

LEMMA ApplyExchangeDist == ASSUME IInv, op = "forward", of = "job", ExchangeDist PROVE IInv'
  <1>1. Step("exchange") BY DEF ExchangeDist
  <1>2. TypeInv' /\ DataTyped /\ DataTyped' /\ of = "job" BY StepsTyped DEF SettingsStep, IInv, TypeInv
  <1>3. /\ at = "exchange" /\ op' = "forward" /\ of' = "job" /\ PendingJob /\ ~Unfinished("life") /\ ~Unfinished("data")
        /\ UNCHANGED <<backend, saved, restores>> /\ ApplyLeads("exchange", at')
    BY <1>1, ApplyNext
  <1>4. at' = "replace" BY <1>3, ApplyOrder
  <1>5. UNCHANGED <<app, built, home, env, dbs, panel, timers, site, journal>> BY DEF ExchangeDist, files
  <1>6. job' = job BY DEF ExchangeDist
  <1>7. FilesInv' /\ RetainedInv'
    <2>1. \A d \in Database : dbs'[d].head = dbs[d].head BY <1>5
    <2>2. \A r \in Release : r # app.rel => dist'[r] = dist[r] BY <1>2 DEF ExchangeDist, DataTyped
    <2>3. QED BY <1>2, <1>3, <1>5, <1>6, <2>1, <2>2, ChangeFrame DEF IInv
  <1>8. /\ JobOpen /\ Sound /\ Live = job.old BY <1>3 DEF IInv, ChangingInv
  <1>9. /\ InPlace /\ timers /\ site.open /\ site.port \in {job.old.port, job.new.port}
        /\ Live \in {job.old, job.new} /\ dist[app.rel] \in {job.old.setting, job.new.setting}
        /\ Fits(app.rel, Live.db) /\ job.old.db = job.new.db
    BY <1>3, <1>8 DEF IInv, JobInv
  <1>10. InPlace' = InPlace /\ Live' = Live /\ Started' = Started BY <1>5 DEF InPlace, Live, Started
  <1>11. Fits(app.rel, Live.db)' BY <1>5, <1>9, <1>10 DEF Fits
  <1>12. JobInv' /\ JobOpen' = TRUE
    <2>1. dist'[app.rel] = job.new.setting /\ app' = app BY <1>2, <1>5, Views DEF ExchangeDist, DataTyped
    <2>2. JobOpen' = TRUE BY <1>6, <1>8 DEF JobOpen
    <2>3. PendingJob' BY <1>3, <1>6 DEF PendingJob, Final
    <2>4. QED BY <1>3, <1>4, <1>5, <1>6, <1>8, <1>9, <1>10, <1>11, <2>1, <2>2, <2>3 DEF IInv, JobInv
  <1>13. ChangingInv'
    <2>1. dist'[app.rel] = job.new.setting /\ app' = app BY <1>2, <1>5, Views DEF ExchangeDist, DataTyped
    <2>2. QED BY <1>3, <1>4, <1>5, <1>6, <1>8, <1>9, <1>10, <1>11, <2>1, <1>12 DEF ChangingInv, Restarted
  <1>14. SoundInv' BY <1>12 DEF SoundInv, Settled
  <1>15. PendingJob' BY <1>3, <1>6 DEF PendingJob, Final
  <1>16. UNCHANGED journal BY <1>5
  <1>17. QED BY <1>1, <1>2, <1>7, <1>12, <1>13, <1>14, <1>15, <1>16, ChangeKeeps

LEMMA ApplyReplaceLive == ASSUME IInv, op = "forward", of = "job", ReplaceLive PROVE IInv'
  <1>1. Step("replace") BY DEF ReplaceLive
  <1>2. TypeInv' /\ DataTyped /\ DataTyped' /\ of = "job" BY StepsTyped DEF SettingsStep, IInv, TypeInv
  <1>3. /\ at = "replace" /\ op' = "forward" /\ of' = "job" /\ PendingJob /\ ~Unfinished("life") /\ ~Unfinished("data")
        /\ UNCHANGED <<backend, saved, restores>> /\ ApplyLeads("replace", at')
    BY <1>1, ApplyNext
  <1>4. at' = "principal" BY <1>3, ApplyOrder
  <1>5. UNCHANGED <<app, built, dist, dbs, panel, timers, site, journal>> BY DEF ReplaceLive, files
  <1>6. job' = job BY DEF ReplaceLive
  <1>7. Live = job.old /\ job.new \in Env /\ job.new.db = Live.db
    BY <1>2, <1>3, Views DEF IInv, ChangingInv, JobInv
  <1>8. ReplaceEnv(job.new) BY DEF ReplaceLive
  <1>9. FilesInv' /\ RetainedInv' /\ Live' = job.new BY <1>2, <1>3, <1>5, <1>6, <1>7, <1>8, EnvReplaced DEF IInv
  <1>10. /\ JobOpen /\ Live = job.old /\ dist[app.rel] = job.new.setting BY <1>3 DEF IInv, ChangingInv
  <1>11. /\ InPlace /\ timers /\ site.open /\ site.port \in {job.old.port, job.new.port}
         /\ Live \in {job.old, job.new} /\ dist[app.rel] \in {job.old.setting, job.new.setting}
         /\ Fits(app.rel, Live.db) /\ job.old.db = job.new.db
    BY <1>3, <1>10 DEF IInv, JobInv
  <1>12. InPlace' = InPlace  BY <1>5 DEF InPlace
  <1>13. Fits(app.rel, Live.db)' BY <1>5, <1>9, <1>11, <1>7 DEF Fits
  <1>14. JobInv' /\ JobOpen' = TRUE
    <2>1. app' = app BY <1>5
    <2>2. JobOpen' = TRUE BY <1>6, <1>10 DEF JobOpen
    <2>3. PendingJob' BY <1>3, <1>6 DEF PendingJob, Final
    <2>4. QED BY <1>3, <1>4, <1>5, <1>6, <1>9, <1>10, <1>11, <1>12, <1>13, <2>1, <2>2, <2>3 DEF IInv, JobInv
  <1>15. ChangingInv'
    <2>1. app' = app BY <1>5
    <2>2. QED BY <1>3, <1>4, <1>5, <1>6, <1>9, <1>10, <1>11, <1>12, <1>13, <2>1, <1>14 DEF ChangingInv, Restarted
  <1>16. SoundInv' BY <1>14 DEF SoundInv, Settled
  <1>17. PendingJob' BY <1>3, <1>6 DEF PendingJob, Final
  <1>18. UNCHANGED journal BY <1>5
  <1>19. QED BY <1>1, <1>2, <1>9, <1>14, <1>15, <1>16, <1>17, <1>18, ChangeKeeps

LEMMA ApplyPrincipalForward == ASSUME IInv, op = "forward", of = "job", PrincipalForward PROVE IInv'
  <1>1. Step("principal") BY DEF PrincipalForward
  <1>2. TypeInv' /\ DataTyped /\ DataTyped' /\ of = "job" BY StepsTyped DEF SettingsStep, IInv, TypeInv
  <1>3. /\ at = "principal" /\ op' = "forward" /\ of' = "job" /\ PendingJob /\ ~Unfinished("life") /\ ~Unfinished("data")
        /\ UNCHANGED <<backend, saved, restores>> /\ ApplyLeads("principal", at')
    BY <1>1, ApplyNext
  <1>4. at' = "restart" BY <1>3, ApplyOrder
  <1>5. UNCHANGED <<app, built, home, env, dist, panel, timers, site, journal>> BY DEF PrincipalForward, files
  <1>6. job' = job BY DEF PrincipalForward
  <1>7. FilesInv' /\ RetainedInv'
    <2>1. \A d \in Database : dbs'[d].head = dbs[d].head
      <3>1. dbs' = dbs \/ \E o : dbs' = [dbs EXCEPT ![Live.db].owner = o] BY DEF PrincipalForward, MigratePrincipal
      <3>2. Live.db \in Database /\ dbs[Live.db] \in Copy BY <1>2, Views DEF DataTyped
      <3>3. \A o : [dbs[Live.db] EXCEPT !.owner = o].head = dbs[Live.db].head BY <3>2 DEF Copy
      <3>4. CASE dbs' = dbs BY <3>4
      <3>5. CASE dbs' # dbs
        <4>1. PICK o : dbs' = [dbs EXCEPT ![Live.db].owner = o] BY <3>1, <3>5
        <4>2. dbs' = [dbs EXCEPT ![Live.db] = [dbs[Live.db] EXCEPT !.owner = o]] BY <4>1
        <4>3. TAKE d \in Database
        <4>4. CASE d = Live.db BY <1>2, <3>2, <3>3, <4>2, <4>4 DEF DataTyped
        <4>5. CASE d # Live.db BY <1>2, <3>2, <4>2, <4>5 DEF DataTyped
        <4>6. QED BY <4>4, <4>5
      <3>6. QED BY <3>4, <3>5
    <2>2. \A r \in Release : r # app.rel => dist'[r] = dist[r] BY <1>5
    <2>3. QED BY <1>2, <1>3, <1>5, <1>6, <2>1, <2>2, ChangeFrame DEF IInv
  <1>8. /\ JobOpen /\ dist[app.rel] = job.new.setting /\ Live = job.new BY <1>3 DEF IInv, ChangingInv
  <1>9. /\ InPlace /\ timers /\ site.open /\ site.port \in {job.old.port, job.new.port}
        /\ Live \in {job.old, job.new} /\ dist[app.rel] \in {job.old.setting, job.new.setting}
        /\ Fits(app.rel, Live.db) /\ job.old.db = job.new.db
    BY <1>3, <1>8 DEF IInv, JobInv
  <1>10. InPlace' = InPlace /\ Live' = Live /\ Started' = Started BY <1>5 DEF InPlace, Live, Started
  <1>11. Fits(app.rel, Live.db)'
    <2>1. \A d \in Database : dbs'[d].head = dbs[d].head
      <3>1. dbs' = dbs \/ \E o : dbs' = [dbs EXCEPT ![Live.db].owner = o] BY DEF PrincipalForward, MigratePrincipal
      <3>2. Live.db \in Database /\ dbs[Live.db] \in Copy BY <1>2, Views DEF DataTyped
      <3>3. \A o : [dbs[Live.db] EXCEPT !.owner = o].head = dbs[Live.db].head BY <3>2 DEF Copy
      <3>4. CASE dbs' = dbs BY <3>4
      <3>5. CASE dbs' # dbs
        <4>1. PICK o : dbs' = [dbs EXCEPT ![Live.db].owner = o] BY <3>1, <3>5
        <4>2. dbs' = [dbs EXCEPT ![Live.db] = [dbs[Live.db] EXCEPT !.owner = o]] BY <4>1
        <4>3. TAKE d \in Database
        <4>4. CASE d = Live.db BY <1>2, <3>2, <3>3, <4>2, <4>4 DEF DataTyped
        <4>5. CASE d # Live.db BY <1>2, <3>2, <4>2, <4>5 DEF DataTyped
        <4>6. QED BY <4>4, <4>5
      <3>6. QED BY <3>4, <3>5
    <2>2. QED BY <1>2, <1>5, <1>9, <1>10, <2>1, Views DEF Fits
  <1>12. JobInv' /\ JobOpen' = TRUE
    <2>1. app' = app BY <1>5
    <2>2. JobOpen' = TRUE BY <1>6, <1>8 DEF JobOpen
    <2>3. PendingJob' BY <1>3, <1>6 DEF PendingJob, Final
    <2>4. QED BY <1>3, <1>4, <1>5, <1>6, <1>8, <1>9, <1>10, <1>11, <2>1, <2>2, <2>3 DEF IInv, JobInv
  <1>13. ChangingInv'
    <2>1. app' = app BY <1>5
    <2>2. QED BY <1>3, <1>4, <1>5, <1>6, <1>8, <1>9, <1>10, <1>11, <2>1, <1>12 DEF ChangingInv, Restarted
  <1>14. SoundInv' BY <1>12 DEF SoundInv, Settled
  <1>15. PendingJob' BY <1>3, <1>6 DEF PendingJob, Final
  <1>16. UNCHANGED journal BY <1>5
  <1>17. QED BY <1>1, <1>2, <1>7, <1>12, <1>13, <1>14, <1>15, <1>16, ChangeKeeps

LEMMA ApplyRestart == ASSUME IInv, op = "forward", of = "job", Restart PROVE IInv'
  <1>1. Step("restart") BY DEF Restart
  <1>2. TypeInv' /\ DataTyped /\ DataTyped' /\ of = "job" BY StepsTyped DEF SharedStep, IInv, TypeInv
  <1>3. /\ at = "restart" /\ op' = "forward" /\ of' = "job" /\ PendingJob /\ ~Unfinished("life") /\ ~Unfinished("data")
        /\ UNCHANGED <<backend, saved, restores>> /\ ApplyLeads("restart", at')
    BY <1>1, ApplyNext
  <1>4. at' = "verifying" BY <1>3, ApplyOrder
  <1>5. UNCHANGED <<app, built, home, env, dist, dbs, timers, site, journal>> BY DEF Restart, files
  <1>6. job' = job BY DEF Restart
  <1>7. FilesInv' /\ RetainedInv'
    <2>1. \A d \in Database : dbs'[d].head = dbs[d].head BY <1>5
    <2>2. \A r \in Release : r # app.rel => dist'[r] = dist[r] BY <1>5
    <2>3. QED BY <1>2, <1>3, <1>5, <1>6, <2>1, <2>2, ChangeFrame DEF IInv
  <1>8. /\ JobOpen /\ dist[app.rel] = job.new.setting /\ Live = job.new BY <1>3 DEF IInv, ChangingInv
  <1>9. /\ InPlace /\ timers /\ site.open /\ site.port \in {job.old.port, job.new.port}
        /\ Live \in {job.old, job.new} /\ dist[app.rel] \in {job.old.setting, job.new.setting}
        /\ Fits(app.rel, Live.db) /\ job.old.db = job.new.db
    BY <1>3, <1>8 DEF IInv, JobInv
  <1>10. InPlace' = InPlace /\ Live' = Live /\ Started' = Started BY <1>5 DEF InPlace, Live, Started
  <1>11. Fits(app.rel, Live.db)' BY <1>5, <1>9, <1>10 DEF Fits
  <1>12. JobInv' /\ JobOpen' = TRUE
    <2>1. panel' = Started' BY <1>5, <1>10 DEF Restart
    <2>2. JobOpen' = TRUE BY <1>6, <1>8 DEF JobOpen
    <2>3. PendingJob' BY <1>3, <1>6 DEF PendingJob, Final
    <2>4. QED BY <1>3, <1>4, <1>5, <1>6, <1>8, <1>9, <1>10, <1>11, <2>1, <2>2, <2>3 DEF IInv, JobInv
  <1>13. ChangingInv'
    <2>1. panel' = Started' BY <1>5, <1>10 DEF Restart
    <2>2. QED BY <1>3, <1>4, <1>5, <1>6, <1>8, <1>9, <1>10, <1>11, <2>1, <1>12 DEF ChangingInv, Restarted
  <1>14. SoundInv' BY <1>12 DEF SoundInv, Settled
  <1>15. PendingJob' BY <1>3, <1>6 DEF PendingJob, Final
  <1>16. UNCHANGED journal BY <1>5
  <1>17. QED BY <1>1, <1>2, <1>7, <1>12, <1>13, <1>14, <1>15, <1>16, ChangeKeeps

LEMMA ApplyVerifying == ASSUME IInv, op = "forward", of = "job", Verifying PROVE IInv'
  <1>1. Step("verifying") BY DEF Verifying
  <1>2. TypeInv' /\ DataTyped /\ DataTyped' /\ of = "job" BY StepsTyped DEF SettingsStep, IInv, TypeInv
  <1>3. /\ at = "verifying" /\ op' = "forward" /\ of' = "job" /\ PendingJob /\ ~Unfinished("life") /\ ~Unfinished("data")
        /\ UNCHANGED <<backend, saved, restores>> /\ ApplyLeads("verifying", at')
    BY <1>1, ApplyNext
  <1>4. at' = "verify" BY <1>3, ApplyOrder
  <1>5. UNCHANGED <<app, built, home, env, dist, dbs, panel, timers, site, journal>> BY DEF Verifying, files
  <1>6. job'.old = job.old /\ job'.new = job.new /\ job'.status = "verifying"
    BY <1>2 DEF Verifying, SetJob, DataTyped, Job
  <1>7. FilesInv' /\ RetainedInv'
    <2>1. \A d \in Database : dbs'[d].head = dbs[d].head BY <1>5
    <2>2. \A r \in Release : r # app.rel => dist'[r] = dist[r] BY <1>5
    <2>3. QED BY <1>2, <1>3, <1>5, <1>6, <2>1, <2>2, ChangeFrame DEF IInv
  <1>8. /\ JobOpen /\ dist[app.rel] = job.new.setting /\ Live = job.new /\ Restarted
    BY <1>3 DEF IInv, ChangingInv
  <1>9. /\ InPlace /\ timers /\ site.open /\ site.port \in {job.old.port, job.new.port}
        /\ Live \in {job.old, job.new} /\ dist[app.rel] \in {job.old.setting, job.new.setting}
        /\ Fits(app.rel, Live.db) /\ job.old.db = job.new.db
    BY <1>3, <1>8 DEF IInv, JobInv
  <1>10. InPlace' = InPlace /\ Live' = Live /\ Started' = Started BY <1>5 DEF InPlace, Live, Started
  <1>11. Fits(app.rel, Live.db)' BY <1>5, <1>9, <1>10 DEF Fits
  <1>12. JobInv' /\ JobOpen' = TRUE
    <2>1. app' = app BY <1>5
    <2>2. JobOpen' = TRUE BY <1>6, <1>8 DEF JobOpen
    <2>3. PendingJob' BY <1>3, <1>6 DEF PendingJob, Final
    <2>4. QED BY <1>3, <1>4, <1>5, <1>6, <1>8, <1>9, <1>10, <1>11, <2>1, <2>2, <2>3 DEF IInv, JobInv
  <1>13. ChangingInv'
    <2>1. app' = app BY <1>5
    <2>2. QED BY <1>3, <1>4, <1>5, <1>6, <1>8, <1>9, <1>10, <1>11, <2>1, <1>12 DEF ChangingInv, Restarted
  <1>14. SoundInv' BY <1>12 DEF SoundInv, Settled
  <1>15. PendingJob' BY <1>3, <1>6 DEF PendingJob, Final
  <1>16. UNCHANGED journal BY <1>5
  <1>17. QED BY <1>1, <1>2, <1>7, <1>12, <1>13, <1>14, <1>15, <1>16, ChangeKeeps

LEMMA ApplyVerify == ASSUME IInv, op = "forward", of = "job", Verify PROVE IInv'
  <1>1. Step("verify") BY DEF Verify
  <1>2. TypeInv' /\ DataTyped /\ DataTyped' /\ of = "job" BY StepsTyped DEF SettingsStep, IInv, TypeInv
  <1>3. /\ at = "verify" /\ op' = "forward" /\ of' = "job" /\ PendingJob /\ ~Unfinished("life") /\ ~Unfinished("data")
        /\ UNCHANGED <<backend, saved, restores>> /\ ApplyLeads("verify", at')
    BY <1>1, ApplyNext
  <1>4. at' = "proxy" BY <1>3, ApplyOrder
  <1>5. UNCHANGED <<app, built, home, env, dist, dbs, panel, timers, site, journal>> BY DEF Verify, files
  <1>6. job' = job BY DEF Verify
  <1>7. FilesInv' /\ RetainedInv'
    <2>1. \A d \in Database : dbs'[d].head = dbs[d].head BY <1>5
    <2>2. \A r \in Release : r # app.rel => dist'[r] = dist[r] BY <1>5
    <2>3. QED BY <1>2, <1>3, <1>5, <1>6, <2>1, <2>2, ChangeFrame DEF IInv
  <1>8. /\ JobOpen /\ dist[app.rel] = job.new.setting /\ Live = job.new /\ Restarted
    BY <1>3 DEF IInv, ChangingInv
  <1>9. /\ InPlace /\ timers /\ site.open /\ site.port \in {job.old.port, job.new.port}
        /\ Live \in {job.old, job.new} /\ dist[app.rel] \in {job.old.setting, job.new.setting}
        /\ Fits(app.rel, Live.db) /\ job.old.db = job.new.db
    BY <1>3, <1>8 DEF IInv, JobInv
  <1>10. InPlace' = InPlace /\ Live' = Live /\ Started' = Started BY <1>5 DEF InPlace, Live, Started
  <1>11. Fits(app.rel, Live.db)' BY <1>5, <1>9, <1>10 DEF Fits
  <1>12. JobInv' /\ JobOpen' = TRUE
    <2>1. app' = app BY <1>5
    <2>2. JobOpen' = TRUE BY <1>6, <1>8 DEF JobOpen
    <2>3. PendingJob' BY <1>3, <1>6 DEF PendingJob, Final
    <2>4. QED BY <1>3, <1>4, <1>5, <1>6, <1>8, <1>9, <1>10, <1>11, <2>1, <2>2, <2>3 DEF IInv, JobInv
  <1>13. ChangingInv'
    <2>1. app' = app BY <1>5
    <2>2. QED BY <1>3, <1>4, <1>5, <1>6, <1>8, <1>9, <1>10, <1>11, <2>1, <1>12 DEF ChangingInv, Restarted
  <1>14. SoundInv' BY <1>12 DEF SoundInv, Settled
  <1>15. PendingJob' BY <1>3, <1>6 DEF PendingJob, Final
  <1>16. UNCHANGED journal BY <1>5
  <1>17. QED BY <1>1, <1>2, <1>7, <1>12, <1>13, <1>14, <1>15, <1>16, ChangeKeeps

LEMMA ApplySwitchProxy == ASSUME IInv, op = "forward", of = "job", SwitchProxy PROVE IInv'
  <1>1. Step("proxy") BY DEF SwitchProxy
  <1>2. TypeInv' /\ DataTyped /\ DataTyped' /\ of = "job" BY StepsTyped DEF SettingsStep, IInv, TypeInv
  <1>3. /\ at = "proxy" /\ op' = "forward" /\ of' = "job" /\ PendingJob /\ ~Unfinished("life") /\ ~Unfinished("data")
        /\ UNCHANGED <<backend, saved, restores>> /\ ApplyLeads("proxy", at')
    BY <1>1, ApplyNext
  <1>4. at' = "applied" BY <1>3, ApplyOrder
  <1>5. UNCHANGED <<app, built, home, env, dist, dbs, panel, timers, journal>> BY DEF SwitchProxy, files
  <1>6. job' = job BY DEF SwitchProxy
  <1>7. FilesInv' /\ RetainedInv'
    <2>1. \A d \in Database : dbs'[d].head = dbs[d].head BY <1>5
    <2>2. \A r \in Release : r # app.rel => dist'[r] = dist[r] BY <1>5
    <2>3. QED BY <1>2, <1>3, <1>5, <1>6, <2>1, <2>2, ChangeFrame DEF IInv
  <1>8. /\ JobOpen /\ dist[app.rel] = job.new.setting /\ Live = job.new /\ Restarted
    BY <1>3 DEF IInv, ChangingInv
  <1>9. /\ InPlace /\ timers /\ site.open /\ site.port \in {job.old.port, job.new.port}
        /\ Live \in {job.old, job.new} /\ dist[app.rel] \in {job.old.setting, job.new.setting}
        /\ Fits(app.rel, Live.db) /\ job.old.db = job.new.db
    BY <1>3, <1>8 DEF IInv, JobInv
  <1>10. InPlace' = InPlace /\ Live' = Live /\ Started' = Started BY <1>5 DEF InPlace, Live, Started
  <1>11. Fits(app.rel, Live.db)' BY <1>5, <1>9, <1>10 DEF Fits
  <1>12. JobInv' /\ JobOpen' = TRUE
    <2>1. site'.port = job.new.port /\ site'.open = site.open BY <1>2 DEF SwitchProxy, DataTyped
    <2>2. JobOpen' = TRUE BY <1>6, <1>8 DEF JobOpen
    <2>3. PendingJob' BY <1>3, <1>6 DEF PendingJob, Final
    <2>4. QED BY <1>3, <1>4, <1>5, <1>6, <1>8, <1>9, <1>10, <1>11, <2>1, <2>2, <2>3 DEF IInv, JobInv
  <1>13. ChangingInv'
    <2>1. site'.port = job.new.port /\ site'.open = site.open BY <1>2 DEF SwitchProxy, DataTyped
    <2>2. QED BY <1>3, <1>4, <1>5, <1>6, <1>8, <1>9, <1>10, <1>11, <2>1, <1>12 DEF ChangingInv, Restarted
  <1>14. SoundInv' BY <1>12 DEF SoundInv, Settled
  <1>15. PendingJob' BY <1>3, <1>6 DEF PendingJob, Final
  <1>16. UNCHANGED journal BY <1>5
  <1>17. QED BY <1>1, <1>2, <1>7, <1>12, <1>13, <1>14, <1>15, <1>16, ChangeKeeps

LEMMA ApplyEnds == ASSUME IInv, op = "forward", of = "job", Applied PROVE IInv'
  <1>1. Step("applied") /\ UNCHANGED <<files, panel, timers, site, journal>> BY Zenon DEF Applied
  <1>2. TypeInv' /\ DataTyped /\ DataTyped' BY StepsTyped DEF SettingsStep, IInv, TypeInv
  <1>3. /\ at = "applied" /\ op' = "idle" /\ todo' = <<>> /\ PendingJob /\ ~Unfinished("life") /\ ~Unfinished("data")
        /\ UNCHANGED <<backend, saved, restores>>
    <2>1. ~ApplyLeads("applied", at') BY DEF ApplyLeads
    <2>2. QED BY <1>1, <2>1, ApplyNext
  <1>4. UNCHANGED <<app, built, home, env, dist, dbs, panel, timers, site, journal>> BY <1>1 DEF files
  <1>5. job'.status = "complete" BY DEF Applied, FinishJob, NoJob
  <1>6. ~Unfinished("life")' /\ ~Unfinished("data")' /\ ~PendingJob' /\ ~JobOpen'
    BY <1>3, <1>4, <1>5 DEF Unfinished, PendingJob, JobOpen, Final
  <1>7. /\ JobOpen /\ dist[app.rel] = job.new.setting /\ Live = job.new /\ Restarted /\ site.port = job.new.port
    BY <1>3 DEF IInv, ChangingInv
  <1>8. InPlace /\ timers /\ site.open /\ Fits(app.rel, Live.db) BY <1>3, <1>7 DEF IInv, JobInv
  <1>9. Live' = Live /\ Started' = Started /\ InPlace' = InPlace /\ L' = L /\ D' = D
    BY <1>4 DEF Live, Started, InPlace, L, D
  <1>10. Sound'
    <2>1. site = [port |-> Live.port, open |-> TRUE] BY <1>2, <1>7, <1>8 DEF DataTyped
    <2>2. QED BY <1>4, <1>7, <1>8, <1>9, <2>1 DEF Sound, Restarted, Served, Fits
  <1>11. FilesInv' /\ RetainedInv'
    <2>1. (\A d \in Database : dbs'[d].head = dbs[d].head) /\ (\A r \in Release : r # app.rel => dist'[r] = dist[r]) BY <1>4
    <2>2. QED BY <1>2, <1>3, <1>4, <2>1, ChangeFrame DEF IInv
  <1>12. OneInv' BY <1>3, <1>5, <1>6 DEF OneInv, Final
  <1>13. UpdateInv' /\ RollbackInv' /\ RestoreInv' /\ JobInv' BY <1>6 DEF UpdateInv, RollbackInv, RestoreInv, JobInv
  <1>14. SoundInv' BY <1>10 DEF SoundInv
  <1>15. QED BY <1>2, <1>3, <1>6, <1>11, <1>12, <1>13, <1>14, IdleKeeps

-----------------------------------------------------------------------------
\* Undoing a settings change.

\* Every step of going back leaves what the change has set or sets it back.
LEMMA UnapplyKeeps ==
  ASSUME IInv, op \in {"undo", "recover"}, of = "job", NEW s, Step(s), s # "unapplied",
         TypeInv', UNCHANGED <<journal, job, app, timers>>, FilesInv', RetainedInv',
         site'.open = site.open, site'.port \in {site.port, job.old.port}, Live' \in {Live, job.old},
         dist'[app.rel] \in {dist[app.rel], job.old.setting}, Fits(app.rel, Live.db)', ChangingBackInv'
  PROVE  IInv'
  <1>1. /\ PendingJob /\ JobOpen /\ ~Unfinished("life") /\ ~Unfinished("data") /\ UNCHANGED <<backend, restores>>
    BY UnapplyNext
  <1>2. PendingJob' /\ JobOpen' BY <1>1 DEF PendingJob, JobOpen
  <1>3. /\ InPlace /\ timers /\ site.open /\ site.port \in {job.old.port, job.new.port}
        /\ Live \in {job.old, job.new} /\ dist[app.rel] \in {job.old.setting, job.new.setting}
        /\ job.old.db = job.new.db /\ job.old.db <= restores + 1 /\ (backend = "sqlite" => job.old.db = 1)
    BY <1>1 DEF IInv, JobInv
  <1>4. InPlace' BY <1>3 DEF InPlace
  <1>5. JobInv' BY <1>1, <1>2, <1>3, <1>4 DEF JobInv
  <1>6. SoundInv' BY <1>2 DEF SoundInv, Settled
  <1>7. s # "applied"
    <2>1. ~ApplyBackLeads("applied", at') /\ ~ApplyRecoverLeads("applied", at')
      BY DEF ApplyBackLeads, ApplyRecoverLeads
    <2>2. QED BY <2>1, UnapplyNext
  <1>8. QED BY <1>2, <1>5, <1>6, <1>7, ChangeKeeps

LEMMA UnapplyAt ==
  ASSUME IInv, op \in {"undo", "recover"}, of = "job", NEW s, Step(s), s # "unapplied"
  PROVE  /\ at = s /\ op' = op /\ of' = "job" /\ UNCHANGED <<backend, saved, restores>>
         /\ PendingJob /\ JobOpen /\ ~Unfinished("life") /\ ~Unfinished("data")
         /\ job.old \in Env /\ Live \in {job.old, job.new} /\ Fits(app.rel, Live.db) /\ job.old.db = Live.db
         /\ FilesInv /\ RetainedInv
         /\ s # "dist_back" => dist[app.rel] = job.old.setting
         /\ s \notin {"dist_back", "env_back"} => Live = job.old
         /\ op = "undo" /\ s = "verify" => Restarted
         /\ op = "recover" /\ s \in {"verify", "proxy_back"} => Restarted
         /\ op = "undo" /\ s \in {"restart", "verify"} => site.port = job.old.port
         /\ op = "undo" => ApplyBackLeads(s, at')
         /\ op = "recover" => ApplyRecoverLeads(s, at')
  <1>1. /\ at = s /\ op' = op /\ of' = "job" /\ UNCHANGED <<backend, saved, restores>>
        /\ PendingJob /\ JobOpen /\ ~Unfinished("life") /\ ~Unfinished("data")
        /\ op = "undo" => ApplyBackLeads(s, at')
        /\ op = "recover" => ApplyRecoverLeads(s, at')
    BY UnapplyNext
  <1>2. job.old \in Env BY DEF IInv, TypeInv, DataTyped, Job
  <1>3. Live \in {job.old, job.new} /\ Fits(app.rel, Live.db) /\ job.old.db = Live.db BY <1>1 DEF IInv, JobInv
  <1>4. /\ s # "dist_back" => dist[app.rel] = job.old.setting
        /\ s \notin {"dist_back", "env_back"} => Live = job.old
        /\ op = "undo" /\ s = "verify" => Restarted
        /\ op = "recover" /\ s \in {"verify", "proxy_back"} => Restarted
        /\ op = "undo" /\ s \in {"restart", "verify"} => site.port = job.old.port
    BY <1>1 DEF IInv, ChangingBackInv
  <1>5. QED BY <1>1, <1>2, <1>3, <1>4 DEF IInv

LEMMA UnapplyDistBack == ASSUME IInv, op \in {"undo", "recover"}, of = "job", DistBack PROVE IInv'
  <1>1. Step("dist_back") /\ UNCHANGED <<app, built, home, env, dbs, panel, timers, site, journal, job>> BY DEF DistBack, files
  <1>2. TypeInv' /\ DataTyped /\ DataTyped' BY StepsTyped DEF SettingsStep, IInv, TypeInv
  <1>3. /\ op' = op /\ of' = "job" /\ UNCHANGED <<backend, saved, restores>>
        /\ PendingJob /\ JobOpen /\ ~Unfinished("life") /\ ~Unfinished("data")
        /\ job.old \in Env /\ Live \in {job.old, job.new} /\ Fits(app.rel, Live.db) /\ job.old.db = Live.db
        /\ FilesInv /\ RetainedInv
    BY <1>1, UnapplyAt
  <1>4. at' = "env_back"
    <2>1. (op = "undo" => ApplyBackLeads("dist_back", at')) /\ (op = "recover" => ApplyRecoverLeads("dist_back", at')) BY <1>1, UnapplyAt
    <2>2. QED BY <2>1, ApplyBackOrder, ApplyRecoverOrder
  <1>5. \A d \in Database : dbs'[d].head = dbs[d].head BY <1>1
  <1>6. (\A r \in Release : r # app.rel => dist'[r] = dist[r]) /\ dist'[app.rel] = job.old.setting
    BY <1>2, Views DEF DistBack, DataTyped
  <1>7. FilesInv' /\ RetainedInv' BY <1>1, <1>2, <1>3, <1>5, <1>6, ChangeFrame
  <1>8. Live' = Live /\ Started' = Started /\ InPlace' = InPlace BY <1>1 DEF Live, Started, InPlace
  <1>9. Fits(app.rel, Live.db)' BY <1>1, <1>2, <1>3, <1>5, <1>8, Views DEF Fits
  <1>10. ChangingBackInv'
    <2>1. JobOpen' BY <1>1, <1>3 DEF JobOpen
    <2>2. QED BY <1>1, <1>3, <1>4, <1>6, <1>8, <2>1 DEF ChangingBackInv, Restarted
  <1>11. QED BY <1>1, <1>2, <1>3, <1>6, <1>7, <1>8, <1>9, <1>10, UnapplyKeeps

LEMMA UnapplyEnvBack == ASSUME IInv, op \in {"undo", "recover"}, of = "job", EnvBack PROVE IInv'
  <1>1. Step("env_back") /\ UNCHANGED <<app, built, dist, dbs, panel, timers, site, journal, job>> BY DEF EnvBack, files
  <1>2. TypeInv' /\ DataTyped /\ DataTyped' BY StepsTyped DEF SettingsStep, IInv, TypeInv
  <1>3. /\ op' = op /\ of' = "job" /\ UNCHANGED <<backend, saved, restores>>
        /\ PendingJob /\ JobOpen /\ ~Unfinished("life") /\ ~Unfinished("data")
        /\ job.old \in Env /\ Live \in {job.old, job.new} /\ Fits(app.rel, Live.db) /\ job.old.db = Live.db
        /\ FilesInv /\ RetainedInv
        /\ dist[app.rel] = job.old.setting
    BY <1>1, UnapplyAt
  <1>4. at' = "principal_back"
    <2>1. (op = "undo" => ApplyBackLeads("env_back", at')) /\ (op = "recover" => ApplyRecoverLeads("env_back", at')) BY <1>1, UnapplyAt
    <2>2. QED BY <2>1, ApplyBackOrder, ApplyRecoverOrder
  <1>5. FilesInv' /\ RetainedInv' /\ Live' = job.old
    <2>1. CASE Live = job.old
      <3>1. UNCHANGED <<home, env>> /\ Live' = Live BY <1>1, <2>1 DEF EnvBack, Live
      <3>2. QED BY <1>1, <1>2, <1>3, <2>1, <3>1, ChangeFrame
    <2>2. CASE Live # job.old
      <3>1. ReplaceEnv(job.old) BY <2>2 DEF EnvBack
      <3>2. QED BY <1>1, <1>2, <1>3, <3>1, EnvReplaced
    <2>3. QED BY <2>1, <2>2
  <1>6. Fits(app.rel, Live.db)' BY <1>1, <1>3, <1>5 DEF Fits
  <1>7. ChangingBackInv'
    <2>1. JobOpen' BY <1>1, <1>3 DEF JobOpen
    <2>2. QED BY <1>1, <1>3, <1>4, <1>5, <2>1 DEF ChangingBackInv
  <1>8. QED BY <1>1, <1>2, <1>3, <1>5, <1>6, <1>7, UnapplyKeeps

LEMMA UnapplyPrincipalBack == ASSUME IInv, op \in {"undo", "recover"}, of = "job", PrincipalBack PROVE IInv'
  <1>1. Step("principal_back") /\ UNCHANGED <<app, built, home, env, dist, panel, timers, site, journal, job>> BY DEF PrincipalBack, files
  <1>2. TypeInv' /\ DataTyped /\ DataTyped' BY StepsTyped DEF SettingsStep, IInv, TypeInv
  <1>3. /\ op' = op /\ of' = "job" /\ UNCHANGED <<backend, saved, restores>>
        /\ PendingJob /\ JobOpen /\ ~Unfinished("life") /\ ~Unfinished("data")
        /\ job.old \in Env /\ Live \in {job.old, job.new} /\ Fits(app.rel, Live.db) /\ job.old.db = Live.db
        /\ FilesInv /\ RetainedInv
        /\ dist[app.rel] = job.old.setting /\ Live = job.old
    BY <1>1, UnapplyAt
  <1>4. at' = IF op = "undo" THEN "proxy_back" ELSE "restart"
    <2>1. (op = "undo" => ApplyBackLeads("principal_back", at')) /\ (op = "recover" => ApplyRecoverLeads("principal_back", at')) BY <1>1, UnapplyAt
    <2>2. QED BY <2>1, ApplyBackOrder, ApplyRecoverOrder
  <1>5. \A d \in Database : dbs'[d].head = dbs[d].head
    <2>1. dbs' = dbs \/ \E o : dbs' = [dbs EXCEPT ![Live.db].owner = o] BY DEF PrincipalBack, MigratePrincipal
    <2>2. Live.db \in Database /\ dbs[Live.db] \in Copy BY <1>2, Views DEF DataTyped
    <2>3. \A o : [dbs[Live.db] EXCEPT !.owner = o].head = dbs[Live.db].head BY <2>2 DEF Copy
    <2>4. CASE dbs' = dbs BY <2>4
    <2>5. CASE dbs' # dbs
      <3>1. PICK o : dbs' = [dbs EXCEPT ![Live.db].owner = o] BY <2>1, <2>5
      <3>2. dbs' = [dbs EXCEPT ![Live.db] = [dbs[Live.db] EXCEPT !.owner = o]] BY <3>1
      <3>3. TAKE d \in Database
      <3>4. CASE d = Live.db BY <1>2, <2>2, <2>3, <3>2, <3>4 DEF DataTyped
      <3>5. CASE d # Live.db BY <1>2, <2>2, <3>2, <3>5 DEF DataTyped
      <3>6. QED BY <3>4, <3>5
    <2>6. QED BY <2>4, <2>5
  <1>6. \A r \in Release : r # app.rel => dist'[r] = dist[r] BY <1>1
  <1>7. FilesInv' /\ RetainedInv' BY <1>1, <1>2, <1>3, <1>5, <1>6, ChangeFrame
  <1>8. Live' = Live /\ Started' = Started /\ InPlace' = InPlace BY <1>1 DEF Live, Started, InPlace
  <1>9. Fits(app.rel, Live.db)' BY <1>1, <1>2, <1>3, <1>5, <1>8, Views DEF Fits
  <1>10. ChangingBackInv'
    <2>1. JobOpen' BY <1>1, <1>3 DEF JobOpen
    <2>2. QED BY <1>1, <1>3, <1>4, <1>6, <1>8, <2>1 DEF ChangingBackInv, Restarted
  <1>11. QED BY <1>1, <1>2, <1>3, <1>6, <1>7, <1>8, <1>9, <1>10, UnapplyKeeps

LEMMA UnapplyProxyBack == ASSUME IInv, op \in {"undo", "recover"}, of = "job", ProxyBack PROVE IInv'
  <1>1. Step("proxy_back") /\ UNCHANGED <<app, built, home, env, dist, dbs, panel, timers, journal, job>> BY DEF ProxyBack, files
  <1>2. TypeInv' /\ DataTyped /\ DataTyped' BY StepsTyped DEF SettingsStep, IInv, TypeInv
  <1>3. /\ op' = op /\ of' = "job" /\ UNCHANGED <<backend, saved, restores>>
        /\ PendingJob /\ JobOpen /\ ~Unfinished("life") /\ ~Unfinished("data")
        /\ job.old \in Env /\ Live \in {job.old, job.new} /\ Fits(app.rel, Live.db) /\ job.old.db = Live.db
        /\ FilesInv /\ RetainedInv
        /\ dist[app.rel] = job.old.setting /\ Live = job.old /\ (op = "recover" => Restarted)
    BY <1>1, UnapplyAt
  <1>4. at' = IF op = "undo" THEN "restart" ELSE "unapplied"
    <2>1. (op = "undo" => ApplyBackLeads("proxy_back", at')) /\ (op = "recover" => ApplyRecoverLeads("proxy_back", at')) BY <1>1, UnapplyAt
    <2>2. QED BY <2>1, ApplyBackOrder, ApplyRecoverOrder
  <1>5. \A d \in Database : dbs'[d].head = dbs[d].head BY <1>1
  <1>6. (\A r \in Release : r # app.rel => dist'[r] = dist[r]) /\ site'.port = job.old.port /\ site'.open = site.open
    BY <1>1, <1>2 DEF ProxyBack, DataTyped
  <1>7. FilesInv' /\ RetainedInv' BY <1>1, <1>2, <1>3, <1>5, <1>6, ChangeFrame
  <1>8. Live' = Live /\ Started' = Started /\ InPlace' = InPlace BY <1>1 DEF Live, Started, InPlace
  <1>9. Fits(app.rel, Live.db)' BY <1>1, <1>2, <1>3, <1>5, <1>8, Views DEF Fits
  <1>10. ChangingBackInv'
    <2>1. JobOpen' BY <1>1, <1>3 DEF JobOpen
    <2>2. QED BY <1>1, <1>3, <1>4, <1>6, <1>8, <2>1 DEF ChangingBackInv, Restarted
  <1>11. QED BY <1>1, <1>2, <1>3, <1>6, <1>7, <1>8, <1>9, <1>10, UnapplyKeeps

LEMMA UnapplyRestart == ASSUME IInv, op \in {"undo", "recover"}, of = "job", Restart PROVE IInv'
  <1>1. Step("restart") /\ UNCHANGED <<app, built, home, env, dist, dbs, timers, site, journal, job>> BY DEF Restart, files
  <1>2. TypeInv' /\ DataTyped /\ DataTyped' BY StepsTyped DEF SharedStep, IInv, TypeInv
  <1>3. /\ op' = op /\ of' = "job" /\ UNCHANGED <<backend, saved, restores>>
        /\ PendingJob /\ JobOpen /\ ~Unfinished("life") /\ ~Unfinished("data")
        /\ job.old \in Env /\ Live \in {job.old, job.new} /\ Fits(app.rel, Live.db) /\ job.old.db = Live.db
        /\ FilesInv /\ RetainedInv
        /\ dist[app.rel] = job.old.setting /\ Live = job.old /\ (op = "undo" => site.port = job.old.port)
    BY <1>1, UnapplyAt
  <1>4. at' = "verify"
    <2>1. (op = "undo" => ApplyBackLeads("restart", at')) /\ (op = "recover" => ApplyRecoverLeads("restart", at')) BY <1>1, UnapplyAt
    <2>2. QED BY <2>1, ApplyBackOrder, ApplyRecoverOrder
  <1>5. \A d \in Database : dbs'[d].head = dbs[d].head BY <1>1
  <1>6. \A r \in Release : r # app.rel => dist'[r] = dist[r] BY <1>1
  <1>7. FilesInv' /\ RetainedInv' BY <1>1, <1>2, <1>3, <1>5, <1>6, ChangeFrame
  <1>8. Live' = Live /\ Started' = Started /\ InPlace' = InPlace BY <1>1 DEF Live, Started, InPlace
  <1>9. Fits(app.rel, Live.db)' BY <1>1, <1>2, <1>3, <1>5, <1>8, Views DEF Fits
  <1>10. ChangingBackInv'
    <2>1. JobOpen' BY <1>1, <1>3 DEF JobOpen
    <2>2. QED BY <1>1, <1>3, <1>4, <1>6, <1>8, <2>1 DEF ChangingBackInv, Restarted, Restart
  <1>11. QED BY <1>1, <1>2, <1>3, <1>6, <1>7, <1>8, <1>9, <1>10, UnapplyKeeps

LEMMA UnapplyVerify == ASSUME IInv, op \in {"undo", "recover"}, of = "job", Verify PROVE IInv'
  <1>1. Step("verify") /\ UNCHANGED <<app, built, home, env, dist, dbs, panel, timers, site, journal, job>> BY DEF Verify, files
  <1>2. TypeInv' /\ DataTyped /\ DataTyped' BY StepsTyped DEF SettingsStep, IInv, TypeInv
  <1>3. /\ op' = op /\ of' = "job" /\ UNCHANGED <<backend, saved, restores>>
        /\ PendingJob /\ JobOpen /\ ~Unfinished("life") /\ ~Unfinished("data")
        /\ job.old \in Env /\ Live \in {job.old, job.new} /\ Fits(app.rel, Live.db) /\ job.old.db = Live.db
        /\ FilesInv /\ RetainedInv
        /\ dist[app.rel] = job.old.setting /\ Live = job.old /\ Restarted /\ (op = "undo" => site.port = job.old.port)
    BY <1>1, UnapplyAt
  <1>4. at' = IF op = "undo" THEN "unapplied" ELSE "proxy_back"
    <2>1. (op = "undo" => ApplyBackLeads("verify", at')) /\ (op = "recover" => ApplyRecoverLeads("verify", at')) BY <1>1, UnapplyAt
    <2>2. QED BY <2>1, ApplyBackOrder, ApplyRecoverOrder
  <1>5. \A d \in Database : dbs'[d].head = dbs[d].head BY <1>1
  <1>6. \A r \in Release : r # app.rel => dist'[r] = dist[r] BY <1>1
  <1>7. FilesInv' /\ RetainedInv' BY <1>1, <1>2, <1>3, <1>5, <1>6, ChangeFrame
  <1>8. Live' = Live /\ Started' = Started /\ InPlace' = InPlace BY <1>1 DEF Live, Started, InPlace
  <1>9. Fits(app.rel, Live.db)' BY <1>1, <1>2, <1>3, <1>5, <1>8, Views DEF Fits
  <1>10. ChangingBackInv'
    <2>1. JobOpen' BY <1>1, <1>3 DEF JobOpen
    <2>2. QED BY <1>1, <1>3, <1>4, <1>6, <1>8, <2>1 DEF ChangingBackInv, Restarted
  <1>11. QED BY <1>1, <1>2, <1>3, <1>6, <1>7, <1>8, <1>9, <1>10, UnapplyKeeps

LEMMA UnapplyEnds == ASSUME IInv, op \in {"undo", "recover"}, of = "job", NotApplied PROVE IInv'
  <1>1. Step("unapplied") /\ UNCHANGED <<files, panel, timers, site, journal>> BY Zenon DEF NotApplied
  <1>2. TypeInv' /\ DataTyped /\ DataTyped' BY StepsTyped DEF SettingsStep, IInv, TypeInv
  <1>3. /\ at = "unapplied" /\ op' = "idle" /\ todo' = <<>> /\ PendingJob /\ UNCHANGED <<backend, saved, restores>>
    BY <1>1, UnapplyNext
  <1>4. UNCHANGED <<app, built, home, env, dist, dbs, panel, timers, site, journal>> BY <1>1 DEF files
  <1>5. job'.status = "rolled_back" BY DEF NotApplied, FinishJob, NoJob
  <1>6. ~PendingJob' /\ ~JobOpen' BY <1>5 DEF PendingJob, JobOpen, Final
  <1>7. Live' = Live /\ Started' = Started /\ InPlace' = InPlace /\ L' = L /\ D' = D /\ (\A r : Env0(r)' = Env0(r))
    BY <1>4 DEF Live, Started, InPlace, L, D, Env0
  <1>8. \A r, d : Fits(r, d)' = Fits(r, d) BY <1>4 DEF Fits
  <1>9. Unfinished("life")' = Unfinished("life") /\ Unfinished("data")' = Unfinished("data") BY <1>4 DEF Unfinished
  <1>10. OneInv'
    <2>1. ~(Unfinished("life") /\ Unfinished("data")) BY DEF IInv, OneInv
    <2>2. QED BY <1>3, <1>5, <1>9, <2>1 DEF OneInv, Final
  <1>11. FilesInv' BY <1>3, <1>4, <1>7, <1>9 DEF IInv, FilesInv
  <1>12. UpdateInv'
    <2>1. Fits(L.prev, Env0(L.prev).db)' = Fits(L.prev, Env0(L.prev).db) BY <1>4, <1>7 DEF Fits
    <2>2. QED BY <1>4, <1>7, <1>9, <2>1 DEF IInv, UpdateInv
  <1>13. RetainedInv'
    <2>1. \A d : Keeps(d)' = Keeps(d) BY <1>4, <1>7 DEF Keeps, Fits
    <2>2. \A b \in D.backup : Keeps(b.env.db)' = Keeps(b.env.db) BY <1>4, <1>7 DEF Keeps, Fits
    <2>3. Keeps(Live.db)' = Keeps(Live.db) BY <1>4, <1>7 DEF Keeps, Fits
    <2>4. QED BY <1>4, <1>7, <1>9, <2>2, <2>3 DEF IInv, RetainedInv
  <1>14. RollbackInv'
    <2>1. /\ Fits(D.prev, Env0(D.prev).db)' = Fits(D.prev, Env0(D.prev).db)
          /\ Fits(D.to, Env0(D.to).db)' = Fits(D.to, Env0(D.to).db)
      BY <1>4, <1>7 DEF Fits
    <2>2. QED BY <1>4, <1>7, <1>9, <2>1 DEF IInv, RollbackInv
  <1>15. RestoreInv'
    <2>1. Fits(app.rel, Live.db)' = Fits(app.rel, Live.db) BY <1>4, <1>7 DEF Fits
    <2>2. \A b \in D.backup : Fits(app.rel, b.env.db)' = Fits(app.rel, b.env.db) BY <1>4, <1>7 DEF Fits
    <2>3. QED BY <1>3, <1>4, <1>7, <1>9, <2>1, <2>2 DEF IInv, RestoreInv
  <1>16. JobInv' BY <1>6 DEF JobInv
  <1>17. SoundInv'
    <2>1. SUFFICES ASSUME ~LifeOpen, ~DataOpen PROVE Sound' BY <1>7 DEF SoundInv, Settled, LifeOpen, DataOpen
    <2>2. Sound
      <3>1. CASE ~JobOpen BY <2>1, <3>1 DEF IInv, SoundInv, Settled
      <3>2. CASE JobOpen
        <4>1. /\ dist[app.rel] = job.old.setting /\ Live = job.old /\ Restarted /\ site.port = job.old.port
          BY <1>3, <3>2 DEF IInv, ChangingBackInv
        <4>2. InPlace /\ timers /\ site.open /\ Fits(app.rel, Live.db) BY <3>2 DEF IInv, JobInv
        <4>3. site = [port |-> Live.port, open |-> TRUE] BY <1>2, <4>1, <4>2 DEF DataTyped
        <4>4. QED BY <4>1, <4>2, <4>3 DEF Sound, Restarted, Served
      <3>3. QED BY <3>1, <3>2
    <2>3. Fits(app.rel, Live.db)' = Fits(app.rel, Live.db) BY <1>4, <1>7 DEF Fits
    <2>4. QED BY <1>4, <1>7, <2>2, <2>3 DEF Sound, Served
  <1>18. QED BY <1>2, <1>3, <1>6, <1>10, <1>11, <1>12, <1>13, <1>14, <1>15, <1>16, <1>17, IdleKeeps

-----------------------------------------------------------------------------
\* Operations begin.

LEMMA PlanBegins ==
  ASSUME NEW a, NEW z, IsPlan(Plan', todo', a, z), z = Last', op' # "idle"
  PROVE  PlanInv' /\ at' = a /\ todo' # <<>>
  BY DEF IsPlan, PlanInv, at

LEMMA WholeIdle ==
  ASSUME IInv, op = "idle", ~Pending
  PROVE  /\ Sound /\ ~LifeOpen /\ ~DataOpen /\ ~JobOpen /\ ~PendingJob /\ ~Unfinished("life") /\ ~Unfinished("data")
         /\ D.clone = 0
  <1>1. ~PendingJob /\ ~Unfinished("life") /\ ~Unfinished("data") BY DEF Pending
  <1>2. ~LifeOpen /\ ~DataOpen /\ ~JobOpen
    BY <1>1 DEF LifeOpen, DataOpen, JobOpen, PendingJob, Unfinished, L, D, Final
  <1>3. Sound BY <1>2 DEF IInv, SoundInv, Settled
  <1>4. D.clone = 0 BY <1>1 DEF IInv, FilesInv
  <1>5. QED BY <1>1, <1>2, <1>3, <1>4

LEMMA UpdateBegins == ASSUME IInv, Update PROVE IInv'
  <1>1. TypeInv' /\ DataTyped /\ DataTyped' BY UpdateTyped DEF IInv, TypeInv
  <1>2. /\ op = "idle" /\ ~Pending /\ built < MaxRelease /\ built' = built + 1
        /\ journal' = [journal EXCEPT !["life"] =
             [NoRecord EXCEPT !.kind = "update", !.state = "preparing", !.prev = app.rel, !.to = built + 1, !.port = Live.port]]
        /\ UNCHANGED <<backend, app, home, env, dist, dbs, panel, timers, site, job, helper, saved, bounds>>
    BY DEF Update, MayStart
  <1>3. op' = "forward" /\ of' = "life" /\ IsPlan("update", todo', "build", "complete") BY UpdateStarts
  <1>4. /\ L' = [NoRecord EXCEPT !.kind = "update", !.state = "preparing", !.prev = app.rel, !.to = built + 1, !.port = Live.port]
        /\ D' = D
    BY <1>1, <1>2 DEF DataTyped, L, D
  <1>5. /\ L'.kind = "update" /\ L'.state = "preparing" /\ L'.prev = app.rel /\ L'.to = built + 1 /\ L'.port = Live.port
        /\ L'.backup = {}
    BY <1>4 DEF NoRecord
  <1>6. Sound /\ ~JobOpen /\ ~PendingJob /\ ~Unfinished("data") /\ D.clone = 0 BY <1>2, WholeIdle
  <1>7. Unfinished("life")' /\ ~Unfinished("data")' /\ ~PendingJob' /\ ~JobOpen' /\ restores' = restores
    BY <1>2, <1>4, <1>5, <1>6 DEF Unfinished, PendingJob, JobOpen, L, D, Final, bounds
  <1>8. PlanInv' /\ at' = "build"
    <2>1. Plan' = "update" /\ Last' = "complete" BY <1>3 DEF Plan, Last
    <2>2. QED BY <1>3, <2>1, PlanBegins
  <1>9. OneInv' BY <1>3, <1>7 DEF OneInv, PendingJob
  <1>10. built \in Nat /\ app.rel \in Nat /\ app.rel <= built /\ app.rel < built + 1
    <2>1. built \in Nat /\ app.rel \in Nat BY <1>1, Views DEF DataTyped, Release
    <2>2. app.rel <= built BY DEF IInv, FilesInv
    <2>3. QED BY <2>1, <2>2
  <1>11. FilesInv' BY <1>2, <1>4, <1>6, <1>7, <1>10 DEF IInv, FilesInv
  <1>12. Env0(L.prev)' = Live /\ Live' = Live /\ Started' = Started /\ InPlace' = InPlace
    BY <1>2, <1>5 DEF Env0, Live, Started, InPlace
  <1>13. Fits(app.rel, Live.db)' BY <1>2, <1>6, <1>12 DEF Fits, Sound
  <1>14. UpdateInv' BY <1>2, <1>5, <1>6, <1>10, <1>12, <1>13 DEF UpdateInv, Sound, Served, Fits
  <1>15. RetainedInv' BY <1>5 DEF RetainedInv
  <1>16. RollbackInv' /\ RestoreInv' /\ JobInv' /\ HelperInv' BY <1>7 DEF RollbackInv, RestoreInv, JobInv, HelperInv
  <1>17. SoundInv' BY <1>2, <1>6, <1>12, <1>13 DEF SoundInv, Sound, Served
  <1>18. UpdatingInv'
    <2>1. ~LifeOpen' BY <1>5 DEF LifeOpen, Early
    <2>2. QED BY <1>2, <1>5, <1>8, <2>1 DEF UpdatingInv, Early, Opened
  <1>19. RollingBackInv' /\ RestoringInv' /\ UndoingInv' /\ ChangingInv' /\ ChangingBackInv'
    BY <1>3 DEF RollingBackInv, RestoringInv, UndoingInv, ChangingInv, ChangingBackInv
  <1>20. QED BY <1>1, <1>8, <1>9, <1>11, <1>14, <1>15, <1>16, <1>17, <1>18, <1>19 DEF IInv

LEMMA RollbackBegins == ASSUME IInv, RollbackRelease PROVE IInv'
  <1>1. TypeInv' /\ DataTyped /\ DataTyped' BY RollbackTyped DEF IInv, TypeInv
  <1>2. /\ op = "idle" /\ ~Pending /\ L.state = "complete" /\ Compatible(SchemaOf[L.prev], dbs[Live.db].head)
        /\ journal' = [journal EXCEPT !["data"] =
             [NoRecord EXCEPT !.kind = "rollback", !.state = "maintenance", !.prev = app.rel, !.to = L.prev, !.port = Live.port]]
        /\ UNCHANGED <<host, job, helper, saved, bounds>>
    BY DEF RollbackRelease, MayStart, L
  <1>3. op' = "forward" /\ of' = "data" /\ IsPlan("rollback", todo', "close", "complete") BY RollbackStarts
  <1>4. /\ D' = [NoRecord EXCEPT !.kind = "rollback", !.state = "maintenance", !.prev = app.rel, !.to = L.prev, !.port = Live.port]
        /\ L' = L
    BY <1>1, <1>2 DEF DataTyped, L, D
  <1>5. /\ D'.kind = "rollback" /\ D'.state = "maintenance" /\ D'.prev = app.rel /\ D'.to = L.prev /\ D'.port = Live.port
        /\ D'.backup = {} /\ D'.clone = 0
    BY <1>4 DEF NoRecord
  <1>6. Sound /\ ~JobOpen /\ ~PendingJob /\ ~Unfinished("life") /\ ~Unfinished("data") BY <1>2, WholeIdle
  <1>7. ~Unfinished("life")' /\ Unfinished("data")' /\ ~PendingJob' /\ ~JobOpen' /\ restores' = restores
    BY <1>2, <1>4, <1>5, <1>6 DEF Unfinished, PendingJob, JobOpen, L, D, Final, bounds
  <1>8. PlanInv' /\ at' = "close"
    <2>1. Plan' = "rollback" /\ Last' = "complete" BY <1>3, <1>5 DEF Plan, Last
    <2>2. QED BY <1>3, <2>1, PlanBegins
  <1>9. OneInv' BY <1>3, <1>7 DEF OneInv, PendingJob
  <1>10. UNCHANGED <<backend, app, built, home, env, dist, dbs, panel, timers, site, saved>> BY <1>2 DEF host
  <1>11. FilesInv'
    <2>1. restores \in Nat BY DEF IInv, TypeInv, ControlTyped
    <2>2. 0 <= restores + 1 BY <2>1
    <2>3. QED BY <1>5, <1>7, <1>10, <2>2 DEF IInv, FilesInv
  <1>12. /\ Env0(L.prev)' = Env0(L.prev) /\ Env0(app.rel)' = Live /\ Live' = Live /\ Started' = Started /\ InPlace' = InPlace
    BY <1>4, <1>10 DEF Env0, Live, Started, InPlace
  <1>13. /\ L.prev < L.to /\ dist[L.prev] = Env0(L.prev).setting /\ app.rel = L.to
         /\ Fits(L.prev, Live.db) => Fits(L.prev, Env0(L.prev).db)
    BY <1>2, <1>6 DEF IInv, RetainedInv, Keeps
  <1>14. /\ Fits(L.prev, Env0(L.prev).db) /\ Fits(L.prev, Env0(L.prev).db)' = Fits(L.prev, Env0(L.prev).db)
         /\ Fits(app.rel, Live.db)'
    BY <1>2, <1>4, <1>6, <1>10, <1>12, <1>13 DEF Fits, Sound
  <1>15. RetainedInv' BY <1>4, <1>5, <1>7, <1>10, <1>12, <1>13 DEF RetainedInv
  <1>16. app.rel <= built BY DEF IInv, FilesInv
  <1>17. RollbackInv'
    BY <1>2, <1>4, <1>5, <1>6, <1>10, <1>12, <1>13, <1>14, <1>16 DEF RollbackInv, Sound, Fits, Env0, InPlace
  <1>18. UpdateInv' /\ RestoreInv' /\ JobInv' /\ HelperInv' BY <1>5, <1>7 DEF UpdateInv, RestoreInv, JobInv, HelperInv
  <1>19. SoundInv' BY <1>6, <1>10, <1>12, <1>14 DEF SoundInv, Sound, Served
  <1>20. RollingBackInv' BY <1>2, <1>4, <1>5, <1>6, <1>8, <1>10 DEF RollingBackInv, Reopening, Pausing, Opened, Sound
  <1>21. UpdatingInv' /\ RestoringInv' /\ UndoingInv' /\ ChangingInv' /\ ChangingBackInv'
    BY <1>3, <1>5 DEF UpdatingInv, RestoringInv, UndoingInv, ChangingInv, ChangingBackInv
  <1>22. QED BY <1>1, <1>8, <1>9, <1>11, <1>15, <1>17, <1>18, <1>19, <1>20, <1>21 DEF IInv

LEMMA RestoreBegins == ASSUME IInv, RestoreDatabase PROVE IInv'
  <1> DEFINE pg == backend = "postgresql"
  <1>1. TypeInv' /\ TypeInv /\ DataTyped /\ DataTyped' BY RestoreTyped DEF IInv, TypeInv
  <1>2. /\ op = "idle" /\ ~Pending /\ restores' = restores + 1 /\ (\E b \in saved : b.head = SchemaOf[app.rel])
        /\ journal' = [journal EXCEPT !["data"] =
             [NoRecord EXCEPT !.kind = "restore", !.state = IF pg THEN "preparing" ELSE "maintenance", !.prev = app.rel,
                              !.to = app.rel, !.port = Live.port, !.clone = IF pg THEN restores + 2 ELSE 0]]
        /\ UNCHANGED <<host, job, helper, saved>>
    BY DEF RestoreDatabase, MayStart
  <1>3. op' = "forward" /\ of' = "data" /\ IsPlan("restore", todo', IF pg THEN "clone" ELSE "close", "complete")
    BY <1>1, RestoreStarts
  <1>4. /\ D' = [NoRecord EXCEPT !.kind = "restore", !.state = IF pg THEN "preparing" ELSE "maintenance", !.prev = app.rel,
                              !.to = app.rel, !.port = Live.port, !.clone = IF pg THEN restores + 2 ELSE 0]
        /\ L' = L
    BY <1>1, <1>2 DEF DataTyped, L, D
  <1>5. /\ D'.kind = "restore" /\ D'.state = (IF pg THEN "preparing" ELSE "maintenance") /\ D'.prev = app.rel
        /\ D'.to = app.rel /\ D'.port = Live.port /\ D'.backup = {} /\ D'.clone = (IF pg THEN restores + 2 ELSE 0)
    BY <1>4 DEF NoRecord
  <1>6. Sound /\ ~JobOpen /\ ~PendingJob /\ ~Unfinished("life") /\ ~Unfinished("data") BY <1>2, WholeIdle
  <1>7. ~Unfinished("life")' /\ Unfinished("data")' /\ ~PendingJob' /\ ~JobOpen'
    BY <1>2, <1>4, <1>5, <1>6 DEF Unfinished, PendingJob, JobOpen, L, D, Final
  <1>8. PlanInv' /\ at' = IF pg THEN "clone" ELSE "close"
    <2>1. Plan' = "restore" /\ Last' = "complete" BY <1>3, <1>5 DEF Plan, Last
    <2>2. QED BY <1>3, <2>1, PlanBegins
  <1>9. OneInv' BY <1>3, <1>7 DEF OneInv, PendingJob
  <1>10. /\ UNCHANGED <<backend, app, built, home, env, dist, dbs, panel, timers, site, saved>>
         /\ backend \in {"sqlite", "postgresql"} /\ restores \in Nat
    BY <1>1, <1>2 DEF host, TypeInv, ControlTyped
  <1>11. \A r \in Release : env[r].db \in Nat /\ env[r].db <= restores + 1 /\ env[r].db <= restores' + 1
                            /\ (pg => env[r].db # D'.clone)
    <2>1. TAKE r \in Release
    <2>2. env[r].db \in Nat
      <3>1. env[r] \in Env BY <1>1 DEF DataTyped
      <3>2. env[r].db \in Database BY <3>1 DEF Env
      <3>3. Database \subseteq Nat BY HostAssumption DEF Database, HostAssumption
      <3>4. QED BY <3>2, <3>3
    <2>3. env[r].db <= restores + 1 BY DEF IInv, FilesInv
    <2>4. QED BY <1>2, <1>5, <1>10, <2>2, <2>3
  <1>12. FilesInv' BY <1>2, <1>5, <1>7, <1>10, <1>11 DEF IInv, FilesInv
  <1>13. (\A r : Env0(r)' = Env0(r)) /\ Live' = Live /\ Started' = Started /\ InPlace' = InPlace
    BY <1>10 DEF Env0, Live, Started, InPlace
  <1>14. Fits(app.rel, Live.db)' BY <1>6, <1>10, <1>13 DEF Fits, Sound
  <1>15. RetainedInv'
    <2>1. Keeps(Live.db)' = Keeps(Live.db) BY <1>4, <1>10, <1>13 DEF Keeps, Fits
    <2>2. QED BY <1>4, <1>5, <1>6, <1>10, <1>13, <2>1 DEF IInv, RetainedInv
  <1>16. Live.db = env[home[app.rel]].db /\ home[app.rel] \in Release BY <1>1, Views DEF Live
  <1>17. RestoreInv' BY <1>5, <1>6, <1>10, <1>11, <1>13, <1>14, <1>16 DEF RestoreInv, Sound
  <1>18. UpdateInv' /\ RollbackInv' /\ JobInv' /\ HelperInv' BY <1>5, <1>7 DEF UpdateInv, RollbackInv, JobInv, HelperInv
  <1>19. SoundInv' BY <1>6, <1>10, <1>13, <1>14 DEF SoundInv, Sound, Served
  <1>20. RestoringInv'
    <2>1. \A b \in saved : b.head = SchemaOf[app.rel] BY <1>2 DEF IInv, FilesInv
    <2>2. Live.db # D'.clone
      <3>1. Live.db # 0 BY <1>1, HostAssumption, Views DEF Database, HostAssumption
      <3>2. QED BY <1>5, <1>11, <1>16, <3>1
    <2>3. CASE pg
      <3>1. D'.clone # 0 BY <1>5, <1>10, <2>3
      <3>2. ~DataOpen' BY <1>5, <2>3 DEF DataOpen
      <3>3. QED BY <1>5, <1>8, <1>10, <1>13, <2>1, <2>2, <2>3, <3>1, <3>2 DEF RestoringInv
    <2>4. CASE ~pg
      <3>1. backend = "sqlite" /\ timers BY <1>6, <1>10, <2>4 DEF Sound
      <3>2. QED BY <1>5, <1>8, <1>10, <1>13, <2>1, <2>2, <2>4, <3>1 DEF RestoringInv, Reopening, Pausing
    <2>5. QED BY <2>3, <2>4
  <1>21. UpdatingInv' /\ RollingBackInv' /\ UndoingInv' /\ ChangingInv' /\ ChangingBackInv'
    BY <1>3, <1>5 DEF UpdatingInv, RollingBackInv, UndoingInv, ChangingInv, ChangingBackInv
  <1>22. QED BY <1>1, <1>8, <1>9, <1>12, <1>15, <1>17, <1>18, <1>19, <1>20, <1>21 DEF IInv

-----------------------------------------------------------------------------
\* Reboots, kills, backups and helpers.

\* What depends on the host only: a start of the panel or of the timers, or
\* another row, takes nothing from it.
LEMMA HostKept ==
  ASSUME IInv, UNCHANGED <<backend, app, built, home, env, dist, site, journal, job, restores>>,
         panel' \in {panel, Started}, timers' \in {timers, TRUE}, \A a, b \in saved' : a = b,
         \A d \in Database : dbs'[d].head = dbs[d].head
  PROVE  /\ FilesInv' /\ UpdateInv' /\ RetainedInv' /\ RollbackInv' /\ RestoreInv' /\ JobInv' /\ SoundInv'
         /\ L' = L /\ D' = D /\ PendingJob' = PendingJob /\ (LifeOpen <=> LifeOpen') /\ (DataOpen <=> DataOpen')
         /\ (JobOpen <=> JobOpen')
         /\ (\A r : Env0(r)' = Env0(r)) /\ Live' = Live /\ Started' = Started /\ InPlace' = InPlace
         /\ (\A j : Unfinished(j)' = Unfinished(j)) /\ (\A r : \A d \in Database : Fits(r, d)' = Fits(r, d))
  <1>1. /\ L' = L /\ D' = D /\ PendingJob' = PendingJob /\ (\A j : Unfinished(j)' = Unfinished(j))
        /\ (\A r : Env0(r)' = Env0(r)) /\ Live' = Live /\ Started' = Started /\ InPlace' = InPlace
    BY DEF L, D, PendingJob, Unfinished, Env0, Live, Started, InPlace
  <1>2. (LifeOpen <=> LifeOpen') /\ (DataOpen <=> DataOpen') /\ (JobOpen <=> JobOpen')
    BY <1>1 DEF LifeOpen, DataOpen, JobOpen
  <1>3. \A r : \A d \in Database : Fits(r, d)' = Fits(r, d) BY DEF Fits
  <1>4. DataTyped BY DEF IInv, TypeInv
  <1>5. /\ Live.db \in Database /\ \A r \in Release : Env0(r).db \in Database
    <2>1. \A r \in Release : env[home[r]] \in Env BY <1>4 DEF DataTyped
    <2>2. QED BY <1>4, <2>1, Views DEF Env0, Env
  <1>6. /\ L.prev \in Release /\ D.prev \in Release /\ D.to \in Release
        /\ (\A b \in D.backup : b.env.db \in Database)
    BY <1>4 DEF DataTyped, Record, L, D, Env
  <1>7. FilesInv' BY <1>1 DEF IInv, FilesInv
  <1>8. UpdateInv'
    <2>1. Fits(L.prev, Env0(L.prev).db)' = Fits(L.prev, Env0(L.prev).db) BY <1>1, <1>5, <1>6 DEF Fits
    <2>2. QED BY <1>1, <2>1 DEF IInv, UpdateInv
  <1>9. RetainedInv'
    <2>1. \A d \in Database : Keeps(d)' = Keeps(d) BY <1>1, <1>5, <1>6 DEF Keeps, Fits
    <2>2. /\ Keeps(Live.db)' = Keeps(Live.db)
          /\ \A b \in D.backup : Keeps(b.env.db)' = Keeps(b.env.db)
      BY <1>1, <1>5, <1>6 DEF Keeps, Fits
    <2>3. QED BY <1>1, <2>2 DEF IInv, RetainedInv
  <1>10. RollbackInv'
    <2>1. /\ Fits(D.prev, Env0(D.prev).db)' = Fits(D.prev, Env0(D.prev).db)
          /\ Fits(D.to, Env0(D.to).db)' = Fits(D.to, Env0(D.to).db)
      BY <1>1, <1>5, <1>6 DEF Fits
    <2>2. QED BY <1>1, <2>1 DEF IInv, RollbackInv
  <1>11. Fits(app.rel, Live.db)' = Fits(app.rel, Live.db) BY <1>1, <1>5 DEF Fits
  <1>12. RestoreInv'
    <2>1. \A b \in D.backup : Fits(app.rel, b.env.db)' = Fits(app.rel, b.env.db) BY <1>1, <1>6 DEF Fits
    <2>2. QED BY <1>1, <1>11, <2>1 DEF IInv, RestoreInv
  <1>13. JobInv' BY <1>1, <1>2, <1>11 DEF IInv, JobInv
  <1>14. SoundInv' BY <1>1, <1>2, <1>11 DEF IInv, SoundInv, Settled, Sound, Served
  <1>15. QED BY <1>1, <1>2, <1>3, <1>7, <1>8, <1>9, <1>10, <1>12, <1>13, <1>14

\* An operation may end at any step, however the panel and the timers come
\* to run again.
LEMMA Stops ==
  ASSUME IInv, TypeInv', UNCHANGED <<backend, app, built, home, env, dist, site, journal, job, restores>>,
         panel' \in {panel, Started}, timers' \in {timers, TRUE}, \A a, b \in saved' : a = b,
         \A d \in Database : dbs'[d].head = dbs[d].head, op' = "idle", todo' = <<>>,
         helper' = FALSE \/ helper' = helper
  PROVE  IInv'
  <1>1. /\ FilesInv' /\ UpdateInv' /\ RetainedInv' /\ RollbackInv' /\ RestoreInv' /\ JobInv' /\ SoundInv'
        /\ PendingJob' = PendingJob /\ (\A j : Unfinished(j)' = Unfinished(j))
    BY HostKept
  <1>2. OneInv'
    <2>1. Unfinished("life")' = Unfinished("life") /\ Unfinished("data")' = Unfinished("data") BY <1>1
    <2>2. QED BY <2>1 DEF IInv, OneInv
  <1>3. HelperInv' BY <1>1 DEF IInv, HelperInv
  <1>4. PlanInv' BY DEF PlanInv
  <1>5. UpdatingInv' /\ RollingBackInv' /\ RestoringInv' /\ UndoingInv' /\ ChangingInv' /\ ChangingBackInv'
    BY DEF UpdatingInv, RollingBackInv, RestoringInv, UndoingInv, ChangingInv, ChangingBackInv
  <1>6. QED BY <1>1, <1>2, <1>3, <1>4, <1>5 DEF IInv

LEMMA BackupMade == ASSUME IInv, MakeBackup PROVE IInv'
  <1>1. /\ op = "idle" /\ saved' = {dbs[Live.db]} /\ UNCHANGED <<host, journal, job, helper, op, of, todo, bounds>>
    BY DEF MakeBackup, MayStart
  <1>2. todo = <<>> BY <1>1 DEF IInv, PlanInv
  <1>3. UNCHANGED <<backend, app, built, home, env, dist, dbs, panel, timers, site, restores>> BY <1>1 DEF host, bounds
  <1>4. QED BY <1>1, <1>2, <1>3, MakeBackupTyped, Stops

\* Nothing is said of the bounds, and of the helper only that it may wait.
LEMMA SameState ==
  ASSUME IInv, TypeInv', UNCHANGED <<host, journal, job, saved, op, of, todo, bounds>>, helper' \in {FALSE, helper}
  PROVE  IInv'
  <1>1. UNCHANGED <<journal, job, saved, op, of, todo>> OBVIOUS
  <1>2. UNCHANGED <<backend, app, built, home, env, dist, dbs, panel, timers, site, restores>> BY DEF host, bounds
  <1>3. TypeInv' OBVIOUS
  <1>4. \A a, b \in saved' : a = b BY <1>1 DEF IInv, FilesInv
  <1>5. /\ FilesInv' /\ UpdateInv' /\ RetainedInv' /\ RollbackInv' /\ RestoreInv' /\ JobInv' /\ SoundInv'
    BY <1>1, <1>2, <1>4, HostKept
  <1>6. HelperInv' BY <1>1 DEF IInv, HelperInv, PendingJob
  <1>7. PlanInv' /\ OneInv'
    BY <1>1, <1>2 DEF IInv, PlanInv, Chain, Leads, Plan, Last, OneInv, Unfinished, PendingJob, D
  <1>8. at' = at /\ L' = L /\ D' = D /\ (\A r : Env0(r)' = Env0(r)) /\ Live' = Live /\ Started' = Started
    <2>1. at' = at BY <1>1 DEF at
    <2>2. L' = L /\ D' = D BY <1>1 DEF L, D
    <2>3. (\A r : Env0(r)' = Env0(r)) /\ Live' = Live BY <1>2 DEF Env0, Live
    <2>4. Started' = Started BY <1>2, <2>3 DEF Started, InPlace
    <2>5. QED BY <2>1, <2>2, <2>3, <2>4
  <1>9. UpdatingInv'
    BY <1>1, <1>2, <1>8 DEF IInv, UpdatingInv, LifeOpen, Reopening, Pausing, Restarted, Served, Fits
  <1>10. RollingBackInv' BY <1>1, <1>2, <1>8 DEF IInv, RollingBackInv, Reopening, Pausing, Restarted, Served
  <1>11. RestoringInv' BY <1>1, <1>2, <1>8 DEF IInv, RestoringInv, DataOpen, Reopening, Pausing, Restarted, Served
  <1>12. UndoingInv' BY <1>1, <1>2, <1>8 DEF IInv, UndoingInv, LifeOpen, DataOpen, Reopening, Restarted, Served
  <1>13. ChangingInv' /\ ChangingBackInv'
    BY <1>1, <1>2, <1>8 DEF IInv, ChangingInv, ChangingBackInv, JobOpen, Restarted, Sound, Served, InPlace, Fits
  <1>14. QED BY <1>3, <1>5, <1>6, <1>7, <1>9, <1>10, <1>11, <1>12, <1>13 DEF IInv

LEMMA HelperLeft == ASSUME IInv, HelperGivesUp PROVE IInv'
  BY HelperTyped, SameState, Zenon DEF HelperGivesUp

LEMMA Killed == ASSUME IInv, Kill \/ Reboot PROVE IInv'
  <1>1. /\ op' = "idle" /\ todo' = <<>> /\ panel' \in {panel, Started} /\ timers' \in {timers, TRUE}
        /\ helper' = FALSE \/ helper' = helper
        /\ UNCHANGED <<backend, app, built, home, env, dist, dbs, site, journal, job, saved, restores>>
    BY DEF Kill, Reboot, Begin, host, files
  <1>2. \A a, b \in saved' : a = b BY <1>1 DEF IInv, FilesInv
  <1>3. QED BY <1>1, <1>2, FaultTyped, Stops

LEMMA ChangeAsked == ASSUME IInv, Apply PROVE IInv'
  <1>1. /\ op = "idle" /\ ~PendingJob /\ UNCHANGED <<host, journal, saved, op, of, todo, restores>>
        /\ \/ \E e \in Wanted : job' = [status |-> "queued", old |-> Live, new |-> e,
                                        tracked |-> dbs[Live.db].owner = Live.setting]
           \/ FinishJob("rolled_back")
    BY DEF Apply
  <1>2. TypeInv' /\ DataTyped BY ApplyTyped DEF IInv, TypeInv
  <1>3. todo' = <<>> /\ op' = "idle" BY <1>1 DEF IInv, PlanInv
  <1>4. UNCHANGED <<backend, app, built, home, env, dist, dbs, panel, timers, site>> BY <1>1 DEF host
  <1>5. /\ job'.status \in {"queued", "rolled_back"}
        /\ job'.status = "queued" => job'.old = Live /\ job'.new.db = Live.db
    <2>1. \A e \in Wanted : e.db = Live.db BY DEF Wanted
    <2>2. QED BY <1>1, <2>1 DEF FinishJob, NoJob
  <1>6. ~JobOpen /\ ~JobOpen' /\ (PendingJob' => job'.status = "queued")
    BY <1>1, <1>5 DEF JobOpen, PendingJob, Final
  <1>7. Live' = Live /\ L' = L /\ D' = D /\ (\A r : Env0(r)' = Env0(r)) /\ Started' = Started /\ InPlace' = InPlace
    BY <1>1, <1>4 DEF Live, L, D, Env0, Started, InPlace
  <1>8. Unfinished("life")' = Unfinished("life") /\ Unfinished("data")' = Unfinished("data") BY <1>1 DEF Unfinished
  <1>9. OneInv' BY <1>3, <1>5, <1>8 DEF IInv, OneInv, Final
  <1>10. FilesInv' BY <1>1, <1>4, <1>7, <1>8 DEF IInv, FilesInv
  <1>11. UpdateInv' BY <1>4, <1>7, <1>8 DEF IInv, UpdateInv, Fits
  <1>12. RetainedInv'
    <2>1. Keeps(Live.db)' = Keeps(Live.db) /\ \A b \in D.backup : Keeps(b.env.db)' = Keeps(b.env.db)
      BY <1>4, <1>7 DEF Keeps, Fits
    <2>2. QED BY <1>4, <1>7, <1>8, <2>1 DEF IInv, RetainedInv
  <1>13. RollbackInv' BY <1>4, <1>7, <1>8 DEF IInv, RollbackInv, Fits
  <1>14. RestoreInv' BY <1>1, <1>4, <1>7, <1>8 DEF IInv, RestoreInv, Fits
  <1>15. JobInv'
    <2>1. Live.db <= restores + 1 /\ (backend = "sqlite" => Live.db = 1)
      <3>1. home[app.rel] \in Release BY <1>2, Views
      <3>2. QED BY <3>1 DEF IInv, FilesInv, Live
    <2>2. QED BY <1>1, <1>4, <1>5, <1>6, <1>7, <2>1 DEF JobInv
  <1>16. HelperInv' BY <1>3, <1>6 DEF HelperInv
  <1>17. SoundInv' BY <1>4, <1>6, <1>7 DEF IInv, SoundInv, Settled, LifeOpen, DataOpen, Sound, Served, Fits
  <1>18. PlanInv' BY <1>3 DEF PlanInv
  <1>19. UpdatingInv' /\ RollingBackInv' /\ RestoringInv' /\ UndoingInv' /\ ChangingInv' /\ ChangingBackInv'
    BY <1>3 DEF UpdatingInv, RollingBackInv, RestoringInv, UndoingInv, ChangingInv, ChangingBackInv
  <1>20. QED BY <1>2, <1>9, <1>10, <1>11, <1>12, <1>13, <1>14, <1>15, <1>16, <1>17, <1>18, <1>19 DEF IInv

LEMMA HelperRuns == ASSUME IInv, ApplyHelper PROVE IInv'
  <1>1. /\ helper /\ op = "idle" /\ helper' = FALSE /\ UNCHANGED <<host, journal, job, saved, bounds>>
        /\ \/ /\ PendingJob /\ ~Unfinished("life") /\ ~Unfinished("data")
              /\ Begin("forward", "job", <<"check", "try", "switching", "exchange", "replace", "principal",
                                    "restart", "verifying", "verify", "proxy", "applied">>)
           \/ UNCHANGED <<op, of, todo>>
    BY DEF ApplyHelper
  <1>2. UNCHANGED <<backend, app, built, home, env, dist, dbs, panel, timers, site, restores>> BY <1>1 DEF host, bounds
  <1>3. TypeInv' BY HelperTyped
  <1>4. \A a, b \in saved' : a = b BY <1>1 DEF IInv, FilesInv
  <1>5. CASE UNCHANGED <<op, of, todo>>
    <2>1. todo' = <<>> BY <1>1, <1>5 DEF IInv, PlanInv
    <2>2. QED BY <1>1, <1>2, <1>3, <1>4, <1>5, <2>1, Stops
  <1>6. CASE PendingJob /\ ~Unfinished("life") /\ ~Unfinished("data")
             /\ Begin("forward", "job", <<"check", "try", "switching", "exchange", "replace", "principal",
                                    "restart", "verifying", "verify", "proxy", "applied">>)
    <2>1. /\ op' = "forward" /\ of' = "job" /\ IsPlan("apply", todo', "check", "applied")
      BY <1>6, ApplyPlan DEF Begin
    <2>2. PlanInv' /\ at' = "check"
      <3>1. Plan' = "apply" /\ Last' = "applied" BY <2>1 DEF Plan, Last
      <3>2. QED BY <2>1, <3>1, PlanBegins
    <2>3. /\ FilesInv' /\ UpdateInv' /\ RetainedInv' /\ RollbackInv' /\ RestoreInv' /\ JobInv' /\ SoundInv'
          /\ PendingJob' = PendingJob /\ (\A j : Unfinished(j)' = Unfinished(j)) /\ (JobOpen <=> JobOpen')
      BY <1>1, <1>2, <1>4, HostKept
    <2>4. ~JobOpen
      <3>1. job.status = "queued" BY <1>1, <1>6 DEF IInv, HelperInv
      <3>2. QED BY <3>1 DEF JobOpen
    <2>5. OneInv'
      <3>1. ~Unfinished("life")' /\ ~Unfinished("data")' /\ PendingJob' BY <1>6, <2>3
      <3>2. QED BY <2>1, <3>1 DEF OneInv
    <2>6. HelperInv' BY <1>1 DEF HelperInv
    <2>7. ChangingInv' BY <2>2, <2>3, <2>4 DEF ChangingInv
    <2>8. UpdatingInv' /\ RollingBackInv' /\ RestoringInv' /\ UndoingInv' /\ ChangingBackInv'
      BY <2>1 DEF UpdatingInv, RollingBackInv, RestoringInv, UndoingInv, ChangingBackInv
    <2>9. QED BY <1>3, <2>2, <2>3, <2>5, <2>6, <2>7, <2>8 DEF IInv
  <1>7. QED BY <1>1, <1>5, <1>6

-----------------------------------------------------------------------------
\* Rows are written; an operator recovers.

LEMMA Written == ASSUME IInv, CustomerWrites \/ JobWrites PROVE IInv'
  <1>1. TypeInv /\ TypeInv' /\ DataTyped BY WriteTyped DEF IInv, TypeInv
  <1>2. /\ UNCHANGED <<backend, app, built, home, env, dist, panel, timers, site, journal, job, helper, saved, op, of,
                       todo, restores>>
        /\ \A d \in Database : dbs'[d].head = dbs[d].head
    BY <1>1, WriteEffect
  <1>3. \A a, b \in saved' : a = b BY <1>2 DEF IInv, FilesInv
  <1>4. /\ FilesInv' /\ UpdateInv' /\ RetainedInv' /\ RollbackInv' /\ RestoreInv' /\ JobInv' /\ SoundInv'
        /\ L' = L /\ D' = D /\ PendingJob' = PendingJob /\ (LifeOpen <=> LifeOpen') /\ (DataOpen <=> DataOpen')
        /\ (JobOpen <=> JobOpen')
        /\ (\A r : Env0(r)' = Env0(r)) /\ Live' = Live /\ Started' = Started /\ InPlace' = InPlace
    BY <1>2, <1>3, HostKept
  <1>5. /\ Unfinished("life")' = Unfinished("life") /\ Unfinished("data")' = Unfinished("data")
        /\ (\A r : \A d \in Database : Fits(r, d)' = Fits(r, d))
    BY <1>2, <1>3, HostKept
  <1>6. at' = at BY <1>2 DEF at
  <1>7. Live.db \in Database /\ L.prev \in Release /\ Env0(L.prev).db \in Database
    <2>1. L.prev \in Release /\ home[L.prev] \in Release BY <1>1 DEF DataTyped, Record, L
    <2>2. env[home[L.prev]] \in Env BY <1>1, <2>1 DEF DataTyped
    <2>3. QED BY <1>1, <2>1, <2>2, Views DEF Env0, Env
  <1>8. PlanInv' BY <1>2, <1>4 DEF IInv, PlanInv, Chain, Leads, Plan, Last
  <1>9. OneInv' /\ HelperInv' BY <1>2, <1>4, <1>5 DEF IInv, OneInv, HelperInv
  <1>10. UpdatingInv'
    <2>1. Fits(L.to, Env0(L.prev).db)' = Fits(L.to, Env0(L.prev).db) BY <1>4, <1>5, <1>7 DEF Fits
    <2>2. dbs'[Env0(L.prev).db].head = dbs[Env0(L.prev).db].head BY <1>2, <1>7
    <2>3. QED BY <1>2, <1>4, <1>6, <2>1, <2>2 DEF IInv, UpdatingInv, Reopening, Pausing, Restarted, Served
  <1>11. RollingBackInv' BY <1>2, <1>4, <1>6 DEF IInv, RollingBackInv, Reopening, Pausing, Restarted, Served
  <1>12. RestoringInv'
    <2>1. D.clone # 0 => dbs'[D.clone].head = dbs[D.clone].head
      <3>1. D.clone \in Database \cup {0} BY <1>1 DEF DataTyped, Record, D
      <3>2. QED BY <1>2, <3>1
    <2>2. QED BY <1>2, <1>4, <1>6, <2>1 DEF IInv, RestoringInv, Reopening, Pausing, Restarted, Served
  <1>13. UndoingInv' BY <1>2, <1>4, <1>6 DEF IInv, UndoingInv, Reopening, Restarted, Served
  <1>14. Fits(app.rel, Live.db)' = Fits(app.rel, Live.db) BY <1>2, <1>4, <1>5, <1>7 DEF Fits
  <1>15. ChangingInv' /\ ChangingBackInv'
    BY <1>2, <1>4, <1>6, <1>14 DEF IInv, ChangingInv, ChangingBackInv, Restarted, Sound, Served
  <1>16. QED BY <1>1, <1>4, <1>8, <1>9, <1>10, <1>11, <1>12, <1>13, <1>15 DEF IInv

\* recover takes up the journal that is open.
LEMMA Recovers == ASSUME IInv, Recover PROVE IInv'
  <1>1. /\ op = "idle" /\ op' = "recover" /\ UNCHANGED <<host, journal, job, helper, saved, bounds>>
        /\ \/ PendingJob /\ of' = "job" /\ todo' = RecoverChange
           \/ ~PendingJob /\ Unfinished("data") /\ of' = "data" /\ todo' = UndoData
           \/ ~PendingJob /\ ~Unfinished("data") /\ Unfinished("life") /\ of' = "life" /\ todo' = UndoLife
    BY RecoverEffect
  <1>2. TypeInv' /\ DataTyped BY RecoverTyped DEF IInv, TypeInv
  <1>3. UNCHANGED <<backend, app, built, home, env, dist, dbs, panel, timers, site, restores>> BY <1>1 DEF host, bounds
  <1>4. \A a, b \in saved' : a = b BY <1>1 DEF IInv, FilesInv
  <1>5. /\ FilesInv' /\ UpdateInv' /\ RetainedInv' /\ RollbackInv' /\ RestoreInv' /\ JobInv' /\ SoundInv'
        /\ L' = L /\ D' = D /\ PendingJob' = PendingJob /\ (LifeOpen <=> LifeOpen') /\ (DataOpen <=> DataOpen')
        /\ (JobOpen <=> JobOpen')
    BY <1>1, <1>3, <1>4, HostKept
  <1>6. Unfinished("life")' = Unfinished("life") /\ Unfinished("data")' = Unfinished("data") BY <1>1 DEF Unfinished
  <1>7. HelperInv' BY <1>1, <1>5 DEF IInv, HelperInv
  <1>8. OneInv' BY <1>1, <1>5, <1>6 DEF IInv, OneInv
  <1>9. UpdatingInv' /\ RollingBackInv' /\ RestoringInv' /\ ChangingInv'
    BY <1>1 DEF UpdatingInv, RollingBackInv, RestoringInv, ChangingInv
  <1>10. PlanInv' /\ UndoingInv' /\ ChangingBackInv'
    <2>1. CASE PendingJob /\ of' = "job" /\ todo' = RecoverChange
      <3>1. Plan' = "recover" /\ Last' = "unapplied" BY <1>1, <2>1 DEF Plan, Last
      <3>2. job.status \in {"queued", "building", "canary"} \/ JobOpen
        BY <1>2, <2>1 DEF JobOpen, PendingJob, DataTyped, Job, Final
      <3>3. CASE job.status \in {"queued", "building", "canary"}
        <4>1. PlanInv' /\ at' = "unapplied"
          <5>1. IsPlan("recover", todo', "unapplied", "unapplied") BY <2>1, <3>3, RecoverChangePlan
          <5>2. QED BY <1>1, <3>1, <5>1, PlanBegins
        <4>2. ~JobOpen BY <3>3 DEF JobOpen
        <4>3. QED BY <1>5, <2>1, <4>1, <4>2 DEF UndoingInv, ChangingBackInv
      <3>4. CASE job.status \notin {"queued", "building", "canary"}
        <4>1. PlanInv' /\ at' = "dist_back"
          <5>1. IsPlan("recover", todo', "dist_back", "unapplied") BY <2>1, <3>4, RecoverChangePlan
          <5>2. QED BY <1>1, <3>1, <5>1, PlanBegins
        <4>2. JobOpen BY <3>2, <3>4
        <4>3. QED BY <1>1, <1>5, <2>1, <4>1, <4>2 DEF UndoingInv, ChangingBackInv
      <3>5. QED BY <3>3, <3>4
    <2>2. CASE ~PendingJob /\ Unfinished("data") /\ of' = "data" /\ todo' = UndoData
      <3>1. D.kind = "rollback" => D.state # "preparing" BY <2>2 DEF IInv, RollbackInv
      <3>2. D.kind # "rollback" => D.kind = "restore" BY <2>2 DEF IInv, RestoreInv
      <3>3. Last' = "undone" BY <1>1, <2>2 DEF Last
      <3>4. CASE D.state = "preparing"
        <4>1. Plan' = "drop" BY <1>1, <1>5, <2>2, <3>4 DEF Plan
        <4>2. PlanInv' BY <1>1, <2>2, <3>3, <3>4, <4>1, UndoDataPlan, PlanBegins
        <4>3. ~DataOpen BY <3>4 DEF DataOpen
        <4>4. QED BY <1>5, <2>2, <4>2, <4>3 DEF UndoingInv, ChangingBackInv
      <3>5. CASE D.state # "preparing"
        <4>1. Plan' = IF D.kind = "rollback" THEN "unrollback" ELSE "unrestore" BY <1>1, <1>5, <2>2, <3>5 DEF Plan
        <4>2. PlanInv' /\ at' = "stop_panel" BY <1>1, <2>2, <3>2, <3>3, <3>5, <4>1, UndoDataPlan, PlanBegins
        <4>3. QED BY <1>1, <1>5, <2>2, <4>2 DEF UndoingInv, ChangingBackInv, Reopening
      <3>6. QED BY <3>4, <3>5
    <2>3. CASE ~PendingJob /\ ~Unfinished("data") /\ Unfinished("life") /\ of' = "life" /\ todo' = UndoLife
      <3>1. Plan' = "unupdate" /\ Last' = "undone" BY <1>1, <2>3 DEF Plan, Last
      <3>2. CASE L.state \in Early
        <4>1. PlanInv' /\ at' = "undone"
          <5>1. IsPlan("unupdate", todo', "undone", "undone") BY <2>3, <3>2, UndoLifePlan
          <5>2. QED BY <1>1, <3>1, <5>1, PlanBegins
        <4>2. ~LifeOpen BY <3>2 DEF LifeOpen
        <4>3. QED BY <1>5, <2>3, <4>1, <4>2 DEF UndoingInv, ChangingBackInv
      <3>3. CASE L.state \notin Early
        <4>1. PlanInv' /\ at' = "pointer"
          <5>1. IsPlan("unupdate", todo', "pointer", "undone") BY <2>3, <3>3, UndoLifePlan
          <5>2. QED BY <1>1, <3>1, <5>1, PlanBegins
        <4>2. LifeOpen BY <2>3, <3>3 DEF LifeOpen, Unfinished, L
        <4>3. QED BY <1>1, <1>5, <2>3, <4>1, <4>2 DEF UndoingInv, ChangingBackInv, Reopening
      <3>4. QED BY <3>2, <3>3
    <2>4. QED BY <1>1, <2>1, <2>2, <2>3
  <1>11. QED BY <1>2, <1>5, <1>7, <1>8, <1>9, <1>10 DEF IInv

-----------------------------------------------------------------------------
\* A step fails.

\* The undoing of a settings change that fails leaves it to the operator.
LEMMA UndoFails == ASSUME IInv, op = "undo", of = "job", Fails PROVE IInv'
  <1>1. /\ op' = "idle" /\ todo' = <<>> /\ of' = "job" /\ job' = [job EXCEPT !.status = "recovery_required"]
        /\ UNCHANGED <<backend, app, built, home, env, dist, dbs, panel, timers, site, journal, helper, saved, restores>>
    BY FailsEffect DEF host
  <1>2. TypeInv' /\ DataTyped BY FailsTyped DEF IInv, TypeInv
  <1>3. job'.old = job.old /\ job'.new = job.new /\ job'.status = "recovery_required" BY <1>1, <1>2 DEF DataTyped, Job
  <1>4. PendingJob /\ ~Unfinished("life") /\ ~Unfinished("data")
    <2>1. op # "idle" /\ of = "job" OBVIOUS
    <2>2. QED BY <2>1 DEF IInv, OneInv
  <1>5. /\ PendingJob' /\ JobOpen' /\ ~Unfinished("life")' /\ ~Unfinished("data")'
    BY <1>1, <1>3, <1>4 DEF PendingJob, JobOpen, Unfinished, Final
  <1>6. Live' = Live /\ L' = L /\ D' = D /\ (\A r : Env0(r)' = Env0(r)) /\ Started' = Started /\ InPlace' = InPlace
    BY <1>1 DEF Live, L, D, Env0, Started, InPlace
  <1>7. PlanInv' /\ OneInv' BY <1>1, <1>5 DEF PlanInv, OneInv
  <1>8. FilesInv' BY <1>1, <1>4, <1>5, <1>6 DEF IInv, FilesInv
  <1>9. RetainedInv'
    <2>1. Keeps(Live.db)' = Keeps(Live.db) BY <1>1, <1>6 DEF Keeps, Fits
    <2>2. QED BY <1>1, <1>4, <1>5, <1>6, <2>1 DEF IInv, RetainedInv
  <1>10. UpdateInv' /\ RollbackInv' /\ RestoreInv' BY <1>5 DEF UpdateInv, RollbackInv, RestoreInv
  <1>11. JobInv'
    <2>1. job.old.db = job.new.db /\ job.old.db <= restores + 1 /\ (backend = "sqlite" => job.old.db = 1)
      BY <1>4 DEF IInv, JobInv
    <2>2. /\ InPlace /\ timers /\ site.open /\ site.port \in {job.old.port, job.new.port}
          /\ Live \in {job.old, job.new} /\ dist[app.rel] \in {job.old.setting, job.new.setting}
          /\ Fits(app.rel, Live.db)
      <3>1. CASE JobOpen BY <3>1 DEF IInv, JobInv
      <3>2. CASE ~JobOpen
        <4>1. Live = job.old BY <1>4, <3>2 DEF IInv, JobInv
        <4>2. ~LifeOpen /\ ~DataOpen BY <1>4 DEF LifeOpen, DataOpen, Unfinished, L, D
        <4>3. Sound BY <3>2, <4>2 DEF IInv, SoundInv, Settled
        <4>4. site.open /\ site.port = job.old.port BY <4>1, <4>3 DEF Sound, Served
        <4>5. QED BY <4>1, <4>3, <4>4 DEF Sound
      <3>3. QED BY <3>1, <3>2
    <2>3. Fits(app.rel, Live.db)' BY <1>1, <1>6, <2>2 DEF Fits
    <2>4. QED BY <1>1, <1>3, <1>5, <1>6, <2>1, <2>2, <2>3 DEF JobInv
  <1>12. HelperInv'
    <2>1. ~helper BY <1>4 DEF IInv, HelperInv
    <2>2. QED BY <1>1, <2>1 DEF HelperInv
  <1>13. SoundInv' BY <1>5 DEF SoundInv, Settled
  <1>14. UpdatingInv' /\ RollingBackInv' /\ RestoringInv' /\ UndoingInv' /\ ChangingInv' /\ ChangingBackInv'
    BY <1>1 DEF UpdatingInv, RollingBackInv, RestoringInv, UndoingInv, ChangingInv, ChangingBackInv
  <1>15. QED BY <1>2, <1>7, <1>8, <1>9, <1>10, <1>11, <1>12, <1>13, <1>14 DEF IInv

\* An operation that fails starts on its own undoing.
LEMMA UndoBegins ==
  ASSUME IInv, op = "forward", Fails, op' = "undo", todo' = Handler, Handler # <<>> PROVE IInv'
  <1>1. /\ todo # <<>> /\ of' = of /\ job' = job
        /\ UNCHANGED <<backend, app, built, home, env, dist, dbs, panel, timers, site, journal, helper, saved, restores>>
    BY FailsEffect DEF host
  <1>2. TypeInv' /\ TypeInv /\ DataTyped BY FailsTyped DEF IInv, TypeInv
  <1>3. \A a, b \in saved' : a = b BY <1>1 DEF IInv, FilesInv
  <1>4. /\ FilesInv' /\ UpdateInv' /\ RetainedInv' /\ RollbackInv' /\ RestoreInv' /\ JobInv' /\ SoundInv'
        /\ L' = L /\ D' = D /\ PendingJob' = PendingJob /\ (LifeOpen <=> LifeOpen') /\ (DataOpen <=> DataOpen')
        /\ (JobOpen <=> JobOpen') /\ Live' = Live /\ Started' = Started
    BY <1>1, <1>3, HostKept
  <1>5. Unfinished("life")' = Unfinished("life") /\ Unfinished("data")' = Unfinished("data") BY <1>1 DEF Unfinished
  <1>6. OneInv' /\ HelperInv'
    <2>1. of \in {"life", "data", "job"} BY <1>2 DEF TypeInv, ControlTyped
    <2>2. QED BY <1>1, <1>4, <1>5, <2>1 DEF IInv, OneInv, HelperInv
  <1>7. UpdatingInv' /\ RollingBackInv' /\ RestoringInv' /\ ChangingInv'
    BY DEF UpdatingInv, RollingBackInv, RestoringInv, ChangingInv
  <1>8. PlanInv' /\ UndoingInv' /\ ChangingBackInv'
    <2>1. CASE of = "life"
      <3>1. Handler = UndoLife BY <2>1, Zenon DEF Handler
      <3>2. Plan' = "unupdate" /\ Last' = "undone" BY <1>1, <2>1 DEF Plan, Last
      <3>3. Unfinished("life") BY <2>1 DEF IInv, OneInv
      <3>4. CASE L.state \in Early
        <4>1. PlanInv' /\ at' = "undone"
          <5>1. IsPlan("unupdate", todo', "undone", "undone") BY <3>1, <3>4, UndoLifePlan
          <5>2. QED BY <3>2, <5>1, PlanBegins
        <4>2. ~LifeOpen BY <3>4 DEF LifeOpen
        <4>3. QED BY <1>1, <1>4, <2>1, <4>1, <4>2 DEF UndoingInv, ChangingBackInv
      <3>5. CASE L.state \notin Early
        <4>1. PlanInv' /\ at' = "pointer"
          <5>1. IsPlan("unupdate", todo', "pointer", "undone") BY <3>1, <3>5, UndoLifePlan
          <5>2. QED BY <3>2, <5>1, PlanBegins
        <4>2. LifeOpen BY <3>3, <3>5 DEF LifeOpen, Unfinished, L
        <4>3. QED BY <1>1, <1>4, <2>1, <4>1, <4>2 DEF UndoingInv, ChangingBackInv, Reopening
      <3>6. QED BY <3>4, <3>5
    <2>2. CASE of = "data"
      <3>1. Handler = IF D.kind = "rollback" THEN ReleaseBack ELSE UndoData BY <2>2, Zenon DEF Handler, D
      <3>2. Unfinished("data") /\ Last' = "undone" BY <1>1, <2>2 DEF IInv, OneInv, Last
      <3>3. CASE D.kind = "rollback"
        <4>1. D.state = "maintenance" BY <3>2, <3>3 DEF IInv, RollbackInv
        <4>2. Plan' = "unrollback" BY <1>1, <1>4, <2>2, <3>3, <4>1 DEF Plan
        <4>3. IsPlan("unrollback", todo', "pointer", "undone") BY <3>1, <3>3, UndoPlans
        <4>4. PlanInv' /\ at' = "pointer" BY <3>2, <4>2, <4>3, PlanBegins
        <4>5. QED BY <1>1, <1>4, <2>2, <4>4 DEF UndoingInv, ChangingBackInv, Reopening
      <3>4. CASE D.kind # "rollback" /\ D.state = "preparing"
        <4>1. Plan' = "drop" BY <1>1, <1>4, <2>2, <3>4 DEF Plan
        <4>2. IsPlan("drop", todo', "drop", "undone") BY <3>1, <3>4, UndoDataPlan
        <4>3. PlanInv' BY <3>2, <4>1, <4>2, PlanBegins
        <4>4. ~DataOpen BY <3>4 DEF DataOpen
        <4>5. QED BY <1>1, <1>4, <2>2, <4>3, <4>4 DEF UndoingInv, ChangingBackInv
      <3>5. CASE D.kind # "rollback" /\ D.state # "preparing"
        <4>1. D.kind = "restore" BY <3>2, <3>5 DEF IInv, RestoreInv
        <4>2. Plan' = "unrestore" BY <1>1, <1>4, <2>2, <3>5 DEF Plan
        <4>3. IsPlan("unrestore", todo', "stop_panel", "undone") BY <3>1, <3>5, <4>1, UndoDataPlan
        <4>4. PlanInv' /\ at' = "stop_panel" BY <3>2, <4>2, <4>3, PlanBegins
        <4>5. QED BY <1>1, <1>4, <2>2, <4>4 DEF UndoingInv, ChangingBackInv, Reopening
      <3>6. QED BY <3>3, <3>4, <3>5
    <2>3. CASE of = "job"
      <3>1. Handler = UndoChange BY <2>3, Zenon DEF Handler
      <3>2. Plan' = "unapply" /\ Last' = "unapplied" BY <1>1, <2>3 DEF Plan, Last
      <3>3. UndoingInv' BY <1>1, <2>3 DEF UndoingInv
      <3>4. at = Head(todo) BY <1>1 DEF at
      <3>5. CASE SwitchedSome
        <4>1. PlanInv' /\ at' = "dist_back"
          <5>1. IsPlan("unapply", todo', "dist_back", "unapplied") BY <3>1, <3>5, UndoChangePlan
          <5>2. QED BY <3>2, <5>1, PlanBegins
        <4>2. JobOpen BY <2>3, <3>4, <3>5 DEF IInv, ChangingInv, SwitchedSome
        <4>3. QED BY <1>4, <3>3, <4>1, <4>2 DEF ChangingBackInv
      <3>6. CASE ~SwitchedSome
        <4>1. PlanInv' /\ at' = "unapplied"
          <5>1. IsPlan("unapply", todo', "unapplied", "unapplied") BY <3>1, <3>6, UndoChangePlan
          <5>2. QED BY <3>2, <5>1, PlanBegins
        <4>2. JobOpen => Sound /\ Live = job.old
          <5>1. JobOpen => at = "exchange" BY <2>3, <3>4, <3>6 DEF IInv, ChangingInv, SwitchedSome
          <5>2. QED BY <2>3, <5>1 DEF IInv, ChangingInv
        <4>3. JobOpen => /\ dist[app.rel] = job.old.setting /\ Live = job.old /\ Restarted
                         /\ site.port = job.old.port
          BY <4>2 DEF Sound, Served, Restarted
        <4>4. QED BY <1>1, <1>4, <3>3, <4>1, <4>3 DEF ChangingBackInv, Restarted
      <3>7. QED BY <3>5, <3>6
    <2>4. QED BY <1>2, <2>1, <2>2, <2>3 DEF TypeInv, ControlTyped
  <1>9. QED BY <1>2, <1>4, <1>6, <1>7, <1>8 DEF IInv

LEMMA Failed == ASSUME IInv, Fails PROVE IInv'
  <1>1. /\ UNCHANGED <<host, journal, helper, saved, restores>>
        /\ \/ op' = "idle" /\ todo' = <<>>
           \/ op = "forward" /\ op' = "undo" /\ todo' = Handler /\ Handler # <<>>
        /\ job' = IF of = "job" /\ op = "undo" THEN [job EXCEPT !.status = "recovery_required"] ELSE job
    BY FailsEffect
  <1>2. CASE of = "job" /\ op = "undo" BY <1>2, UndoFails
  <1>3. CASE ~(of = "job" /\ op = "undo") /\ op' = "idle" /\ todo' = <<>>
    <2>1. UNCHANGED <<backend, app, built, home, env, dist, dbs, panel, timers, site, journal, job, saved, restores, helper>>
      BY <1>1, <1>3 DEF host
    <2>2. \A a, b \in saved' : a = b BY <2>1 DEF IInv, FilesInv
    <2>3. QED BY <1>3, <2>1, <2>2, FailsTyped, Stops
  <1>4. CASE op = "forward" /\ op' = "undo" /\ todo' = Handler /\ Handler # <<>> BY <1>4, UndoBegins
  <1>5. QED BY <1>1, <1>2, <1>3, <1>4

-----------------------------------------------------------------------------
\* Every step keeps the invariant.

Updates == op = "forward" /\ of = "life"
RollsBack == op = "forward" /\ of = "data" /\ D.kind = "rollback"
Restores == op = "forward" /\ of = "data" /\ D.kind = "restore"
Unupdates == op \in {"undo", "recover"} /\ of = "life"
Unrolls == op \in {"undo", "recover"} /\ of = "data" /\ D.kind = "rollback"
Unrestores == op \in {"undo", "recover"} /\ of = "data" /\ D.kind = "restore" /\ D.state # "preparing"
Drops == op \in {"undo", "recover"} /\ of = "data" /\ D.kind = "restore" /\ D.state = "preparing"
Applies == op = "forward" /\ of = "job"
Unapplies == op \in {"undo", "recover"} /\ of = "job"

\* Whose step it is that an operation takes.
LEMMA Planned ==
  ASSUME IInv, NEW s, Step(s)
  PROVE  \/ Updates /\ s \in {"build", "canary", "maintenance", "close", "note", "stop_timers", "stop_panel", "backup", "migrating", "migrate", "generation", "detach", "attach", "link", "switch", "restart", "health", "verified", "open", "resume", "complete"}
         \/ RollsBack /\ s \in {"close", "note", "stop_timers", "stop_panel", "switch", "restart", "health", "open", "resume", "release_undone", "complete"}
         \/ Restores /\ s \in {"clone", "maintenance", "close", "note", "stop_timers", "stop_panel", "backup", "load", "restart", "health", "open", "resume", "complete"}
         \/ Unupdates /\ s \in {"pointer", "environment", "restart", "health", "open", "resume", "undone"}
         \/ Unrolls /\ s \in {"stop_panel", "pointer", "restart", "health", "open", "resume", "undone"}
         \/ Unrestores /\ s \in {"stop_panel", "pointer", "database", "environment", "drop", "restart", "health", "open", "resume", "undone"}
         \/ Drops /\ s \in {"drop", "undone"}
         \/ Applies /\ s \in {"check", "try", "switching", "exchange", "replace", "principal", "restart", "verifying", "verify", "proxy", "applied"}
         \/ Unapplies /\ s \in {"dist_back", "env_back", "principal_back", "proxy_back", "restart", "verify", "unapplied"}
  <1>1. TypeInv /\ PlanInv /\ todo # <<>> /\ Head(todo) = s BY DEF IInv, Step
  <1>2. op \in {"forward", "undo", "recover"} /\ of \in {"life", "data", "job"} BY <1>1, StepOf DEF TypeInv, ControlTyped
  <1>3. PICK b : s = Last \/ Leads(Plan, s, b) BY <1>1, StepOf
  <1>4. of = "data" => D.kind \in {"rollback", "restore"} /\ (D.kind = "rollback" => D.state # "preparing")
    <2>1. of = "data" => Unfinished("data") BY <1>2 DEF IInv, OneInv
    <2>2. QED BY <2>1 DEF IInv, RollbackInv, RestoreInv
  <1>5. CASE Updates
    <2>1. Plan = ("update") /\ Last = "complete" BY <1>5 DEF Plan, Last, Updates
    <2>2. Leads("update", s, b) => s \in {"build", "canary", "maintenance", "close", "note", "stop_timers", "stop_panel", "backup", "migrating", "migrate", "generation", "detach", "attach", "link", "switch", "restart", "health", "verified", "open", "resume"}
      BY DEF Leads, UpdateLeads, PauseLeads, OpenLeads
    <2>3. QED BY <1>3, <1>5, <2>1, <2>2
  <1>6. CASE RollsBack
    <2>1. Plan = ("rollback") /\ Last = "complete" BY <1>6, <1>4 DEF Plan, Last, RollsBack
    <2>2. Leads("rollback", s, b) => s \in {"close", "note", "stop_timers", "stop_panel", "switch", "restart", "health", "open", "resume", "release_undone"}
      BY DEF Leads, RollbackLeads, PauseLeads, OpenLeads
    <2>3. QED BY <1>3, <1>6, <2>1, <2>2
  <1>7. CASE Restores
    <2>1. Plan = ("restore") /\ Last = "complete" BY <1>7, <1>4 DEF Plan, Last, Restores
    <2>2. Leads("restore", s, b) => s \in {"clone", "maintenance", "close", "note", "stop_timers", "stop_panel", "backup", "load", "restart", "health", "open", "resume"}
      BY DEF Leads, RestoreLeads, PauseLeads, OpenLeads
    <2>3. QED BY <1>3, <1>7, <2>1, <2>2
  <1>8. CASE Unupdates
    <2>1. Plan = ("unupdate") /\ Last = "undone" BY <1>8 DEF Plan, Last, Unupdates
    <2>2. Leads("unupdate", s, b) => s \in {"pointer", "environment", "restart", "health", "open", "resume"}
      BY DEF Leads, UpdateBackLeads, BackLeads, OpenLeads
    <2>3. QED BY <1>3, <1>8, <2>1, <2>2
  <1>9. CASE Unrolls
    <2>1. Plan = ("unrollback") /\ Last = "undone" BY <1>9, <1>4 DEF Plan, Last, Unrolls
    <2>2. Leads("unrollback", s, b) => s \in {"stop_panel", "pointer", "restart", "health", "open", "resume"}
      BY DEF Leads, RollbackBackLeads, BackLeads, OpenLeads
    <2>3. QED BY <1>3, <1>9, <2>1, <2>2
  <1>10. CASE Unrestores
    <2>1. Plan = ("unrestore") /\ Last = "undone" BY <1>10, <1>4 DEF Plan, Last, Unrestores
    <2>2. Leads("unrestore", s, b) => s \in {"stop_panel", "pointer", "database", "environment", "drop", "restart", "health", "open", "resume"}
      BY DEF Leads, RestoreBackLeads, BackLeads, OpenLeads
    <2>3. QED BY <1>3, <1>10, <2>1, <2>2
  <1>11. CASE Drops
    <2>1. Plan = ("drop") /\ Last = "undone" BY <1>11, <1>4 DEF Plan, Last, Drops
    <2>2. Leads("drop", s, b) => s \in {"drop"} BY DEF Leads
    <2>3. QED BY <1>3, <1>11, <2>1, <2>2
  <1>12. CASE Applies
    <2>1. Plan = ("apply") /\ Last = "applied" BY <1>12 DEF Plan, Last, Applies
    <2>2. Leads("apply", s, b) => s \in {"check", "try", "switching", "exchange", "replace", "principal", "restart", "verifying", "verify", "proxy"}
      BY DEF Leads, ApplyLeads
    <2>3. QED BY <1>3, <1>12, <2>1, <2>2
  <1>13. CASE Unapplies
    <2>1. Plan = (IF op = "undo" THEN "unapply" ELSE "recover") /\ Last = "unapplied" BY <1>13 DEF Plan, Last, Unapplies
    <2>2. /\ Leads("unapply", s, b) => s \in {"dist_back", "env_back", "principal_back", "proxy_back", "restart", "verify"}
          /\ Leads("recover", s, b) => s \in {"dist_back", "env_back", "principal_back", "proxy_back", "restart", "verify"}
      BY DEF Leads, ApplyBackLeads, ApplyRecoverLeads
    <2>3. QED BY <1>3, <1>13, <2>1, <2>2
  <1>14. QED BY <1>2, <1>4, <1>5, <1>6, <1>7, <1>8, <1>9, <1>10, <1>11, <1>12, <1>13
        DEF Updates, RollsBack, Restores, Unupdates, Unrolls, Unrestores, Drops, Applies, Unapplies

LEMMA ReleaseSteps == ASSUME IInv, ReleaseStep PROVE IInv'
  <1>1. CASE Build
    <2>1. Step("build") BY <1>1 DEF Build
    <2>2. Updates BY <2>1, Planned
    <2>3. QED BY <1>1, <2>2, UpdateBuild DEF Updates
  <1>2. CASE Canary
    <2>1. Step("canary") BY <1>2 DEF Canary
    <2>2. Updates BY <2>1, Planned
    <2>3. QED BY <1>2, <2>2, UpdateCanary DEF Updates
  <1>3. CASE Migrating
    <2>1. Step("migrating") BY <1>3 DEF Migrating
    <2>2. Updates BY <2>1, Planned
    <2>3. QED BY <1>3, <2>2, UpdateMigrating DEF Updates
  <1>4. CASE MigrateAdditive
    <2>1. Step("migrate") BY <1>4 DEF MigrateAdditive
    <2>2. Updates BY <2>1, Planned
    <2>3. QED BY <1>4, <2>2, UpdateMigrateAdditive DEF Updates
  <1>5. CASE AddGeneration
    <2>1. Step("generation") BY <1>5 DEF AddGeneration
    <2>2. Updates BY <2>1, Planned
    <2>3. QED BY <1>5, <2>2, UpdateAddGeneration DEF Updates
  <1>6. CASE Detach
    <2>1. Step("detach") BY <1>6 DEF Detach
    <2>2. Updates BY <2>1, Planned
    <2>3. QED BY <1>6, <2>2, UpdateDetach DEF Updates
  <1>7. CASE Attach
    <2>1. Step("attach") BY <1>7 DEF Attach
    <2>2. Updates BY <2>1, Planned
    <2>3. QED BY <1>7, <2>2, UpdateAttach DEF Updates
  <1>8. CASE RuntimeLinks
    <2>1. Step("link") BY <1>8 DEF RuntimeLinks
    <2>2. Updates BY <2>1, Planned
    <2>3. QED BY <1>8, <2>2, UpdateRuntimeLinks DEF Updates
  <1>9. CASE AtomicPointer
    <2>1. Step("switch") BY <1>9 DEF AtomicPointer
    <2>2. Updates \/ RollsBack BY <2>1, Planned
    <2>3. QED BY <1>9, <2>2, UpdateAtomicPointer, RollbackAtomicPointer DEF Updates, RollsBack
  <1>10. CASE HealthVerified
    <2>1. Step("verified") BY <1>10 DEF HealthVerified
    <2>2. Updates BY <2>1, Planned
    <2>3. QED BY <1>10, <2>2, UpdateHealthVerified DEF Updates
  <1>11. CASE ReleaseRolledBack
    <2>1. Step("release_undone") BY <1>11 DEF ReleaseRolledBack
    <2>2. RollsBack BY <2>1, Planned
    <2>3. QED BY <1>11, <2>2, RollbackReleaseRolledBack DEF RollsBack
  <1>12. QED BY <1>1, <1>2, <1>3, <1>4, <1>5, <1>6, <1>7, <1>8, <1>9, <1>10, <1>11 DEF ReleaseStep

LEMMA SharedSteps == ASSUME IInv, SharedStep PROVE IInv'
  <1>1. CASE Maintenance
    <2>1. Step("maintenance") BY <1>1 DEF Maintenance
    <2>2. Updates \/ Restores BY <2>1, Planned
    <2>3. QED BY <1>1, <2>2, UpdateMaintenance, RestoreMaintenance DEF Updates, Restores
  <1>2. CASE CloseSite
    <2>1. Step("close") BY <1>2 DEF CloseSite
    <2>2. Updates \/ RollsBack \/ Restores BY <2>1, Planned
    <2>3. QED BY <1>2, <2>2, UpdateCloseSite, RollbackCloseSite, RestoreCloseSite DEF Updates, RollsBack, Restores
  <1>3. CASE NoteTimers
    <2>1. Step("note") BY <1>3 DEF NoteTimers
    <2>2. Updates \/ RollsBack \/ Restores BY <2>1, Planned
    <2>3. QED BY <1>3, <2>2, UpdateNoteTimers, RollbackNoteTimers, RestoreNoteTimers DEF Updates, RollsBack, Restores
  <1>4. CASE StopTimers
    <2>1. Step("stop_timers") BY <1>4 DEF StopTimers
    <2>2. Updates \/ RollsBack \/ Restores BY <2>1, Planned
    <2>3. QED BY <1>4, <2>2, UpdateStopTimers, RollbackStopTimers, RestoreStopTimers DEF Updates, RollsBack, Restores
  <1>5. CASE StopPanel
    <2>1. Step("stop_panel") BY <1>5 DEF StopPanel
    <2>2. Updates \/ RollsBack \/ Restores \/ Unrolls \/ Unrestores BY <2>1, Planned
    <2>3. QED BY <1>5, <2>2, UpdateStopPanel, RollbackStopPanel, RestoreStopPanel, UnrollbackStopPanel, UnrestoreStopPanel DEF Updates, RollsBack, Restores, Unrolls, Unrestores
  <1>6. CASE FinalBackup
    <2>1. Step("backup") BY <1>6 DEF FinalBackup
    <2>2. Updates \/ Restores BY <2>1, Planned
    <2>3. QED BY <1>6, <2>2, UpdateFinalBackup, RestoreFinalBackup DEF Updates, Restores
  <1>7. CASE Restart
    <2>1. Step("restart") BY <1>7 DEF Restart
    <2>2. Updates \/ RollsBack \/ Restores \/ Unupdates \/ Unrolls \/ Unrestores \/ Applies \/ Unapplies BY <2>1, Planned
    <2>3. QED BY <1>7, <2>2, UpdateRestart, RollbackRestart, RestoreRestart, UnupdateRestart, UnrollbackRestart, UnrestoreRestart, ApplyRestart, UnapplyRestart DEF Updates, RollsBack, Restores, Unupdates, Unrolls, Unrestores, Applies, Unapplies
  <1>8. CASE Health
    <2>1. Step("health") BY <1>8 DEF Health
    <2>2. Updates \/ RollsBack \/ Restores \/ Unupdates \/ Unrolls \/ Unrestores BY <2>1, Planned
    <2>3. QED BY <1>8, <2>2, UpdateHealth, RollbackHealth, RestoreHealth, UnupdateHealth, UnrollbackHealth, UnrestoreHealth DEF Updates, RollsBack, Restores, Unupdates, Unrolls, Unrestores
  <1>9. CASE OpenSite
    <2>1. Step("open") BY <1>9 DEF OpenSite
    <2>2. Updates \/ RollsBack \/ Restores \/ Unupdates \/ Unrolls \/ Unrestores BY <2>1, Planned
    <2>3. QED BY <1>9, <2>2, UpdateOpenSite, RollbackOpenSite, RestoreOpenSite, UnupdateOpenSite, UnrollbackOpenSite, UnrestoreOpenSite DEF Updates, RollsBack, Restores, Unupdates, Unrolls, Unrestores
  <1>10. CASE ResumeWriters
    <2>1. Step("resume") BY <1>10 DEF ResumeWriters
    <2>2. Updates \/ RollsBack \/ Restores \/ Unupdates \/ Unrolls \/ Unrestores BY <2>1, Planned
    <2>3. QED BY <1>10, <2>2, UpdateResumeWriters, RollbackResumeWriters, RestoreResumeWriters, UnupdateResumeWriters, UnrollbackResumeWriters, UnrestoreResumeWriters DEF Updates, RollsBack, Restores, Unupdates, Unrolls, Unrestores
  <1>11. CASE Complete
    <2>1. Step("complete") BY <1>11, CompleteStep
    <2>2. Updates \/ RollsBack \/ Restores BY <2>1, Planned
    <2>3. QED BY <1>11, <2>2, UpdateEnds, RollbackEnds, RestoreEnds DEF Updates, RollsBack, Restores
  <1>12. CASE Clone
    <2>1. Step("clone") BY <1>12 DEF Clone
    <2>2. Restores BY <2>1, Planned
    <2>3. QED BY <1>12, <2>2, RestorePrepare DEF Restores
  <1>13. CASE Load
    <2>1. Step("load") BY <1>13 DEF Load
    <2>2. Restores BY <2>1, Planned
    <2>3. QED BY <1>13, <2>2, RestoreSwap DEF Restores
  <1>14. QED BY <1>1, <1>2, <1>3, <1>4, <1>5, <1>6, <1>7, <1>8, <1>9, <1>10, <1>11, <1>12, <1>13 DEF SharedStep

LEMMA UndoSteps == ASSUME IInv, UndoStep PROVE IInv'
  <1>1. CASE PointerBack
    <2>1. Step("pointer") BY <1>1 DEF PointerBack
    <2>2. Unupdates \/ Unrolls \/ Unrestores BY <2>1, Planned
    <2>3. QED BY <1>1, <2>2, UnupdatePointerBack, UnrollbackPointerBack, UnrestorePointerBack DEF Unupdates, Unrolls, Unrestores
  <1>2. CASE DatabaseBack
    <2>1. Step("database") BY <1>2 DEF DatabaseBack
    <2>2. Unrestores BY <2>1, Planned
    <2>3. QED BY <1>2, <2>2, UnrestoreDatabaseBack DEF Unrestores
  <1>3. CASE RestoreRecordedEnvironment
    <2>1. Step("environment") BY <1>3 DEF RestoreRecordedEnvironment
    <2>2. Unupdates \/ Unrestores BY <2>1, Planned
    <2>3. QED BY <1>3, <2>2, UnupdateRestoreRecordedEnvironment, UnrestoreRestoreRecordedEnvironment DEF Unupdates, Unrestores
  <1>4. CASE CleanupRecordedDatabase
    <2>1. Step("drop") BY <1>4 DEF CleanupRecordedDatabase
    <2>2. Unrestores \/ Drops BY <2>1, Planned
    <2>3. QED BY <1>4, <2>2, UnrestoreCleanupRecordedDatabase, DropCleanup DEF Unrestores, Drops
  <1>5. CASE RolledBack
    <2>1. Step("undone") BY <1>5, UndoneStep
    <2>2. Unupdates \/ Unrolls \/ Unrestores \/ Drops BY <2>1, Planned
    <2>3. QED BY <1>5, <2>2, UnupdateEnds, UnrollbackEnds, UnrestoreEnds DEF Unupdates, Unrolls, Unrestores, Drops
  <1>6. QED BY <1>1, <1>2, <1>3, <1>4, <1>5 DEF UndoStep

LEMMA SettingsSteps == ASSUME IInv, SettingsStep PROVE IInv'
  <1>1. CASE Check
    <2>1. Step("check") BY <1>1 DEF Check
    <2>2. Applies BY <2>1, Planned
    <2>3. QED BY <1>1, <2>2, ApplyCheck DEF Applies
  <1>2. CASE TryCandidate
    <2>1. Step("try") BY <1>2 DEF TryCandidate
    <2>2. Applies BY <2>1, Planned
    <2>3. QED BY <1>2, <2>2, ApplyTryCandidate DEF Applies
  <1>3. CASE Switching
    <2>1. Step("switching") BY <1>3 DEF Switching
    <2>2. Applies BY <2>1, Planned
    <2>3. QED BY <1>3, <2>2, ApplySwitching DEF Applies
  <1>4. CASE ExchangeDist
    <2>1. Step("exchange") BY <1>4 DEF ExchangeDist
    <2>2. Applies BY <2>1, Planned
    <2>3. QED BY <1>4, <2>2, ApplyExchangeDist DEF Applies
  <1>5. CASE ReplaceLive
    <2>1. Step("replace") BY <1>5 DEF ReplaceLive
    <2>2. Applies BY <2>1, Planned
    <2>3. QED BY <1>5, <2>2, ApplyReplaceLive DEF Applies
  <1>6. CASE PrincipalForward
    <2>1. Step("principal") BY <1>6 DEF PrincipalForward
    <2>2. Applies BY <2>1, Planned
    <2>3. QED BY <1>6, <2>2, ApplyPrincipalForward DEF Applies
  <1>7. CASE Verifying
    <2>1. Step("verifying") BY <1>7 DEF Verifying
    <2>2. Applies BY <2>1, Planned
    <2>3. QED BY <1>7, <2>2, ApplyVerifying DEF Applies
  <1>8. CASE Verify
    <2>1. Step("verify") BY <1>8 DEF Verify
    <2>2. Applies \/ Unapplies BY <2>1, Planned
    <2>3. QED BY <1>8, <2>2, ApplyVerify, UnapplyVerify DEF Applies, Unapplies
  <1>9. CASE SwitchProxy
    <2>1. Step("proxy") BY <1>9 DEF SwitchProxy
    <2>2. Applies BY <2>1, Planned
    <2>3. QED BY <1>9, <2>2, ApplySwitchProxy DEF Applies
  <1>10. CASE Applied
    <2>1. Step("applied") BY <1>10, Zenon DEF Applied
    <2>2. Applies BY <2>1, Planned
    <2>3. QED BY <1>10, <2>2, ApplyEnds DEF Applies
  <1>11. CASE DistBack
    <2>1. Step("dist_back") BY <1>11 DEF DistBack
    <2>2. Unapplies BY <2>1, Planned
    <2>3. QED BY <1>11, <2>2, UnapplyDistBack DEF Unapplies
  <1>12. CASE EnvBack
    <2>1. Step("env_back") BY <1>12 DEF EnvBack
    <2>2. Unapplies BY <2>1, Planned
    <2>3. QED BY <1>12, <2>2, UnapplyEnvBack DEF Unapplies
  <1>13. CASE PrincipalBack
    <2>1. Step("principal_back") BY <1>13 DEF PrincipalBack
    <2>2. Unapplies BY <2>1, Planned
    <2>3. QED BY <1>13, <2>2, UnapplyPrincipalBack DEF Unapplies
  <1>14. CASE ProxyBack
    <2>1. Step("proxy_back") BY <1>14 DEF ProxyBack
    <2>2. Unapplies BY <2>1, Planned
    <2>3. QED BY <1>14, <2>2, UnapplyProxyBack DEF Unapplies
  <1>15. CASE NotApplied
    <2>1. Step("unapplied") BY <1>15, Zenon DEF NotApplied
    <2>2. Unapplies BY <2>1, Planned
    <2>3. QED BY <1>15, <2>2, UnapplyEnds DEF Unapplies
  <1>16. QED BY <1>1, <1>2, <1>3, <1>4, <1>5, <1>6, <1>7, <1>8, <1>9, <1>10, <1>11, <1>12, <1>13, <1>14, <1>15 DEF SettingsStep

-----------------------------------------------------------------------------
LEMMA NextKeeps == ASSUME IInv, [Next]_vars PROVE IInv'
  <1>1. CASE UNCHANGED vars
    <2>1. UNCHANGED <<host, journal, job, saved, op, of, todo, bounds>> /\ helper' = helper BY <1>1 DEF vars
    <2>2. TypeInv' BY NextTyped
    <2>3. QED BY <2>1, <2>2, SameState
  <1>2. CASE Runs BY <1>2, ReleaseSteps, SharedSteps, UndoSteps, SettingsSteps, Failed DEF Runs
  <1>3. CASE Operator
    BY <1>3, UpdateBegins, RollbackBegins, RestoreBegins, BackupMade, ChangeAsked, Recovers DEF Operator
  <1>4. CASE ApplyHelper \/ HelperGivesUp BY <1>4, HelperRuns, HelperLeft
  <1>5. CASE Kill \/ Reboot BY <1>5, Killed
  <1>6. CASE CustomerWrites \/ JobWrites BY <1>6, Written
  <1>7. QED BY <1>1, <1>2, <1>3, <1>4, <1>5, <1>6 DEF Next

LEMMA InitTyped == ASSUME Init PROVE TypeInv
  <1>1. 1 \in Release /\ 1 \in Database /\ Release \subseteq Nat
    BY HostAssumption DEF HostAssumption, Release, Database
  <1>2. FirstEnv \in Env BY <1>1 DEF FirstEnv, Env
  <1>3. /\ app \in [at : {"root", "link"}, rel : {1}] /\ built = 1 /\ home = [r \in Release |-> r]
        /\ env = [r \in Release |-> FirstEnv] /\ dist = [r \in Release |-> 0]
    BY DEF Init
  <1>4. Started \in [up : BOOLEAN, rel : Release, env : Env]
    <2>1. home[app.rel] = 1 /\ app.rel = 1 BY <1>1, <1>3
    <2>2. Live \in Env BY <1>1, <1>2, <1>3, <2>1 DEF Live
    <2>3. InPlace \in BOOLEAN BY DEF InPlace
    <2>4. QED BY <1>1, <2>1, <2>2, <2>3 DEF Started
  <1>5. dbs \in [Database -> Copy]
    <2>1. SchemaOf[1] \in Nat BY <1>1, HostAssumption DEF HostAssumption, Release
    <2>2. QED BY <2>1 DEF Init, Copy
  <1>6. NoRecord \in Record BY <1>1 DEF NoRecord, Record
  <1>7. NoJob \in Job BY <1>2 DEF NoJob, Job
  <1>8. DataTyped BY <1>1, <1>2, <1>3, <1>4, <1>5, <1>6, <1>7 DEF Init, DataTyped
  <1>9. ControlTyped
    <2>1. backend \in {"sqlite", "postgresql"} BY HostAssumption DEF Init, HostAssumption
    <2>2. <<>> \in Seq(StepName) BY EmptySeq
    <2>3. restores \in 0..MaxRestores BY HostAssumption, SMT DEF Init, HostAssumption
    <2>4. helper \in BOOLEAN /\ saved \subseteq Copy BY DEF Init
    <2>5. op = "idle" /\ of = "life" /\ todo = <<>> /\ changes = 0 /\ written = 0 /\ faults = 0 BY DEF Init
    <2>6. QED BY <2>1, <2>2, <2>3, <2>4, <2>5 DEF ControlTyped
  <1>10. QED BY <1>8, <1>9 DEF TypeInv

LEMMA InitWhole == ASSUME Init PROVE IInv
  <1>1. TypeInv BY InitTyped
  <1>2. 1 \in Release /\ 1 \in Database /\ Release \subseteq Nat
    BY HostAssumption DEF HostAssumption, Release, Database
  <1>3. /\ app.rel = 1 /\ app.at \in {"root", "link"} /\ built = 1 /\ home = [r \in Release |-> r]
        /\ env = [r \in Release |-> FirstEnv] /\ dist = [r \in Release |-> 0] /\ panel = Started /\ timers
        /\ site = [port |-> 1, open |-> TRUE] /\ saved = {} /\ ~helper /\ op = "idle" /\ todo = <<>> /\ restores = 0
    BY DEF Init
  <1>4. L = NoRecord /\ D = NoRecord /\ job = NoJob BY DEF Init, L, D
  <1>5. Live = FirstEnv BY <1>2, <1>3 DEF Live
  <1>6. ~Unfinished("life") /\ ~Unfinished("data") /\ ~PendingJob /\ ~JobOpen /\ L.state = "none" /\ D.clone = 0
    BY <1>4 DEF Unfinished, PendingJob, JobOpen, L, D, NoRecord, NoJob, Final
  <1>7. dbs[1].head = SchemaOf[1] BY <1>2 DEF Init
  <1>8. Fits(app.rel, Live.db) BY <1>3, <1>5, <1>7 DEF Fits, Compatible, FirstEnv
  <1>9. Sound BY <1>2, <1>3, <1>5, <1>8 DEF Sound, InPlace, Served, FirstEnv
  <1>10. FilesInv BY <1>2, <1>3, <1>6 DEF FilesInv, FirstEnv
  <1>11. PlanInv /\ OneInv /\ HelperInv /\ JobInv /\ RetainedInv /\ SoundInv
    BY <1>3, <1>4, <1>6, <1>9 DEF PlanInv, OneInv, HelperInv, JobInv, RetainedInv, SoundInv, NoJob, Final
  <1>12. UpdateInv /\ RollbackInv /\ RestoreInv BY <1>6 DEF UpdateInv, RollbackInv, RestoreInv
  <1>13. UpdatingInv /\ RollingBackInv /\ RestoringInv /\ UndoingInv /\ ChangingInv /\ ChangingBackInv
    BY <1>3 DEF UpdatingInv, RollingBackInv, RestoringInv, UndoingInv, ChangingInv, ChangingBackInv
  <1>14. QED BY <1>1, <1>10, <1>11, <1>12, <1>13 DEF IInv

THEOREM HostInvariant == Spec => []IInv
  <1>1. Init => IInv BY InitWhole
  <1>2. IInv /\ [Next]_vars => IInv' BY NextKeeps
  <1>3. QED BY <1>1, <1>2, PTL DEF Spec

THEOREM RestIsWhole == Spec => []WholeAtRest
  <1>1. IInv => WholeAtRest
    <2>1. SUFFICES ASSUME IInv, op = "idle", ~Pending PROVE WholeAtRest BY DEF WholeAtRest
    <2>2. Sound /\ D.clone = 0 BY <2>1, WholeIdle
    <2>3. QED BY <2>2 DEF WholeAtRest, Sound, Served, OwnedSite, Fits, D
  <1>2. QED BY <1>1, HostInvariant, PTL

-----------------------------------------------------------------------------
\* No row is lost.

InUse == journal["data"].kind = "restore" /\ Unfinished("data")
Alike == \A r \in 1..built : env[home[r]].db = Live.db

\* Nothing but the name of the database and the rows in it matters here.
LEMMA RowsStay ==
  ASSUME Live'.db = Live.db, \A d \in Database : dbs[d].rows \subseteq dbs'[d].rows, Live.db \in Database
  PROVE  dbs[Live.db].rows \subseteq dbs'[Live'.db].rows
  OBVIOUS

LEMMA OwnerMoves ==
  ASSUME DataTyped, NEW e, MigratePrincipal(e) PROVE \A d \in Database : dbs'[d].rows = dbs[d].rows
  BY DEF MigratePrincipal, DataTyped, Copy

LEMMA ReleaseRows ==
  ASSUME IInv, ReleaseStep, ~InUse, Alike
  PROVE  Live'.db = Live.db /\ \A d \in Database : dbs[d].rows \subseteq dbs'[d].rows
  <1>1. DataTyped /\ app.rel \in Release /\ Live \in Env BY Views DEF IInv, TypeInv
  <1>2. CASE UNCHANGED <<app, home, env, dbs>> BY <1>2 DEF Live
  <1>3. CASE Build \/ Canary \/ Migrating \/ HealthVerified \/ ReleaseRolledBack
    BY <1>2, <1>3 DEF Build, Canary, Migrating, HealthVerified, ReleaseRolledBack, files
  <1>4. CASE MigrateAdditive
    <2>1. \A d \in Database : dbs'[d].rows = dbs[d].rows BY <1>1, <1>4 DEF MigrateAdditive, DataTyped, Copy
    <2>2. Live' = Live BY <1>4 DEF MigrateAdditive, Live
    <2>3. QED BY <2>1, <2>2
  <1>5. CASE AddGeneration
    <2>1. env' = [env EXCEPT ![home[app.rel]] = [Live EXCEPT !.generation = TRUE]] /\ UNCHANGED <<app, home, dbs>>
      BY <1>5 DEF AddGeneration, WriteEnv
    <2>2. Live' = [Live EXCEPT !.generation = TRUE] BY <1>1, <2>1, Views DEF Live, DataTyped
    <2>3. QED BY <1>1, <2>1, <2>2 DEF Env
  <1>6. CASE Detach \/ Attach
    <2>1. app'.rel = app.rel /\ UNCHANGED <<home, env, dbs>> BY <1>1, <1>6 DEF Detach, Attach, DataTyped
    <2>2. QED BY <2>1 DEF Live
  <1>7. CASE RuntimeLinks
    <2>1. Updates BY <1>7, Planned DEF RuntimeLinks
    <2>2. Step("link") /\ UNCHANGED <<app, env, dbs>> /\ home' = [home EXCEPT ![L.to] = home[L.prev]]
      BY <1>7, <2>1 DEF RuntimeLinks, L, Updates
    <2>3. app.rel = L.prev /\ L.prev < L.to /\ L.prev \in Nat /\ L.to \in Nat
      <3>1. at = "link" /\ Unfinished("life") BY <2>1, <2>2, UpdateNext DEF Updates
      <3>2. L.prev \in Release /\ L.to \in Release BY <1>1, Views DEF L
      <3>3. app.rel = L.prev /\ L.prev < L.to BY <2>1, <3>1 DEF IInv, UpdateInv, UpdatingInv, Updates, Opened
      <3>4. QED BY <3>2, <3>3, HostAssumption DEF Release, HostAssumption
    <2>4. app.rel # L.to BY <2>3
    <2>5. home'[app.rel] = home[app.rel] BY <1>1, <2>2, <2>4 DEF DataTyped
    <2>6. Live' = Live BY <2>2, <2>5 DEF Live
    <2>7. QED BY <2>2, <2>6
  <1>8. CASE AtomicPointer
    <2>1. Step("switch") /\ app'.rel = journal[of].to /\ UNCHANGED <<home, env, dbs>> BY <1>8 DEF AtomicPointer
    <2>2. Updates \/ RollsBack BY <2>1, Planned
    <2>3. journal[of].to \in 1..built
      <3>1. /\ L.prev \in Release /\ L.to \in Release /\ D.prev \in Release /\ D.to \in Release
            /\ built \in Release
        BY <1>1, Views DEF L, D, DataTyped, IInv, TypeInv
      <3>2. L.prev \in Nat /\ L.to \in Nat /\ L.prev >= 1 /\ L.to >= 1 /\ D.prev \in Nat /\ D.to \in Nat /\ built \in Nat
        BY <3>1, HostAssumption DEF Release, HostAssumption
      <3>3. CASE Updates
        <4>1. L.to = built BY <2>1, <3>3, UpdateNext DEF IInv, UpdateInv, Updates
        <4>2. QED BY <3>2, <3>3, <4>1 DEF L, Updates
      <3>4. CASE RollsBack
        <4>1. at = "switch" /\ Unfinished("data") BY <2>1, <3>4, RollbackNext DEF RollsBack
        <4>2. L.state = "complete" BY <3>4, <4>1 DEF IInv, RollingBackInv, RollsBack
        <4>3. D.prev <= built /\ L.prev = D.to /\ L.to = D.prev /\ L.prev < L.to
          BY <3>4, <4>1, <4>2 DEF IInv, RollbackInv, RetainedInv, RollsBack
        <4>4. D.to \in 1..built BY <3>2, <4>3
        <4>5. QED BY <3>4, <4>4 DEF D, RollsBack
      <3>5. QED BY <2>2, <3>3, <3>4
    <2>4. env[home[journal[of].to]].db = Live.db BY <2>3 DEF Alike
    <2>5. QED BY <2>1, <2>4 DEF Live
  <1>9. QED BY <1>3, <1>4, <1>5, <1>6, <1>7, <1>8 DEF ReleaseStep

LEMMA SharedRows ==
  ASSUME IInv, SharedStep, ~InUse
  PROVE  Live' = Live /\ UNCHANGED dbs
  <1>1. CASE Clone \/ Load
    <2>1. Step("clone") \/ Step("load") BY <1>1 DEF Clone, Load
    <2>2. Restores BY <2>1, Planned
    <2>3. Unfinished("data") BY <2>1, <2>2, RestoreNext DEF Restores
    <2>4. QED BY <2>2, <2>3 DEF Restores, InUse, D
  <1>2. CASE ~Clone /\ ~Load
    <2>1. UNCHANGED <<app, home, env, dbs>>
      BY <1>2, CompleteStep DEF SharedStep, Maintenance, CloseSite, NoteTimers, StopTimers, StopPanel, FinalBackup, Restart,
         Health, OpenSite, ResumeWriters, files
    <2>2. QED BY <2>1 DEF Live
  <1>3. QED BY <1>1, <1>2

LEMMA UndoRows ==
  ASSUME IInv, UndoStep, ~InUse, Alike
  PROVE  Live'.db = Live.db /\ UNCHANGED dbs
  <1>1. DataTyped /\ app.rel \in Release BY Views DEF IInv, TypeInv
  <1>2. PICK s \in StepName : Step(s) BY StepNames
  <1>3. Unupdates \/ Unrolls \/ Unrestores \/ Drops
    BY Planned DEF UndoStep, PointerBack, DatabaseBack, RestoreRecordedEnvironment, CleanupRecordedDatabase, RolledBack
  <1>4. Unupdates \/ Unrolls
    <2>1. of = "data" => Unfinished("data") BY <1>2 DEF IInv, OneInv, PlanInv, Step
    <2>2. QED BY <1>3, <2>1 DEF Unrestores, Drops, InUse, D
  <1>5. Unupdates => Unfinished("life") BY <1>2, UnupdateNext DEF Unupdates
  <1>6. Unrolls => Unfinished("data") BY <1>2, UnrollbackNext DEF Unrolls
  <1>7. CASE PointerBack
    <2>1. app'.rel \in {app.rel, journal[of].prev} /\ UNCHANGED <<home, env, dbs>> BY <1>7 DEF PointerBack
    <2>2. journal[of].prev \in 1..built
      <3>1. /\ L.prev \in Release /\ L.to \in Release /\ D.prev \in Release /\ built \in Release
        BY <1>1, Views DEF L, D, DataTyped, IInv, TypeInv
      <3>2. L.prev \in Nat /\ L.to \in Nat /\ L.prev >= 1 /\ D.prev \in Nat /\ D.prev >= 1 /\ built \in Nat
        BY <3>1, HostAssumption DEF Release, HostAssumption
      <3>3. CASE Unupdates
        <4>1. L.prev < L.to /\ L.to = built BY <1>5, <3>3 DEF IInv, UpdateInv
        <4>2. QED BY <3>2, <3>3, <4>1 DEF L, Unupdates
      <3>4. CASE Unrolls
        <4>1. D.prev <= built BY <1>6, <3>4 DEF IInv, RollbackInv, Unrolls
        <4>2. QED BY <3>2, <3>4, <4>1 DEF D, Unrolls
      <3>5. QED BY <1>4, <3>3, <3>4
    <2>3. env[home[journal[of].prev]].db = Live.db BY <2>2 DEF Alike
    <2>4. QED BY <2>1, <2>3 DEF Live
  <1>8. CASE RestoreRecordedEnvironment
    <2>1. Step("environment") BY <1>8 DEF RestoreRecordedEnvironment
    <2>2. Unupdates BY <1>3, <1>4, <2>1, Planned DEF Unrolls, Unrestores
    <2>3. UNCHANGED <<home, dbs>> /\ app'.rel = app.rel BY <1>1, <1>8 DEF RestoreRecordedEnvironment, DataTyped
    <2>4. CASE env' = env BY <2>3, <2>4 DEF Live
    <2>5. CASE env' # env
      <3>1. L.backup # {} /\ env' = [env EXCEPT ![home[app.rel]] = (CHOOSE b \in L.backup : TRUE).env]
        BY <1>8, <2>2, <2>5 DEF RestoreRecordedEnvironment, WriteEnv, L, Unupdates
      <3>2. PICK b \in L.backup : env' = [env EXCEPT ![home[app.rel]] = b.env] BY <3>1
      <3>3. Live' = b.env BY <1>1, <2>3, <3>2, Views DEF Live, DataTyped
      <3>4. b.env.db = Env0(L.prev).db /\ L.prev < L.to /\ L.to = built BY <1>5, <2>2 DEF IInv, UpdateInv
      <3>5. L.prev \in Release /\ L.to \in Release BY <1>1, Views DEF L
      <3>6. L.prev \in 1..built BY <3>5, <3>4, HostAssumption DEF Release, HostAssumption
      <3>7. QED BY <2>3, <3>3, <3>4, <3>6 DEF Alike, Env0
    <2>6. QED BY <2>4, <2>5
  <1>9. CASE RolledBack BY <1>9, UndoneStep DEF files, Live
  <1>10. CASE DatabaseBack \/ CleanupRecordedDatabase
    <2>1. Step("database") \/ Step("drop") BY <1>10 DEF DatabaseBack, CleanupRecordedDatabase
    <2>2. QED BY <1>4, <2>1, Planned DEF Unupdates, Unrolls, Unrestores, Drops, InUse
  <1>11. QED BY <1>7, <1>8, <1>9, <1>10 DEF UndoStep

LEMMA SettingsRows ==
  ASSUME IInv, SettingsStep
  PROVE  Live'.db = Live.db /\ \A d \in Database : dbs[d].rows \subseteq dbs'[d].rows
  <1>1. DataTyped /\ app.rel \in Release /\ job.old \in Env /\ job.new \in Env BY Views DEF IInv, TypeInv
  <1>2. CASE PrincipalForward \/ PrincipalBack
    <2>1. \A d \in Database : dbs'[d].rows = dbs[d].rows
      BY <1>1, <1>2, OwnerMoves DEF PrincipalForward, PrincipalBack
    <2>2. Live' = Live BY <1>2 DEF PrincipalForward, PrincipalBack, Live
    <2>3. QED BY <2>1, <2>2
  <1>3. ASSUME NEW e, ReplaceEnv(e), UNCHANGED <<app, dbs>> PROVE Live' = e
    <2>1. home' = [home EXCEPT ![app.rel] = app.rel] /\ env' = [env EXCEPT ![app.rel] = e]
      BY <1>3 DEF ReplaceEnv, WriteEnv
    <2>2. home'[app.rel] = app.rel /\ env'[app.rel] = e BY <1>1, <2>1 DEF DataTyped
    <2>3. QED BY <1>3, <2>2 DEF Live
  <1>4. CASE ReplaceLive
    <2>1. Applies /\ Step("replace") BY <1>4, Planned DEF ReplaceLive
    <2>2. at = "replace" /\ PendingJob BY <2>1, ApplyNext DEF Applies
    <2>3. Live = job.old /\ job.old.db = job.new.db BY <2>1, <2>2 DEF IInv, ChangingInv, JobInv, Applies
    <2>4. Live' = job.new /\ UNCHANGED dbs BY <1>3, <1>4 DEF ReplaceLive
    <2>5. QED BY <2>3, <2>4
  <1>5. CASE EnvBack
    <2>1. Unapplies /\ Step("env_back") BY <1>5, Planned DEF EnvBack
    <2>2. at = "env_back" /\ PendingJob BY <2>1, UnapplyNext DEF Unapplies
    <2>3. JobOpen BY <2>1, <2>2 DEF IInv, ChangingBackInv, Unapplies
    <2>4. Live \in {job.old, job.new} /\ job.old.db = job.new.db BY <2>2, <2>3 DEF IInv, JobInv
    <2>5. UNCHANGED <<app, dbs>> BY <1>5 DEF EnvBack
    <2>6. CASE Live = job.old BY <1>5, <2>5, <2>6 DEF EnvBack, Live
    <2>7. CASE Live # job.old
      <3>1. Live' = job.old BY <1>3, <1>5, <2>5, <2>7 DEF EnvBack
      <3>2. QED BY <2>4, <2>5, <3>1
    <2>8. QED BY <2>6, <2>7
  <1>6. CASE UNCHANGED <<app, home, env, dbs>> BY <1>6 DEF Live
  <1>7. CASE Applied \/ NotApplied
    <2>1. UNCHANGED files BY <1>7, Zenon DEF Applied, NotApplied
    <2>2. QED BY <1>6, <2>1 DEF files
  <1>8. CASE \/ Check \/ TryCandidate \/ Switching \/ ExchangeDist \/ Verifying \/ Verify \/ SwitchProxy
             \/ DistBack \/ ProxyBack
    BY <1>6, <1>8 DEF Check, TryCandidate, Switching, ExchangeDist, Verifying, Verify, SwitchProxy, DistBack, ProxyBack, files
  <1>9. QED BY <1>2, <1>4, <1>5, <1>7, <1>8 DEF SettingsStep

LEMMA WriteRows ==
  ASSUME IInv, CustomerWrites \/ JobWrites
  PROVE  Live' = Live /\ \A d \in Database : dbs[d].rows \subseteq dbs'[d].rows
  <1>1. DataTyped BY DEF IInv, TypeInv
  <1>2. PICK d : Write(d) BY DEF CustomerWrites, JobWrites
  <1>3. \A c \in Database : dbs[c].rows \subseteq dbs'[c].rows BY <1>1, <1>2 DEF Write, DataTyped, Copy
  <1>4. Live' = Live BY <1>2 DEF Write, Live
  <1>5. QED BY <1>3, <1>4

\* Whoever is not a step of an operation, or a writer, leaves the files alone.
LEMMA OtherRows ==
  ASSUME Fails \/ Operator \/ ApplyHelper \/ HelperGivesUp \/ Kill \/ Reboot \/ UNCHANGED vars
  PROVE  Live' = Live /\ UNCHANGED dbs
  <1>1. UNCHANGED <<app, home, env, dbs>>
    BY DEF Fails, Operator, Update, RollbackRelease, RestoreDatabase, MakeBackup, Apply, Recover, ApplyHelper,
           HelperGivesUp, Kill, Reboot, vars, host, files
  <1>2. QED BY <1>1 DEF Live

\* As long as the releases' own .env files agree, no row is lost from the
\* database in use outside of a restore, in whatever order updates, code
\* rollbacks and settings changes run, fail and are recovered.
THEOREM NoRowLost == Spec => RowsKept
  <1> DEFINE Kept == InUse \/ (\E r \in 1..built : env[home[r]].db # Live.db)
                     \/ dbs[Live.db].rows \subseteq dbs'[Live'.db].rows
  <1>1. ASSUME IInv, [Next]_vars PROVE Kept
    <2>1. SUFFICES ASSUME ~InUse, Alike PROVE dbs[Live.db].rows \subseteq dbs'[Live'.db].rows BY DEF Alike
    <2>2. Live.db \in Database BY <1>1, Views DEF IInv, TypeInv
    <2>3. CASE ReleaseStep BY <2>1, <2>2, <2>3, ReleaseRows, RowsStay, <1>1
    <2>4. CASE SharedStep BY <1>1, <2>1, <2>4, SharedRows
    <2>5. CASE UndoStep BY <1>1, <2>1, <2>5, UndoRows
    <2>6. CASE SettingsStep BY <1>1, <2>2, <2>6, SettingsRows, RowsStay
    <2>7. CASE CustomerWrites \/ JobWrites BY <1>1, <2>2, <2>7, WriteRows, RowsStay
    <2>8. CASE Fails \/ Operator \/ ApplyHelper \/ HelperGivesUp \/ Kill \/ Reboot \/ UNCHANGED vars
      BY <2>8, OtherRows
    <2>9. QED BY <1>1, <2>3, <2>4, <2>5, <2>6, <2>7, <2>8 DEF Next, Runs
  <1>2. Spec => [][Kept]_vars BY <1>1, HostInvariant, PTL DEF Spec
  <1>3. QED BY <1>2 DEF Kept, RowsKept, InUse
==============================================================================
