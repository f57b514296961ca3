--------------------------- MODULE LifecycleLock ---------------------------
(***************************************************************************)
(* The lifecycle lock of one user (backend/user_rename/repository.py): the *)
(* row that the panel's mutating routes and the rename job compete for.    *)
(*                                                                         *)
(* A route takes a transient row that expires; the rename job takes one    *)
(* that does not. The table's key is the user, so a delete hits whichever  *)
(* row the user has. The panel runs one event loop, and a route enters and *)
(* leaves the lock without an await: each is one step to every other       *)
(* route. Its body awaits remote calls, so bodies interleave and take      *)
(* time.                                                                   *)
(*                                                                         *)
(* Sessions are opened with expire_on_commit=False: a route that leaves    *)
(* normally still holds its own lock object, the query for the current row *)
(* returns that object unrefreshed, and the token it compares is its own.  *)
(* Only after an exception (rollback) is the row read again.               *)
(*                                                                         *)
(* Nothing stops a body when its lock expires, so a body may outlive it;   *)
(* what that breaks lasts until the next moment at which nobody is inside  *)
(* and a live job has its row (overrun).                                   *)
(***************************************************************************)
EXTENDS Integers

CONSTANTS
  Request,   \* requests to the mutating routes of one user
  TTL,       \* ttl_seconds of a transient lock
  MaxBody,   \* bound: the longest a route's body takes, also beyond TTL
  MaxTime    \* bound: the model's clock stops here

ASSUME TimeAssumption == /\ TTL \in Nat \ {0} /\ MaxBody \in Nat \ {0}
                         /\ MaxTime \in Nat

VARIABLES
  now,      \* the clock, in seconds
  lock,      \* the user's row of user_lifecycle_locks
  started,  \* for each request, when its body started, or Out
  job,      \* the rename job: "none", "queued" or "running"
  overrun   \* history: a body has outlived its lock, and the lock has not
            \* been in order since

lockVars == <<now, lock, started, job, overrun>>

Out == -1
NoRow == [kind |-> "none"]
RenameRow == [kind |-> "rename"]
Transient(r, e) == [kind |-> "transient", owner |-> r, expires |-> e]

TransientRow == [kind : {"transient"}, owner : Request, expires : Nat]
LockRow == {NoRow, RenameRow} \cup TransientRow

Inside(r) == started[r] # Out

LockTypes ==
  /\ now \in Nat
  /\ lock \in LockRow
  /\ started \in [Request -> Nat \cup {Out}]
  /\ job \in {"none", "queued", "running"}
  /\ overrun \in BOOLEAN

LockInit ==
  /\ now = 0 /\ lock = NoRow /\ job = "none" /\ overrun = FALSE
  /\ started = [r \in Request |-> Out]

-----------------------------------------------------------------------------
(***************************************************************************)
(* The mutating routes.                                                    *)
(***************************************************************************)
Expired == lock.kind = "transient" /\ lock.expires <= now

\* Wrong: takes a lock that has not expired.
EnterAnyway(r) ==
  /\ ~Inside(r) /\ lock.kind # "rename"
  /\ lock' = Transient(r, now + TTL)
  /\ started' = [started EXCEPT ![r] = now]
  /\ UNCHANGED <<now, job>>

\* transient_user_mutation_lock: delete an expired row, insert one's own;
\* any other row answers 409.
Enter(r) ==
  /\ ~Inside(r)
  /\ lock = NoRow \/ Expired
  /\ lock' = Transient(r, now + TTL)
  /\ started' = [started EXCEPT ![r] = now]
  /\ UNCHANGED <<now, job>>

\* The body ends, or its client goes away: the token comes from the object
\* the route still holds, so any row of the user goes.
Leave(r) ==
  /\ Inside(r)
  /\ lock' = NoRow
  /\ started' = [started EXCEPT ![r] = Out]
  /\ UNCHANGED <<now, job>>

\* The body raises: after the rollback the owner's token is the row's own.
LeaveFailed(r) ==
  /\ Inside(r)
  /\ lock' = IF lock.kind = "transient" /\ lock.owner = r THEN NoRow ELSE lock
  /\ started' = [started EXCEPT ![r] = Out]
  /\ UNCHANGED <<now, job>>

\* The panel restarts: bodies are gone, the row stays until it expires.
Restart ==
  /\ \E r \in Request : Inside(r)
  /\ started' = [r \in Request |-> Out]
  /\ UNCHANGED <<now, lock, job>>

-----------------------------------------------------------------------------
(***************************************************************************)
(* The rename job, whose worker is a process of its own.                   *)
(***************************************************************************)

\* queue_user_rename: any row answers 409, an expired one too.
Queue ==
  /\ job = "none" /\ lock = NoRow
  /\ job' = "queued" /\ lock' = RenameRow
  /\ UNCHANGED <<now, started>>

\* _ensure_job_lock: a missing lock is taken again, a foreign one ends the run.
JobStart ==
  /\ job = "queued" /\ lock \in {NoRow, RenameRow}
  /\ job' = "running" /\ lock' = RenameRow
  /\ UNCHANGED <<now, started>>

\* The run stops with the job still to be continued (clean-up pending, crash).
JobStop ==
  /\ job = "running"
  /\ job' = "queued"
  /\ UNCHANGED <<now, lock, started>>

\* The job ends and releases the row if it is its own.
JobEnd ==
  /\ job = "running"
  /\ job' = "none" /\ lock' = IF lock = RenameRow THEN NoRow ELSE lock
  /\ UNCHANGED <<now, started>>

Tick ==
  /\ now < MaxTime
  /\ \A r \in Request : Inside(r) => now < started[r] + MaxBody
  /\ now' = now + 1
  /\ UNCHANGED <<lock, started, job>>

LockStep ==
  \/ \E r \in Request : Enter(r) \/ Leave(r) \/ LeaveFailed(r)
  \/ Restart \/ Queue \/ JobStart \/ JobStop \/ JobEnd \/ Tick

\* A body is still at work when its lock is up.
Outlived == \E r \in Request : Inside(r) /\ now >= started[r] + TTL

JobHasRow == job # "none" => lock = RenameRow

InOrder == JobHasRow /\ \A r \in Request : ~Inside(r)

LockNext == LockStep /\ overrun' = ((overrun \/ Outlived') /\ ~InOrder')

LockSpec == LockInit /\ [][LockNext]_lockVars

-----------------------------------------------------------------------------
(***************************************************************************)
(* Properties.                                                             *)
(***************************************************************************)

\* One lifecycle mutation at a time: no two bodies of the mutating routes
\* run together, and none runs while a rename job is live, whatever crashes,
\* expires or is taken over, unless a body has outlived its lock; and once
\* everybody has left after that, it holds again.
OneMutation ==
  ~overrun => \A r \in Request : Inside(r) =>
    job = "none" /\ \A q \in Request : Inside(q) => q = r

\* Nothing but the job itself takes its lock away while it is live, unless a
\* body has outlived its lock.
RenameKeepsLock == ~overrun => JobHasRow

(***************************************************************************)
(* Why they hold: whoever is inside owns the row, and it is not up yet.    *)
(***************************************************************************)
HolderInv ==
  \A r \in Request : Inside(r) =>
    /\ lock = Transient(r, started[r] + TTL)
    /\ now < started[r] + TTL

LockInv == LockTypes /\ (~overrun => HolderInv /\ JobHasRow)
=============================================================================
