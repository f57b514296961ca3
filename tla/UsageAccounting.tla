--------------------------- MODULE UsageAccounting ---------------------------
(***************************************************************************)
(* How the traffic of one user with a quota is charged: the usage job      *)
(* (check_user_used_traffic, then enforce_user_limits) and the renewal     *)
(* route (renew_user with traffic_action "reset", whose heart is           *)
(* reset_shared_user_usage).                                               *)
(*                                                                         *)
(* The job is a process of its own and shares only the database with the   *)
(* panel: users.used, users.is_active and, per node, last_usage, the part  *)
(* of the node's counter that is charged already. Both sides load the user *)
(* once and keep that copy over their awaits and commits                   *)
(* (expire_on_commit=False); an attribute is written only if it differs    *)
(* from the copy. The raw SQL on last_usage reads and writes the database. *)
(*                                                                         *)
(* The user has a row for every node, and expiry dates are left out.       *)
(***************************************************************************)
EXTENDS Integers, FiniteSets

CONSTANTS
  Node,         \* the nodes assigned to the user
  Durable,      \* those whose agent keeps the ledger of accounting.py
  Quota,        \* users.total
  MaxMoved,     \* bound: traffic units the user moves
  MaxRenewals,  \* bound: renewals
  MaxCrashes    \* bound: times the job is killed

ASSUME UsageAssumption ==
  /\ Node # {} /\ IsFiniteSet(Node) /\ Durable \subseteq Node
  /\ Quota \in Nat \ {0}
  /\ MaxMoved \in Nat /\ MaxRenewals \in Nat /\ MaxCrashes \in Nat

VARIABLES
  counter,   \* what each node reports of the user, Absent if nothing
  used, active, last,   \* the database: users.used, users.is_active, last_usage
  jobAt, jobTodo, jobUsed, jobNode, sample, lastRead,  \* the job's locals
  routeAt, routeTodo, routeCopy, baseline,             \* the renewal's locals
  moved, mark, forgiven, base, clean, exact,          \* history: see Reckon
  renewals, crashes

traffic == <<counter, moved>>
database == <<used, active, last>>
job == <<jobAt, jobTodo, jobUsed, jobNode, sample, lastRead>>
route == <<routeAt, routeTodo, routeCopy, baseline, renewals>>
reckoning == <<mark, forgiven, base, clean, exact>>
vars == <<traffic, database, job, route, crashes, reckoning>>

Absent == -1
Keep == -1      \* no baseline taken
Unloaded == -1  \* a copy to be read again on its next use
AnyNode == CHOOSE n \in Node : TRUE

\* The sum of f over S, counted unit by unit.
Units(f, S) == UNION {{n} \X (1..f[n]) : n \in S}
Total(f, S) == Cardinality(Units(f, S))

JobSteps == {"idle", "sync", "fetched", "read", "enforce", "disabling"}
RouteSteps == {"idle", "reading", "reset", "renewing"}

StateTypes ==
  /\ counter \in [Node -> Nat \cup {Absent}]
  /\ used \in Nat /\ active \in BOOLEAN /\ last \in [Node -> Nat]
  /\ jobAt \in JobSteps /\ jobTodo \in SUBSET Node
  /\ jobUsed \in Nat \cup {Unloaded} /\ jobNode \in Node
  /\ sample \in Nat /\ lastRead \in Nat
  /\ jobAt \in {"fetched", "read"} => jobNode \in jobTodo
  /\ jobAt = "read" => jobUsed # Unloaded
  /\ routeAt \in RouteSteps /\ routeTodo \in SUBSET Node
  /\ routeCopy \in [used : Nat, active : BOOLEAN]
  /\ baseline \in [Node -> Nat \cup {Keep}]
  /\ moved \in [Node -> Nat] /\ renewals \in Nat /\ crashes \in Nat

HistoryTypes ==
  /\ mark \in [Node -> Nat] /\ forgiven \in [Node -> Nat] /\ base \in [Node -> Nat]
  /\ clean \in BOOLEAN /\ exact \in BOOLEAN

TypeOK == StateTypes /\ HistoryTypes

Nothing == [n \in Node |-> 0]
NoBaseline == [n \in Node |-> Keep]
Unused == [used |-> 0, active |-> TRUE]  \* a copy that nothing reads

Init ==
  /\ counter = [n \in Node |-> Absent] /\ moved = Nothing
  /\ used = 0 /\ active = TRUE /\ last = Nothing
  /\ jobAt = "idle" /\ jobTodo = {} /\ jobUsed = 0
  /\ jobNode = AnyNode /\ sample = 0 /\ lastRead = 0
  /\ routeAt = "idle" /\ routeTodo = {} /\ routeCopy = Unused
  /\ baseline = NoBaseline
  /\ mark = Nothing /\ forgiven = Nothing /\ base = Nothing
  /\ clean = FALSE /\ exact = TRUE
  /\ renewals = 0 /\ crashes = 0

\* The locals of a node's turn, or of a request, end with it.
ForgetCall == jobNode' = AnyNode /\ sample' = 0 /\ lastRead' = 0
ForgetJob == jobTodo' = {} /\ jobUsed' = 0 /\ ForgetCall
ForgetRoute ==
  /\ routeTodo' = {} /\ routeCopy' = Unused
  /\ baseline' = NoBaseline

-----------------------------------------------------------------------------
(***************************************************************************)
(* The counters of the nodes. A ledger sums every session it has seen; the *)
(* status file of a node without one lists the sessions now connected.     *)
(***************************************************************************)
Connect(n) ==
  /\ counter[n] = Absent
  /\ counter' = [counter EXCEPT ![n] = 0]
  /\ UNCHANGED <<moved, database, job, route, crashes>>

Move(n) ==
  /\ counter[n] # Absent /\ Total(moved, Node) < MaxMoved
  /\ counter' = [counter EXCEPT ![n] = @ + 1]
  /\ moved' = [moved EXCEPT ![n] = @ + 1]
  /\ UNCHANGED <<database, job, route, crashes>>

Disconnect(n) ==
  /\ n \notin Durable /\ counter[n] # Absent
  /\ counter' = [counter EXCEPT ![n] = Absent]
  /\ UNCHANGED <<moved, database, job, route, crashes>>

-----------------------------------------------------------------------------
(***************************************************************************)
(* The usage job, a oneshot service: check_user_used_traffic.              *)
(***************************************************************************)
StartSync ==
  /\ jobAt = "idle"
  /\ jobAt' = "sync" /\ jobTodo' = Node /\ jobUsed' = used
  /\ UNCHANGED <<jobNode, sample, lastRead, traffic, database, route, crashes>>

\* The node's answer arrives while anything else may run.
Fetch(n) ==
  /\ jobAt = "sync" /\ n \in jobTodo /\ counter[n] # Absent
  /\ jobAt' = "fetched" /\ jobNode' = n /\ sample' = counter[n]
  /\ UNCHANGED <<jobTodo, jobUsed, lastRead, traffic, database, route, crashes>>

\* The node is out of reach, or reports nothing of the user.
FetchNothing(n) ==
  /\ jobAt = "sync" /\ n \in jobTodo
  /\ jobTodo' = jobTodo \ {n}
  /\ UNCHANGED <<jobAt, jobUsed, jobNode, sample, lastRead,
                 traffic, database, route, crashes>>

ReadLast ==
  /\ jobAt = "fetched"
  /\ jobAt' = "read" /\ lastRead' = last[jobNode]
  /\ jobUsed' = IF jobUsed = Unloaded THEN used ELSE jobUsed
  /\ UNCHANGED <<jobTodo, jobNode, sample, traffic, database, route, crashes>>

\* A counter below last_usage has started again from zero.
Delta == IF sample >= lastRead THEN sample - lastRead ELSE sample

Settled ==
  /\ jobAt = "read"
  /\ jobAt' = "sync" /\ jobTodo' = jobTodo \ {jobNode}
  /\ jobUsed' = jobUsed + Delta /\ ForgetCall
  /\ UNCHANGED <<active, traffic, route, crashes>>

\* Wrong: advances last_usage without the charge.
SettleUncharged ==
  /\ Settled
  /\ last' = [last EXCEPT ![jobNode] = sample]
  /\ UNCHANGED used

\* The charge and the new last_usage are one commit.
Settle ==
  /\ Settled
  /\ last' = [last EXCEPT ![jobNode] = sample]
  /\ used' = IF Delta = 0 THEN used ELSE jobUsed + Delta

\* The transaction fails: roll back, go on with the next node.
SettleFails ==
  /\ jobAt \in {"fetched", "read"}
  /\ jobAt' = "sync" /\ jobTodo' = jobTodo \ {jobNode} /\ jobUsed' = Unloaded
  /\ ForgetCall
  /\ UNCHANGED <<traffic, database, route, crashes>>

SyncDone ==
  /\ jobAt = "sync" /\ jobTodo = {}
  /\ jobAt' = "enforce" /\ ForgetJob
  /\ UNCHANGED <<traffic, database, route, crashes>>

(***************************************************************************)
(* enforce_user_limits, in the same process, with a session of its own.    *)
(***************************************************************************)
Exhausted == used >= Quota

\* Wrong: lets a user have one unit more.
EnforceAbove ==
  /\ jobAt = "enforce"
  /\ jobAt' = IF active /\ used > Quota THEN "disabling" ELSE "idle"
  /\ UNCHANGED <<jobTodo, jobUsed, jobNode, sample, lastRead,
                 traffic, database, route, crashes>>

EnforceLoad ==
  /\ jobAt = "enforce"
  /\ jobAt' = IF active /\ Exhausted THEN "disabling" ELSE "idle"
  /\ UNCHANGED <<jobTodo, jobUsed, jobNode, sample, lastRead,
                 traffic, database, route, crashes>>

\* After the calls to the user's nodes, whatever they answered.
Disable ==
  /\ jobAt = "disabling"
  /\ jobAt' = "idle" /\ active' = FALSE
  /\ UNCHANGED <<used, last, jobTodo, jobUsed, jobNode, sample, lastRead,
                 traffic, route, crashes>>

JobCrash ==
  /\ jobAt # "idle" /\ crashes < MaxCrashes
  /\ jobAt' = "idle" /\ crashes' = crashes + 1 /\ ForgetJob
  /\ UNCHANGED <<traffic, database, route>>

-----------------------------------------------------------------------------
(***************************************************************************)
(* The renewal, one at a time under the lifecycle lock.                    *)
(***************************************************************************)
StartRenewal ==
  /\ routeAt = "idle" /\ renewals < MaxRenewals
  /\ routeAt' = "reading" /\ routeTodo' = Node
  /\ routeCopy' = [used |-> used, active |-> active]
  /\ baseline' = [n \in Node |-> Keep]
  /\ renewals' = renewals + 1
  /\ UNCHANGED <<traffic, database, job, crashes>>

ReadCounter(n) ==
  /\ routeAt = "reading" /\ n \in routeTodo /\ counter[n] # Absent
  /\ baseline' = [baseline EXCEPT ![n] = counter[n]]
  /\ routeTodo' = routeTodo \ {n}
  /\ UNCHANGED <<routeAt, routeCopy, renewals,
                 traffic, database, job, crashes>>

\* The client is not on the node or the node is out of reach: NodeRequests
\* turns an error into an empty answer, which keeps the previous baseline.
KeepBaseline(n) ==
  /\ routeAt = "reading" /\ n \in routeTodo
  /\ routeTodo' = routeTodo \ {n}
  /\ UNCHANGED <<routeAt, routeCopy, baseline, renewals,
                 traffic, database, job, crashes>>

Baselined == [n \in Node |-> IF baseline[n] = Keep THEN last[n] ELSE baseline[n]]

\* Assigns zero to the attribute: no write if the copy is zero.
Zeroed == IF routeCopy.used = 0 THEN used ELSE 0

\* Baselines and zero in one commit.
ResetUsage ==
  /\ routeAt = "reading" /\ routeTodo = {}
  /\ routeAt' = "reset" /\ ForgetRoute
  /\ last' = Baselined /\ used' = Zeroed
  /\ UNCHANGED <<active, renewals, traffic, job, crashes>>

\* db.refresh of the user.
Refresh ==
  /\ routeAt = "reset"
  /\ routeAt' = "renewing"
  /\ routeCopy' = [used |-> used, active |-> active]
  /\ UNCHANGED <<routeTodo, baseline, renewals,
                 traffic, database, job, crashes>>

\* The second commit: the plan's used and the user active again.
Activate ==
  /\ routeAt = "renewing"
  /\ routeAt' = "idle" /\ ForgetRoute
  /\ used' = Zeroed /\ active' = IF routeCopy.active THEN active ELSE TRUE
  /\ UNCHANGED <<last, renewals, traffic, job, crashes>>

\* The request is cancelled, raises, or the panel restarts.
RenewalFails ==
  /\ routeAt # "idle"
  /\ routeAt' = "idle" /\ ForgetRoute
  /\ UNCHANGED <<renewals, traffic, database, job, crashes>>

-----------------------------------------------------------------------------
JobStep ==
  \/ StartSync \/ ReadLast \/ Settle \/ SyncDone \/ EnforceLoad \/ Disable
  \/ \E n \in Node : Fetch(n) \/ FetchNothing(n)

RouteStep ==
  \/ ResetUsage \/ Refresh \/ Activate
  \/ \E n \in Node : ReadCounter(n) \/ KeepBaseline(n)

Step ==
  \/ \E n \in Node : Connect(n) \/ Move(n) \/ Disconnect(n)
  \/ JobStep \/ SettleFails \/ JobCrash
  \/ StartRenewal \/ RouteStep \/ RenewalFails

\* One of the two is idle.
Apart == jobAt = "idle" \/ routeAt = "idle"

(***************************************************************************)
(* History. clean: the renewal has run alone so far and has not missed a   *)
(* counter; mark is what the user had moved when it was asked for. exact:  *)
(* the last renewal that reset the usage was clean, and none has run       *)
(* beside the job since; forgiven is that one's mark and base the          *)
(* last_usage it left.                                                     *)
(***************************************************************************)
Missed == \E n \in routeTodo \ routeTodo' : counter[n] # Absent /\ baseline'[n] = Keep
Resets == routeAt = "reading" /\ routeAt' = "reset"

Reckon ==
  /\ clean' = (/\ routeAt' # "idle" /\ jobAt' = "idle"
               /\ routeAt = "idle" \/ clean
               /\ ~Missed)
  /\ mark' = CASE ~clean' -> Nothing [] routeAt = "idle" -> moved [] OTHER -> mark
  /\ exact' = IF Resets THEN clean ELSE exact /\ Apart'
  /\ forgiven' = CASE ~exact' -> Nothing [] Resets -> mark [] OTHER -> forgiven
  /\ base' = CASE ~exact' -> Nothing [] Resets -> last' [] OTHER -> base

Next == Step /\ Reckon

Spec == Init /\ [][Next]_vars

\* The timer starts the job again and a started step ends (calls time out);
\* so does a started request.
FairSpec == Spec /\ WF_vars(JobStep /\ Reckon) /\ WF_vars(RouteStep /\ Reckon)

-----------------------------------------------------------------------------
(***************************************************************************)
(* Properties. moved counts everything the user moved.                     *)
(***************************************************************************)
\* reset_shared_user_usage's promise: what the user moved before a renewal
\* was asked for is not charged after it. And nothing is charged twice.
NeverOvercharged == used <= Total(moved, Node) - Total(forgiven, Node)

\* Every byte that a ledger's last_usage has moved past since the last reset
\* is in the user's total: no crash, rollback or stale copy loses a charge.
NeverUndercharged == used >= Total(last, Durable) - Total(base, Durable)

\* What is charged is what was moved since the last renewal that reset it, from
\* any renewal that runs alone and reads every counter until one runs beside
\* the job or resets what it has not read: whatever went wrong before it, such
\* a renewal puts right.
ChargedOnce == exact => NeverOvercharged /\ NeverUndercharged

\* A user who exhausts the quota is disabled, unless a renewal comes first.
QuotaEnforced == (active /\ used >= Quota) ~> (~active \/ used < Quota)
==============================================================================
