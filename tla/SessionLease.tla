----------------------------- MODULE SessionLease -----------------------------
(***************************************************************************)
(* The device leases of one user (active_sessions): the panel's session    *)
(* endpoints (routers/mirza.py), OpenVPN's connect and disconnect hooks    *)
(* and the agent's synchronize, which reads OpenVPN's status once, sends a *)
(* heartbeat for every connection in it and then the whole as a snapshot.  *)
(*                                                                         *)
(* An endpoint has no await and holds the user's row: it is one step. What *)
(* an agent sends is as old as its reading of the status; connections come *)
(* and go meanwhile. Any call may be lost, and a hook's call that was given up *)
(* may still be served later. An acquire that is refused for any reason    *)
(* but the limit changes nothing and is no step; heartbeats do not ask     *)
(* whether the user is active.                                             *)
(***************************************************************************)
EXTENDS Integers, FiniteSets

CONSTANTS
  Conn,    \* connections the user may make: a node and a remote address
  Home,    \* the nodes they may be on
  HomeOf,  \* the one of each
  Limits,  \* values of users.device_limit, 0 for no limit
  TTL,     \* _SESSION_TTL
  Grace,   \* _SESSION_SNAPSHOT_ACQUIRE_GRACE
  MaxLate, \* how many of the hooks' calls are late at a time
  MaxLag   \* the oldest a status is when a call made from it is served

ASSUME LeaseAssumption ==
  /\ IsFiniteSet(Conn) /\ HomeOf \in [Conn -> Home]
  /\ Limits \subseteq Nat /\ Limits # {}
  /\ TTL \in Nat /\ Grace \in Nat /\ MaxLag \in Nat /\ MaxLate \in Nat

VARIABLES
  up,        \* the connections OpenVPN serves
  leased,    \* the rows of active_sessions
  seen,      \* for each row, the time since last_seen, up to TTL + 1
  held,      \* for each row, the time since acquired_at, up to Grace
  limit,     \* users.device_limit
  assigned,  \* the nodes of the user
  busy,      \* the nodes whose agent is in a cycle
  status,    \* the connections in the status each has read
  todo,      \* those whose heartbeat is still to be sent
  lag,       \* the age of that status
  late,      \* the hooks' calls that were given up and may still be served
  own        \* history: connections up since their row was inserted

rows == <<leased, seen, held>>
user == <<limit, assigned>>
agent == <<busy, status, todo, lag>>
leaseVars == <<up, rows, user, agent, late, own>>

\* What the agent's local endpoint passes on for a hook: that it comes from
\* this host, names an action and is well formed is looked at there.
HookCall == {"acquire", "release"} \X Conn

\* The panel finds the node by its key, the user by the Common Name, and the
\* node among the user's, or answers 403. A node that is switched off is
\* refused, too: its calls are as good as lost.
Resolves(c) == HomeOf[c] \in assigned

At(n) == {c \in Conn : HomeOf[c] = n}

LeaseTypes ==
  /\ up \subseteq Conn /\ leased \subseteq Conn /\ own \subseteq Conn
  /\ seen \in [Conn -> 0..(TTL + 1)] /\ held \in [Conn -> 0..Grace]
  /\ limit \in Limits /\ assigned \subseteq Home
  /\ busy \subseteq Home
  /\ status \in [Home -> SUBSET Conn] /\ todo \in [Home -> SUBSET Conn]
  /\ lag \in [Home -> 0..MaxLag] /\ late \subseteq HookCall

LeaseInit ==
  /\ up = {} /\ leased = {} /\ late = {} /\ own = {}
  /\ seen = [c \in Conn |-> 0] /\ held = [c \in Conn |-> 0]
  /\ limit \in Limits /\ assigned = Home
  /\ busy = {}
  /\ status = [n \in Home |-> {}] /\ todo = [n \in Home |-> {}]
  /\ lag = [n \in Home |-> 0]

-----------------------------------------------------------------------------
(***************************************************************************)
(* The rows.                                                               *)
(***************************************************************************)

\* What is left when rows not seen for the TTL are deleted.
Live == {c \in leased : seen[c] <= TTL}

\* The rows become R: those of new are inserted now, those of fresh seen now.
Rows(R, fresh, new) ==
  /\ leased' = R
  /\ seen' = [c \in Conn |-> IF c \in R \ (fresh \cup new) THEN seen[c] ELSE 0]
  /\ held' = [c \in Conn |-> IF c \in R \ new THEN held[c] ELSE 0]
  /\ own' = (own \cap R) \cup (new \cap up')

Room == limit = 0 \/ Cardinality(Live) < limit

\* Wrong: asks for no room.
InsertAlways(c) == c \notin Live /\ Rows(Live \cup {c}, {}, {c})

\* Inserts a row for c within the limit.
Insert(c) ==
  /\ c \notin Live /\ Room
  /\ Rows(Live \cup {c}, {}, {c})

-----------------------------------------------------------------------------
(***************************************************************************)
(* OpenVPN's hooks. The connection is up when its connect hook lets it in. *)
(***************************************************************************)

\* What /session/acquire answers 200 to; a row that is still there is the
\* connection's own, and keeps its acquired_at.
Grant(c) ==
  /\ Resolves(c)
  /\ \/ c \in Live /\ Rows(Live, {c}, {})
     \/ Insert(c)

Acquire(c) ==
  /\ c \notin up /\ up' = up \cup {c}
  /\ Grant(c)
  /\ UNCHANGED <<user, agent, late>>

\* 409: only the cleanup is committed, and the client is refused.
Deny(c) ==
  /\ c \notin up /\ Resolves(c) /\ c \notin Live /\ ~Room
  /\ UNCHANGED <<up, user, agent, late>>
  /\ Rows(Live, {}, {})

\* A call that is given up is lost, or late.
GiveUp(call, c) ==
  \/ UNCHANGED late
  \/ late' = late \cup {<<call, c>>} /\ Cardinality(late') <= MaxLate

\* The call fails or takes too long: the hook lets the client in.
FailOpen(c) ==
  /\ c \notin up
  /\ up' = up \cup {c}
  /\ GiveUp("acquire", c)
  /\ UNCHANGED <<rows, user, agent, own>>

\* /session/release deletes the row.
Delete(c) ==
  /\ Resolves(c)
  /\ Rows(leased \ {c}, {}, {})

Release(c) ==
  /\ c \in up /\ up' = up \ {c}
  /\ Delete(c)
  /\ UNCHANGED <<user, agent, late>>

\* The call fails, takes too long, or answers 403 on a node that is not the
\* user's; the hook does not try again.
ReleaseLost(c) ==
  /\ c \in up
  /\ up' = up \ {c} /\ own' = own \ {c}
  /\ GiveUp("release", c)
  /\ UNCHANGED <<rows, user, agent>>

LateAcquire(c) ==
  /\ <<"acquire", c>> \in late /\ late' = late \ {<<"acquire", c>>}
  /\ UNCHANGED <<up, user, agent>>
  /\ Grant(c)

LateRelease(c) ==
  /\ <<"release", c>> \in late /\ late' = late \ {<<"release", c>>}
  /\ UNCHANGED <<up, user, agent>>
  /\ Delete(c)

-----------------------------------------------------------------------------
(***************************************************************************)
(* The agent's synchronize.                                                *)
(***************************************************************************)

\* Wrong: takes a status file that is still being written.
ReadPartial(n) ==
  /\ n \notin busy /\ busy' = busy \cup {n}
  /\ \E S \in SUBSET (up \cap At(n)) :
       /\ status' = [status EXCEPT ![n] = S]
       /\ todo' = [todo EXCEPT ![n] = S]
  /\ UNCHANGED <<up, rows, user, lag, late, own>>

ReadStatus(n) ==
  /\ n \notin busy /\ busy' = busy \cup {n}
  /\ status' = [status EXCEPT ![n] = up \cap At(n)]
  /\ todo' = [todo EXCEPT ![n] = up \cap At(n)]
  /\ UNCHANGED <<up, rows, user, lag, late, own>>

Beat(c) ==
  /\ c \in todo[HomeOf[c]]
  /\ todo' = [todo EXCEPT ![HomeOf[c]] = @ \ {c}]
  /\ UNCHANGED <<user, busy, status, lag, late>>

BeatLost(c) ==
  /\ Beat(c)
  /\ UNCHANGED <<up, rows, own>>

\* At most limit rows are kept: c's and the last seen of the others.
Fresher(a, b) ==
  \/ seen[a] < seen[b]
  \/ seen[a] = seen[b] /\ held[a] <= held[b]

Keepable(K, c) ==
  /\ c \in K
  /\ limit = 0 => K = Live
  /\ limit > 0 => Cardinality(K) = IF Cardinality(Live) < limit
                                   THEN Cardinality(Live) ELSE limit
  /\ \A a \in K \ {c}, b \in Live \ K : Fresher(a, b)

\* /session/heartbeat of a connection that has a row: refresh it, and delete
\* what is above the limit.
Touch(c) ==
  /\ Beat(c) /\ Resolves(c) /\ c \in Live
  /\ UNCHANGED up
  /\ \E K \in SUBSET Live : Keepable(K, c) /\ Rows(K, {c}, {})

\* Of one without a row: insert it, whether it is still up or not.
Recover(c) ==
  /\ Beat(c) /\ Resolves(c)
  /\ UNCHANGED up
  /\ Insert(c)

\* Of one without a row and without room: answers 200 and leaves it at that.
Ignore(c) ==
  /\ Beat(c) /\ Resolves(c)
  /\ c \notin Live /\ ~Room
  /\ UNCHANGED up
  /\ Rows(Live, {}, {})

\* On a node that is no longer the user's: 403, and terminate_session kills
\* the client. Its row stays for the snapshot.
Terminate(c) ==
  /\ Beat(c) /\ ~Resolves(c)
  /\ up' = up \ {c} /\ own' = own \ {c}
  /\ UNCHANGED rows

\* terminate_session does not find the client, or the management socket.
TerminateFails(c) ==
  /\ Beat(c) /\ ~Resolves(c)
  /\ UNCHANGED <<up, rows, own>>

CycleEnds(n) ==
  /\ busy' = busy \ {n}
  /\ status' = [status EXCEPT ![n] = {}]
  /\ todo' = [todo EXCEPT ![n] = {}]
  /\ lag' = [lag EXCEPT ![n] = 0]

\* Wrong: knows no grace.
GoneAtOnce(n) == {c \in leased \cap At(n) : c \notin status[n]}

\* Wrong: takes an empty status for no status.
GoneUnlessEmpty(n) ==
  {c \in leased \cap At(n) : status[n] # {} /\ c \notin status[n] /\ held[c] >= Grace}

\* The rows of the node that are not in the snapshot and old enough to be.
Gone(n) == {c \in leased \cap At(n) : c \notin status[n] /\ held[c] >= Grace}

\* /session/snapshot, when every heartbeat has had its answer or timeout.
Snapshot(n) ==
  /\ n \in busy /\ todo[n] = {}
  /\ UNCHANGED <<up, user, late>>
  /\ Rows(leased \ Gone(n), leased \cap status[n], {})
  /\ CycleEnds(n)

\* The panel does not get the snapshot, or does not answer.
SnapshotLost(n) ==
  /\ n \in busy /\ todo[n] = {} /\ CycleEnds(n)
  /\ UNCHANGED <<up, rows, user, late, own>>

\* The agent restarts with heartbeats still to be sent; later, it is as if
\* the snapshot were lost.
AgentRestarts(n) ==
  /\ todo[n] # {} /\ CycleEnds(n)
  /\ UNCHANGED <<up, rows, user, late, own>>

-----------------------------------------------------------------------------
(***************************************************************************)
(* The administrator and the clock.                                        *)
(***************************************************************************)
SetLimit(l) ==
  /\ l # limit /\ limit' = l
  /\ UNCHANGED <<up, rows, assigned, agent, late, own>>

\* The user's nodes are replaced: n is no longer one, or is one again. The
\* user keeps another node, with connections of no interest here.
Reassign(n) ==
  /\ assigned' = IF n \in assigned THEN assigned \ {n} ELSE assigned \cup {n}
  /\ UNCHANGED <<up, rows, limit, agent, late, own>>

\* Wrong: ages without end.
OlderStill(age, cap) == age + 1

Older(age, cap) == IF age < cap THEN age + 1 ELSE cap

Tick ==
  /\ \A n \in busy : lag[n] < MaxLag
  /\ seen' = [c \in Conn |-> IF c \in leased THEN Older(seen[c], TTL + 1) ELSE 0]
  /\ held' = [c \in Conn |-> IF c \in leased THEN Older(held[c], Grace) ELSE 0]
  /\ lag' = [n \in Home |-> IF n \in busy THEN lag[n] + 1 ELSE 0]
  /\ UNCHANGED <<up, leased, user, busy, status, todo, late, own>>

Heartbeat(c) == Touch(c) \/ Recover(c) \/ Ignore(c) \/ Terminate(c)

LeaseNext ==
  \/ \E c \in Conn :
       \/ Acquire(c) \/ Deny(c) \/ FailOpen(c) \/ Release(c) \/ ReleaseLost(c)
       \/ LateAcquire(c) \/ LateRelease(c)
       \/ Heartbeat(c) \/ BeatLost(c) \/ TerminateFails(c)
  \/ \E n \in Home :
       \/ ReadStatus(n) \/ Snapshot(n) \/ SnapshotLost(n)
       \/ AgentRestarts(n) \/ Reassign(n)
  \/ \E l \in Limits : SetLimit(l)
  \/ Tick

LeaseSpec == LeaseInit /\ [][LeaseNext]_leaseVars

\* The agent's loop goes on, time passes and restarts end; a call that is made
\* again and again is served in the end. Nothing makes a client leave.
FairLeaseSpec ==
  /\ LeaseSpec /\ WF_leaseVars(Tick)
  /\ \A n \in Home :
       /\ WF_leaseVars(ReadStatus(n)) /\ SF_leaseVars(Snapshot(n))
       /\ <>[][~AgentRestarts(n)]_leaseVars
  /\ \A c \in Conn : SF_leaseVars(Heartbeat(c))

-----------------------------------------------------------------------------
(***************************************************************************)
(* Properties.                                                             *)
(***************************************************************************)

\* The heartbeat's docstring: never track more than the limit. No call adds
\* a row that makes more than the limit of the moment.
TrackedWithinLimit ==
  [][(~(leased' \subseteq leased) /\ limit > 0) => Cardinality(leased') <= limit]_leaseVars

\* A connection that has been up since its row was inserted loses it only
\* to the TTL, to a limit that was lowered or to the late release of an
\* earlier connection from its address: never to a snapshot that was taken
\* before the connection.
LiveLeaseKept ==
  [][\A c \in own \cap up' :
       \/ c \in leased' \/ seen[c] > TTL
       \/ limit > 0 /\ Cardinality(leased) > limit
       \/ <<"release", c>> \in late \ late']_leaseVars

\* A row without a connection goes, or its connection comes back, although
\* a late heartbeat may insert it again: it does not lock a device out for
\* good.
GhostsEnd == \A c \in Conn : (c \in leased /\ c \notin up) ~> (c \notin leased \/ c \in up)

(***************************************************************************)
(* Why LiveLeaseKept holds while MaxLag < Grace: a connection that is not  *)
(* in the status an agent works from has come up since, so its row is no   *)
(* older than that status.                                                 *)
(***************************************************************************)
LagInv ==
  /\ own \subseteq leased \cap up
  /\ \A c \in own : LET n == HomeOf[c] IN
       n \in busy /\ c \notin status[n] => held[c] <= lag[n]

LeaseInv == LeaseTypes /\ LagInv
==============================================================================
