--------------------------- MODULE UserFleetProofs ---------------------------
(***************************************************************************)
(* For any fleet and any number of requests: a request that ran alone      *)
(* tells the truth of the nodes it reports on, and a change of assignments *)
(* that gives up leaves the user served. UserFleet has the panel's routes  *)
(* change a user one at a time; that the lock they take makes it so, as    *)
(* long as no body outlives its lock, is proved here of LifecycleLock,     *)
(* which shares no variable with UserFleet.                                *)
(*                                                                         *)
(* The first two rest on what a walk knows of the nodes it has passed      *)
(* (Knows): no build that the panel has given up is under way there, since *)
(* the node would have refused the call, so that nothing but another       *)
(* request, the reconciler or a download can change the node. Each of      *)
(* those puts the walk in company (Alone).                                 *)
(***************************************************************************)
EXTENDS UserFleet, LifecycleLock, TLAPS

Identity == [profile : BOOLEAN, ccd : BOOLEAN]
Row == [id : Nat, active : BOOLEAN, nodes : SUBSET (Node \cup {Elsewhere})]
Walk == [op : {"idle", "status", "create", "nodes", "delete"}, id : Nat,
         phase : {"idle", "assign", "nodes", "disable", "restore", "provision"},
         left : SUBSET Node, done : SUBSET Node, ok : BOOLEAN, on : BOOLEAN,
         goal : SUBSET (Node \cup {Elsewhere}), added : SUBSET Node, tells : BOOLEAN]

TypeInv ==
  /\ row \in Row \cup {None}
  /\ ident \in [Node -> Identity] /\ late \in [Node -> BOOLEAN]
  /\ walk \in [Actor -> Walk] /\ company \subseteq Actor
  /\ requests \in Nat

Busy(a) == walk[a].op # "idle"
ByOp == \A a \in Actor : ~Busy(a) => walk[a] = Idle

\* Who runs without company runs alone.
Alone ==
  \A a \in Actor \ company : Busy(a) =>
    repair = Resting /\ \A b \in Actor : Busy(b) => b = a

\* What a walk that runs alone knows of the nodes it has passed.
KnowsStatus(a) ==
  /\ walk[a].phase = "nodes"
  /\ walk[a].ok => \A n \in Assigned(row) \ walk[a].left : ident[n].ccd = walk[a].on /\ ~late[n]

KnowsDone(a, id) ==
  /\ walk[a].done \cap walk[a].left = {}
  /\ \A n \in walk[a].done : ident[n] = id /\ ~late[n]

KnowsDisable(a) ==
  /\ MyRow(a) /\ walk[a].goal \in NodeSets
  /\ walk[a].left \cup walk[a].done = Assigned(row) \ walk[a].goal
  /\ walk[a].done \cap walk[a].left = {}
  /\ walk[a].added \cap Assigned(row) = {}
  /\ \A n \in walk[a].done : ~ident[n].ccd /\ ~late[n]

KnowsRestore(a) ==
  /\ walk[a].done \subseteq Assigned(row)
  /\ \A n \in walk[a].done : ~late[n] /\ (n \in walk[a].left \/ ident[n].ccd)

KnowsProvision(a) ==
  /\ walk[a].goal \cap (Assigned(row) \cup walk[a].left \cup walk[a].done) = {}
  /\ walk[a].goal \subseteq Node /\ walk[a].done \cap walk[a].left = {}
  /\ \A n \in walk[a].goal : ~ident[n].ccd /\ ~late[n]
  /\ \A n \in walk[a].done : ident[n].ccd = walk[a].on /\ ~late[n]

Knows(a) ==
  /\ walk[a].op = "status" => KnowsStatus(a)
  /\ walk[a].op = "create" => KnowsDone(a, Built)
  /\ walk[a].op = "delete" => KnowsDone(a, Absent)
  /\ walk[a].op = "nodes" =>
       /\ walk[a].phase \in {"disable", "restore", "provision"}
       /\ walk[a].phase = "disable" => KnowsDisable(a)
       /\ walk[a].phase = "restore" => KnowsRestore(a)
       /\ walk[a].phase = "provision" => KnowsProvision(a)

KnowsInv == \A a \in Actor \ company : Knows(a)

\* A user whose nodes are still to be committed is there.
Between == BetweenCommits => row \in Row

Inv == TypeInv /\ ByOp /\ Alone /\ KnowsInv

-----------------------------------------------------------------------------
(* What the panel may conclude from a reply. *)

Reply == [to : Identity, ok : BOOLEAN, late : BOOLEAN]

LEMMA Kinds ==
  /\ Built \in Identity /\ Absent \in Identity
  /\ Built.ccd = TRUE /\ Absent.ccd = FALSE
BY DEF Built, Absent, Identity

LEMMA LostReply ==
  ASSUME NEW id \in Identity, NEW busy \in BOOLEAN
  PROVE  Lost(id, busy) \in Reply /\ ~Lost(id, busy).ok
BY DEF Lost, Reply

LEMMA ServedReply ==
  ASSUME NEW id \in Identity, NEW ok \in BOOLEAN
  PROVE  /\ Served(id, ok) \in Reply /\ Served(id, ok).ok = ok
         /\ Served(id, ok).to = id /\ ~Served(id, ok).late
BY DEF Served, Reply

LEMMA StatusReply ==
  ASSUME NEW id \in Identity, NEW busy \in BOOLEAN, NEW on \in BOOLEAN,
         NEW r \in StatusReplies(id, busy, on)
  PROVE  r \in Reply /\ (r.ok => r.to.ccd = on /\ ~r.late)
<1> DEFINE new == [id EXCEPT !.ccd = on]
<1>1. new \in Identity /\ new.ccd = on
  BY DEF Identity
<1>2. r = Lost(id, busy) \/ \E ok \in BOOLEAN : r = Served(new, ok)
  BY DEF StatusReplies
<1> HIDE DEF new
<1>3. CASE r = Lost(id, busy)
  BY <1>3, LostReply
<1>4. CASE \E ok \in BOOLEAN : r = Served(new, ok)
  BY <1>1, <1>4, ServedReply
<1> QED
  BY <1>2, <1>3, <1>4

LEMMA BuildReply ==
  ASSUME NEW id \in Identity, NEW busy \in BOOLEAN, NEW r \in BuildReplies(id, busy)
  PROVE  r \in Reply /\ (r.ok => r.to = Built /\ ~r.late)
<1>1. CASE r \in {Lost(id, busy), Lost(id, TRUE)}
  BY <1>1, LostReply
<1>2. CASE \E ok \in BOOLEAN : r = Served(Built, ok)
  BY <1>2, ServedReply, Kinds
<1> QED
  BY <1>1, <1>2 DEF BuildReplies

LEMMA DeleteReply ==
  ASSUME NEW id \in Identity, NEW busy \in BOOLEAN, NEW r \in DeleteReplies(id, busy)
  PROVE  r \in Reply /\ (r.ok => r.to = Absent /\ ~r.late)
<1>1. CASE r = Lost(id, busy)
  BY <1>1, LostReply
<1>2. CASE \E ok \in BOOLEAN : r = Served(Absent, ok)
  BY <1>2, ServedReply, Kinds
<1> QED
  BY <1>1, <1>2 DEF DeleteReplies

LEMMA ProvisionReply ==
  ASSUME NEW id \in Identity, NEW busy \in BOOLEAN, NEW on \in BOOLEAN,
         NEW r \in ProvisionReplies(id, busy, on)
  PROVE  r \in Reply /\ (r.ok => r.to.ccd = on /\ ~r.late)
<1>1. CASE r = Lost(id, busy)
  BY <1>1, LostReply
<1>2. CASE r # Lost(id, busy)
  <2>1. PICK b \in BuildReplies(id, busy) :
          r \in IF ~b.ok THEN StatusReplies(b.to, b.late, on)
                ELSE IF on THEN {b}
                ELSE UNION {IF q.ok THEN {q}
                            ELSE {[d EXCEPT !.ok = FALSE] : d \in DeleteReplies(q.to, q.late)}
                            : q \in StatusReplies(b.to, b.late, FALSE)}
    BY <1>2 DEF ProvisionReplies
  <2>2. b \in Reply /\ (b.ok => b.to = Built /\ ~b.late)
    BY BuildReply
  <2>3. b.to \in Identity /\ b.late \in BOOLEAN
    BY <2>2 DEF Reply
  <2>4. CASE ~b.ok
    BY <2>1, <2>3, <2>4, StatusReply
  <2>5. CASE b.ok /\ on
    BY <2>1, <2>2, <2>5, Kinds
  <2>6. CASE b.ok /\ ~on
    <3>1. PICK q \in StatusReplies(b.to, b.late, FALSE) :
            r \in IF q.ok THEN {q} ELSE {[d EXCEPT !.ok = FALSE] : d \in DeleteReplies(q.to, q.late)}
      BY <2>1, <2>6
    <3>2. q \in Reply /\ (q.ok => q.to.ccd = FALSE /\ ~q.late)
      BY <2>3, StatusReply
    <3>3. CASE q.ok
      BY <2>6, <3>1, <3>2, <3>3
    <3>4. CASE ~q.ok
      <4>1. PICK d \in DeleteReplies(q.to, q.late) : r = [d EXCEPT !.ok = FALSE]
        BY <3>1, <3>4
      <4>2. d \in Reply
        BY <3>2, DeleteReply DEF Reply
      <4> QED
        BY <4>1, <4>2 DEF Reply
    <3> QED
      BY <3>3, <3>4
  <2> QED
    BY <2>4, <2>5, <2>6
<1> QED
  BY <1>1, <1>2

\* A reply decides about the identity on its node and nothing else.
LEMMA TookReply ==
  ASSUME TypeInv, NEW n \in Node, NEW r \in Reply, Took(n, r)
  PROVE  /\ ident' \in [Node -> Identity] /\ late' \in [Node -> BOOLEAN]
         /\ ident'[n] = r.to /\ late'[n] = r.late
         /\ \A m \in Node \ {n} : ident'[m] = ident[m] /\ late'[m] = late[m]
BY DEF TypeInv, Took, Reply

-----------------------------------------------------------------------------
(* How a walk moves. *)

\* The walk has passed a node.
LEMMA Passes ==
  ASSUME TypeInv, NEW a \in Actor, NEW n \in Node, NEW ok \in BOOLEAN, Goes(a, n, ok)
  PROVE  /\ walk' \in [Actor -> Walk]
         /\ \A b \in Actor \ {a} : walk'[b] = walk[b]
         /\ walk'[a].op = walk[a].op /\ walk'[a].phase = walk[a].phase /\ walk'[a].id = walk[a].id
         /\ walk'[a].on = walk[a].on /\ walk'[a].goal = walk[a].goal /\ walk'[a].added = walk[a].added
         /\ walk'[a].left = walk[a].left \ {n}
<1> DEFINE w == walk[a]
           left == w.left \ {n}
           all == w.ok /\ ok
           done == IF ok /\ w.op # "status" THEN w.done \cup {n} ELSE w.done
<1>1. w \in Walk /\ left \subseteq Node /\ all \in BOOLEAN /\ done \subseteq Node
  BY DEF TypeInv, Walk
<1>2. walk' = [walk EXCEPT ![a] = [w EXCEPT !.left = left, !.ok = all, !.done = done]]
  BY DEF Goes, TypeInv, Walk
<1> HIDE DEF left, all, done
<1>3. [w EXCEPT !.left = left, !.ok = all, !.done = done] \in Walk
  BY <1>1 DEF Walk
<1>4. /\ walk' \in [Actor -> Walk]
      /\ \A b \in Actor \ {a} : walk'[b] = walk[b]
      /\ walk'[a] = [w EXCEPT !.left = left, !.ok = all, !.done = done]
  BY <1>2, <1>3 DEF TypeInv
<1> HIDE DEF w
<1>5. /\ walk'[a].op = w.op /\ walk'[a].phase = w.phase /\ walk'[a].id = w.id
      /\ walk'[a].on = w.on /\ walk'[a].goal = w.goal /\ walk'[a].added = w.added
      /\ walk'[a].left = left /\ walk'[a].ok = all /\ walk'[a].done = done
  BY <1>1, <1>4 DEF Walk
<1> QED
  BY <1>4, <1>5 DEF w, left

\* A request that begins beside nothing has nobody in its company, and nobody
\* else is without.
LEMMA Starts ==
  ASSUME Inv, NEW a \in Actor, NEW w \in Walk, w.op # "idle", Begins(a, w)
  PROVE  /\ walk' \in [Actor -> Walk] /\ walk'[a] = w
         /\ \A b \in Actor \ {a} : walk'[b] = walk[b]
         /\ company' \subseteq Actor /\ requests' \in Nat
         /\ \A b \in Actor \ company' : walk'[b].op # "idle" =>
              b = a /\ repair = Resting /\ \A c \in Actor \ {a} : ~Busy(c)
<1>1. /\ walk' \in [Actor -> Walk] /\ walk'[a] = w
      /\ \A b \in Actor \ {a} : walk'[b] = walk[b]
  BY DEF Inv, TypeInv, Begins
<1>2. company' \subseteq Actor /\ requests' \in Nat
  BY DEF Inv, TypeInv, Begins, Running
<1>3. \A b \in Actor : b \in Running <=> Busy(b)
  BY DEF Inv, ByOp, Running, Busy, Idle
<1>4. CASE Running = {} /\ repair = Resting
  BY <1>1, <1>2, <1>3, <1>4 DEF Busy
<1>5. CASE ~(Running = {} /\ repair = Resting)
  <2>1. company' = company \cup Running \cup {a}
    BY <1>5 DEF Begins
  <2> QED
    BY <1>1, <1>2, <1>3, <2>1 DEF Busy
<1> QED
  BY <1>4, <1>5

\* What happens outside of a walk that runs alone does not touch what it knows.
LEMMA Undisturbed ==
  ASSUME NEW a \in Actor, Knows(a), walk'[a] = walk[a], row' = row,
         \A n \in Node : late[n] \/ (ident'[n] = ident[n] /\ ~late'[n]),
         TypeInv
  PROVE  Knows(a)'
<1>1. Assigned(row) \subseteq Node /\ walk[a].done \subseteq Node
  BY DEF Assigned, TypeInv, Walk
<1>2. walk[a].op = "status" => KnowsStatus(a)'
  BY <1>1 DEF Knows, KnowsStatus, Assigned
<1>3. walk[a].op = "create" => KnowsDone(a, Built)'
  BY <1>1 DEF Knows, KnowsDone, Built
<1>4. walk[a].op = "delete" => KnowsDone(a, Absent)'
  BY <1>1 DEF Knows, KnowsDone, Absent
<1>5. walk[a].op = "nodes" /\ walk[a].phase = "disable" => KnowsDisable(a)'
  BY <1>1 DEF Knows, KnowsDisable, MyRow, Assigned, NodeSets
<1>6. walk[a].op = "nodes" /\ walk[a].phase = "restore" => KnowsRestore(a)'
  BY <1>1 DEF Knows, KnowsRestore, Assigned
<1>7. walk[a].op = "nodes" /\ walk[a].phase = "provision" => KnowsProvision(a)'
  BY <1>1 DEF Knows, KnowsProvision, Assigned
<1> QED
  BY <1>2, <1>3, <1>4, <1>5, <1>6, <1>7 DEF Knows

-----------------------------------------------------------------------------
(* The five ways a step can go: a request begins, moves or ends, somebody    *)
(* joins, or a build is done that nobody waits for.                          *)

LEMMA IdleKnows ==
  ASSUME NEW a \in Actor, ~Busy(a)
  PROVE  Knows(a)
BY DEF Busy, Knows

LEMMA BeginStep ==
  ASSUME Inv, NEW a \in Actor, NEW w \in Walk, w.op # "idle", Begins(a, w),
         row' \in Row \cup {None}, UNCHANGED <<ident, late, repair>>, Knows(a)'
  PROVE  Inv'
<1>1. /\ walk' \in [Actor -> Walk] /\ walk'[a] = w
      /\ \A b \in Actor \ {a} : walk'[b] = walk[b]
      /\ company' \subseteq Actor /\ requests' \in Nat
      /\ \A b \in Actor \ company' : walk'[b].op # "idle" =>
           b = a /\ repair = Resting /\ \A c \in Actor \ {a} : ~Busy(c)
  BY Starts
<1>2. TypeInv'
  BY <1>1 DEF Inv, TypeInv
<1>3. ByOp'
  BY <1>1 DEF Inv, ByOp, Busy
<1>4. Alone'
  BY <1>1 DEF Alone, Busy, Resting
<1>5. \A b \in Actor \ company' : walk'[b].op = "idle" \/ b = a
  BY <1>1
<1>6. KnowsInv'
  BY <1>5 DEF KnowsInv, Knows
<1> QED
  BY <1>2, <1>3, <1>4, <1>6 DEF Inv

LEMMA WalkStep ==
  ASSUME Inv, NEW a \in Actor, Busy(a),
         walk' \in [Actor -> Walk], walk'[a].op = walk[a].op,
         \A b \in Actor \ {a} : walk'[b] = walk[b],
         row' \in Row \cup {None}, ident' \in [Node -> Identity], late' \in [Node -> BOOLEAN],
         UNCHANGED <<repair, company, requests>>,
         a \notin company /\ Knows(a) => Knows(a)'
  PROVE  Inv'
<1>1. TypeInv'
  BY DEF Inv, TypeInv
<1>2. ByOp'
  BY DEF Inv, ByOp, Busy
<1>3. Alone'
  BY DEF Inv, Alone, Busy, Resting
<1>4. \A b \in Actor \ company : b = a \/ walk'[b].op = "idle"
  BY DEF Inv, Alone, Busy
<1>5. KnowsInv'
  BY <1>4 DEF Inv, KnowsInv, Knows
<1> QED
  BY <1>1, <1>2, <1>3, <1>5 DEF Inv

LEMMA EndStep ==
  ASSUME Inv, NEW a \in Actor, Busy(a), Ends(a), row' \in Row \cup {None}
  PROVE  Inv'
<1>1. Idle \in Walk /\ Idle.op = "idle"
  BY DEF Idle, Walk
<1>2. /\ walk' \in [Actor -> Walk] /\ walk'[a] = Idle
      /\ \A b \in Actor \ {a} : walk'[b] = walk[b]
      /\ company' = company \ {a} /\ UNCHANGED <<ident, late, repair, requests>>
  BY <1>1 DEF Inv, TypeInv, Ends
<1>3. TypeInv'
  BY <1>2 DEF Inv, TypeInv
<1>4. ByOp'
  BY <1>2 DEF Inv, ByOp, Busy
<1>5. \A b \in Actor \ company' : walk'[b].op = "idle"
  BY <1>1, <1>2 DEF Inv, Alone, Busy
<1> QED
  BY <1>3, <1>4, <1>5 DEF Inv, Alone, KnowsInv, Knows, Busy

LEMMA JoinStep ==
  ASSUME Inv, walk' = walk, TypeInv', \A b \in Actor \ company' : ~Busy(b)
  PROVE  Inv'
BY DEF Inv, ByOp, Alone, KnowsInv, Knows, Busy

LEMMA OutsideStep ==
  ASSUME Inv, UNCHANGED <<row, walk, repair, company, requests>>,
         ident' \in [Node -> Identity], late' \in [Node -> BOOLEAN],
         \A n \in Node : late[n] \/ (ident'[n] = ident[n] /\ ~late'[n])
  PROVE  Inv'
<1>1. TypeInv' /\ ByOp' /\ Alone'
  BY DEF Inv, TypeInv, ByOp, Alone, Busy, Resting
<1>2. ASSUME NEW a \in Actor \ company  PROVE Knows(a)'
  BY Undisturbed DEF Inv, KnowsInv
<1>3. KnowsInv'
  BY <1>2 DEF KnowsInv
<1> QED
  BY <1>1, <1>3 DEF Inv

-----------------------------------------------------------------------------
(* A status, from beginning to end. *)

LEMMA IdleWalk ==
  Idle \in Walk
BY DEF Idle, Walk

LEMMA RowTypes ==
  ASSUME TypeInv
  PROVE  /\ Assigned(row) \subseteq Node
         /\ row # None => row \in Row
BY DEF TypeInv, Assigned

LEMMA StatusBegins ==
  ASSUME Inv, row # None, NEW a \in Actor, NEW r, r \in Row, NEW on \in BOOLEAN,
         NEW tells \in BOOLEAN, Begins(a, StatusWalk(r, on, tells)),
         row' = r, UNCHANGED <<ident, late, repair>>
  PROVE  Inv'
<1> DEFINE w == StatusWalk(r, on, tells)
<1>1. Assigned(r) \subseteq Node /\ r.id \in Nat
  BY DEF Assigned, Row
<1>2. w \in Walk /\ w.op = "status" /\ w.phase = "nodes" /\ w.left = Assigned(r)
  BY <1>1, IdleWalk DEF StatusWalk, Idle, Walk
<1>3. walk'[a] = w
  BY DEF Inv, TypeInv, Begins
<1> HIDE DEF w
<1>4. Knows(a)'
  BY <1>2, <1>3 DEF Knows, KnowsStatus, Assigned
<1> QED
  BY <1>2, <1>4, BeginStep DEF w

LEMMA StatusSteps ==
  ASSUME Inv, NEW a \in Actor, NEW on \in BOOLEAN, NEW n,
         \/ SetStatus(a, on) \/ Renew(a) \/ Edit(a, on) \/ Enforce \/ StatusDone(a)
         \/ n \in Node /\ (StatusSkipped(a, n) \/ StatusCall(a, n))
  PROVE  Inv'
<1>0. TypeInv
  BY DEF Inv
<1>1. CASE SetStatus(a, on)
  BY <1>0, <1>1, RowTypes, StatusBegins DEF SetStatus
<1>2. ASSUME NEW to \in BOOLEAN, row # None
      PROVE  /\ [row EXCEPT !.active = to] \in Row
             /\ Assigned([row EXCEPT !.active = to]) = Assigned(row)
             /\ [row EXCEPT !.active = to].id = row.id
  BY <1>0, <1>2, RowTypes DEF Row, Assigned
<1>3. CASE Renew(a) \/ Edit(a, on)
  <2>1. PICK to \in BOOLEAN, tells \in BOOLEAN :
               /\ row # None /\ Begins(a, StatusWalk(row, to, tells))
               /\ row' = [row EXCEPT !.active = to]
               /\ UNCHANGED <<ident, late, repair>>
    BY <1>3 DEF Renew, Edit
  <2> DEFINE new == [row EXCEPT !.active = to]
  <2>2. new \in Row /\ StatusWalk(row, to, tells) = StatusWalk(new, to, tells) /\ row' = new
    BY <1>2, <2>1 DEF StatusWalk
  <2> HIDE DEF new
  <2>3. Begins(a, StatusWalk(new, to, tells))
    BY <2>1, <2>2
  <2> QED
    BY <2>1, <2>2, <2>3, StatusBegins
<1>4. CASE Enforce
  BY <1>0, <1>4, RowTypes, StatusBegins DEF Enforce, Actor
<1>5. CASE n \in Node /\ (StatusSkipped(a, n) \/ StatusCall(a, n))
  <2>1. Turn(a, "status", "nodes", n)
    BY <1>5 DEF StatusSkipped, StatusCall
  <2>2. PICK ok \in BOOLEAN :
          /\ Goes(a, n, ok)
          /\ ident' \in [Node -> Identity] /\ late' \in [Node -> BOOLEAN]
          /\ \A m \in Node \ {n} : ident'[m] = ident[m] /\ late'[m] = late[m]
          /\ ok => ident'[n].ccd = walk[a].on /\ ~late'[n]
    <3>1. CASE StatusSkipped(a, n)
      BY <1>0, <3>1 DEF StatusSkipped, TypeInv
    <3>2. CASE StatusCall(a, n)
      <4>1. ident[n] \in Identity /\ late[n] \in BOOLEAN /\ walk[a].on \in BOOLEAN
        BY <1>0, <1>5 DEF TypeInv, Walk
      <4>2. PICK r \in StatusReplies(ident[n], late[n], walk[a].on) : Took(n, r) /\ Goes(a, n, r.ok)
        BY <3>2 DEF StatusCall
      <4>3. r \in Reply /\ (r.ok => r.to.ccd = walk[a].on /\ ~r.late)
        BY <4>1, StatusReply
      <4> QED
        BY <1>0, <1>5, <4>2, <4>3, TookReply DEF Reply
    <3> QED
      BY <1>5, <3>1, <3>2
  <2>3. /\ walk' \in [Actor -> Walk] /\ \A b \in Actor \ {a} : walk'[b] = walk[b]
        /\ walk'[a].op = walk[a].op /\ walk'[a].on = walk[a].on /\ walk'[a].phase = walk[a].phase
        /\ walk'[a].left = walk[a].left \ {n} /\ (walk'[a].ok = TRUE => walk[a].ok = TRUE /\ ok = TRUE)
    <3>1. walk'[a].ok = TRUE => walk[a].ok = TRUE /\ ok = TRUE
      BY <1>0, <2>2 DEF Goes, TypeInv, Walk
    <3> QED
      BY <1>0, <1>5, <2>2, <3>1, Passes
  <2>4. Knows(a) => Knows(a)'
    <3>1. walk[a].op = "status" /\ row' = row
      BY <2>1 DEF Turn
    <3>2. KnowsStatus(a) => KnowsStatus(a)'
      BY <1>0, <1>5, <2>2, <2>3, <3>1, RowTypes DEF KnowsStatus, Assigned
    <3> QED
      BY <2>3, <3>1, <3>2 DEF Knows
  <2> QED
    BY <1>0, <2>1, <2>2, <2>3, <2>4, WalkStep DEF Turn, Busy, TypeInv
<1>6. CASE StatusDone(a)
  <2>1. row' \in Row \cup {None}
    BY <1>0, <1>6 DEF StatusDone, MyRow, TypeInv, Row, Walk
  <2> QED
    BY <1>6, <2>1, EndStep DEF StatusDone, AllPassed, Busy
<1> QED
  BY <1>1, <1>3, <1>4, <1>5, <1>6

-----------------------------------------------------------------------------
(* Creating and deleting. *)

LEMMA NodeSetTypes ==
  /\ {} \subseteq Node \cup {Elsewhere}
  /\ \A S \in NodeSets : S # {} /\ S \subseteq Node \cup {Elsewhere}
<1>1. ASSUME NEW S \in NodeSets  PROVE S # {} /\ S \subseteq Node \cup {Elsewhere}
  <2>1. CASE S \in (SUBSET Node) \ {{}}
    BY <2>1
  <2>2. CASE S = {Elsewhere}
    BY <2>2
  <2> QED
    BY <2>1, <2>2 DEF NodeSets
<1> QED
  BY <1>1

LEMMA NewRows ==
  ASSUME TypeInv, NEW S, S \subseteq Node \cup {Elsewhere}
  PROVE  NewRow(S) \in Row
BY DEF NewRow, Row, TypeInv

LEMMA DoneBegins ==
  ASSUME Inv, NEW a \in Actor, NEW w \in Walk, w.op \in {"create", "delete"}, w.done = {},
         Begins(a, w), row' \in Row \cup {None}, UNCHANGED <<ident, late, repair>>
  PROVE  Inv'
<1>1. walk'[a] = w
  BY DEF Inv, TypeInv, Begins
<1>2. Knows(a)'
  BY <1>1 DEF Knows, KnowsDone
<1> QED
  BY <1>2, BeginStep

\* A node that has been passed is one the reply says so of.
LEMMA DoneSteps ==
  ASSUME Inv, NEW a \in Actor, NEW n \in Node, NEW op \in {"create", "delete"}, NEW ok \in BOOLEAN,
         Turn(a, op, "nodes", n), Goes(a, n, ok),
         ident' \in [Node -> Identity], late' \in [Node -> BOOLEAN],
         \A m \in Node \ {n} : ident'[m] = ident[m] /\ late'[m] = late[m],
         ok => ~late'[n] /\ ident'[n] = IF op = "create" THEN Built ELSE Absent
  PROVE  Inv'
<1>0. TypeInv /\ walk[a] \in Walk
  BY DEF Inv, TypeInv
<1>1. /\ walk' \in [Actor -> Walk] /\ \A b \in Actor \ {a} : walk'[b] = walk[b]
      /\ walk'[a].op = walk[a].op
      /\ walk'[a].left = walk[a].left \ {n}
  BY <1>0, Passes
<1>7. /\ (ok = TRUE /\ walk[a].op # "status" => walk'[a].done = walk[a].done \cup {n})
      /\ (ok = FALSE => walk'[a].done = walk[a].done)
  BY <1>0 DEF Goes, TypeInv, Walk
<1>2. walk[a].op = op /\ n \in walk[a].left /\ UNCHANGED <<row, repair, company, requests>>
  BY DEF Turn
<1>3. ASSUME NEW id, KnowsDone(a, id), ok => ident'[n] = id
      PROVE  /\ walk'[a].done \cap walk'[a].left = {}
             /\ \A m \in walk'[a].done : ident'[m] = id /\ ~late'[m]
  BY <1>0, <1>1, <1>2, <1>3, <1>7 DEF KnowsDone, Walk
<1>4. op = "create" /\ KnowsDone(a, Built) => KnowsDone(a, Built)'
  BY <1>3 DEF KnowsDone, Built
<1>5. op = "delete" /\ KnowsDone(a, Absent) => KnowsDone(a, Absent)'
  BY <1>3 DEF KnowsDone, Absent
<1>6. Knows(a) => Knows(a)'
  BY <1>1, <1>2, <1>4, <1>5 DEF Knows
<1> QED
  BY <1>0, <1>1, <1>2, <1>6, WalkStep DEF Busy, TypeInv

LEMMA CreateSteps ==
  ASSUME Inv, Between, NEW a \in Actor, NEW S, NEW n,
         \/ Create(S) \/ CreateBare(S) \/ SetUserNodes \/ CreateDone(a) \/ CreateRaises(a)
         \/ n \in Node /\ (CreateSkipped(a, n) \/ CreateCall(a, n))
  PROVE  Inv'
<1>0. TypeInv
  BY DEF Inv
<1>1. CASE Create(S) \/ CreateBare(S)
  <2>1. PICK b \in Actor, phase \in {"nodes", "assign"}, T \in {S, {}} :
          /\ S \in NodeSets /\ Begins(b, CreateWalk(phase, S)) /\ row' = NewRow(T)
          /\ UNCHANGED <<ident, late, repair>>
    BY <1>1 DEF Create, CreateBare, Actor
  <2> DEFINE w == CreateWalk(phase, S)
  <2>2. w \in Walk /\ w.op = "create" /\ w.done = {}
    <3>1. S \subseteq Node \cup {Elsewhere} /\ S \cap Node \subseteq Node /\ requests + 1 \in Nat
      BY <1>0, <2>1, NodeSetTypes DEF TypeInv
    <3> QED
      BY <3>1 DEF CreateWalk, Idle, Walk
  <2>3. NewRow(T) \in Row
    BY <1>0, <2>1, NodeSetTypes, NewRows
  <2> HIDE DEF w
  <2>4. Begins(b, w)
    BY <2>1 DEF w
  <2> QED
    BY <2>1, <2>2, <2>3, <2>4, DoneBegins
<1>2. CASE SetUserNodes
  <2>1. "integration" \in Actor /\ walk["integration"].phase = "assign" /\ walk["integration"] \in Walk
    BY <1>0, <1>2 DEF SetUserNodes, BetweenCommits, Actor, TypeInv
  <2>2. walk["integration"].op # "idle"
    BY <2>1 DEF Inv, ByOp, Busy, Idle
  <2>3. /\ walk' \in [Actor -> Walk] /\ \A b \in Actor \ {"integration"} : walk'[b] = walk[b]
        /\ walk'["integration"] = [walk["integration"] EXCEPT !.phase = "nodes"]
    BY <1>0, <1>2, <2>1 DEF SetUserNodes, TypeInv, Walk
  <2>4. row' \in Row \cup {None}
    BY <1>2, <2>1 DEF SetUserNodes, Between, Row, Walk
  <2>5. Knows("integration") => Knows("integration")'
    <3>1. UNCHANGED <<ident, late>>
      BY <1>2 DEF SetUserNodes
    <3> QED
      BY <2>1, <2>3, <3>1 DEF Knows, KnowsStatus, KnowsDone, Walk, Built, Absent
  <2> QED
    BY <1>0, <1>2, <2>1, <2>2, <2>3, <2>4, <2>5, WalkStep DEF SetUserNodes, Busy, TypeInv, Walk
<1>3. CASE n \in Node /\ CreateSkipped(a, n)
  BY <1>0, <1>3, DoneSteps DEF CreateSkipped, TypeInv
<1>4. CASE n \in Node /\ CreateCall(a, n)
  <2>1. ident[n] \in Identity /\ late[n] \in BOOLEAN
    BY <1>0, <1>4 DEF TypeInv
  <2>2. PICK r \in BuildReplies(ident[n], late[n]) : Took(n, r) /\ Goes(a, n, r.ok)
    BY <1>4 DEF CreateCall
  <2>3. r \in Reply /\ (r.ok => r.to = Built /\ ~r.late)
    BY <2>1, BuildReply
  <2>4. r.ok \in BOOLEAN /\ Turn(a, "create", "nodes", n)
    BY <1>4, <2>3 DEF CreateCall, Reply
  <2> QED
    BY <1>0, <1>4, <2>2, <2>3, <2>4, TookReply, DoneSteps
<1>5. CASE CreateDone(a)
  BY <1>0, <1>5, EndStep DEF CreateDone, AllPassed, Busy, TypeInv
<1>6. CASE CreateRaises(a)
  BY <1>0, <1>6, EndStep DEF CreateRaises, Busy, TypeInv
<1> QED
  BY <1>1, <1>2, <1>3, <1>4, <1>5, <1>6

LEMMA DeleteSteps ==
  ASSUME Inv, NEW a \in Actor, NEW n, Delete(a) \/ DeleteDone(a) \/ (n \in Node /\ DeleteCall(a, n))
  PROVE  Inv'
<1>0. TypeInv
  BY DEF Inv
<1>1. CASE Delete(a)
  <2> DEFINE w == [Idle EXCEPT !.op = "delete", !.id = row.id, !.phase = "nodes",
                               !.left = IF a = "panel" THEN Node ELSE Assigned(row),
                               !.tells = a = "panel"]
  <2>1. row \in Row /\ Assigned(row) \subseteq Node /\ row.id \in Nat
    BY <1>0, <1>1, RowTypes DEF Delete, Row
  <2>2. w \in Walk /\ w.op = "delete" /\ w.done = {}
    BY <2>1, IdleWalk DEF Idle, Walk
  <2>3. Begins(a, w) /\ UNCHANGED <<row, ident, late, repair>>
    BY <1>1 DEF Delete
  <2> HIDE DEF w
  <2> QED
    BY <2>1, <2>2, <2>3, DoneBegins
<1>2. CASE n \in Node /\ DeleteCall(a, n)
  <2>1. ident[n] \in Identity /\ late[n] \in BOOLEAN
    BY <1>0, <1>2 DEF TypeInv
  <2>2. PICK r \in DeleteReplies(ident[n], late[n]) : Took(n, r) /\ Goes(a, n, r.ok)
    BY <1>2 DEF DeleteCall
  <2>3. r \in Reply /\ (r.ok => r.to = Absent /\ ~r.late)
    BY <2>1, DeleteReply
  <2>4. r.ok \in BOOLEAN /\ Turn(a, "delete", "nodes", n)
    BY <1>2, <2>3 DEF DeleteCall, Reply
  <2> QED
    BY <1>0, <1>2, <2>2, <2>3, <2>4, TookReply, DoneSteps
<1>3. CASE DeleteDone(a)
  BY <1>3, EndStep DEF DeleteDone, AllPassed, Busy
<1> QED
  BY <1>1, <1>2, <1>3

-----------------------------------------------------------------------------
(* A change of assignments. *)

PanelTo(p, L, D, G) ==
  walk' = [walk EXCEPT !["panel"] = [@ EXCEPT !.phase = p, !.left = L, !.done = D, !.goal = G]]

\* What stays as it is in a walk whose phase, nodes and report are set anew.
LEMMA PanelWalk ==
  ASSUME TypeInv, NEW p \in {"restore", "provision"}, NEW L \in SUBSET Node, NEW D \in SUBSET Node,
         NEW G \in SUBSET (Node \cup {Elsewhere}),
         PanelTo(p, L, D, G)
  PROVE  /\ walk' \in [Actor -> Walk]
         /\ \A b \in Actor \ {"panel"} : walk'[b] = walk[b]
         /\ walk'["panel"].op = walk["panel"].op /\ walk'["panel"].phase = p
         /\ walk'["panel"].left = L /\ walk'["panel"].done = D /\ walk'["panel"].goal = G
         /\ walk'["panel"].on = walk["panel"].on
<1>1. walk["panel"] \in Walk /\ "panel" \in Actor
  BY DEF TypeInv, Actor
<1> QED
  BY <1>1 DEF TypeInv, Walk, PanelTo

LEMMA MoveBegins ==
  ASSUME Inv, NEW S, Move(S)
  PROVE  Inv'
<1> DEFINE w == [Idle EXCEPT !.op = "nodes", !.id = row.id, !.phase = "disable", !.on = row.active,
                             !.goal = S, !.left = Assigned(row) \ S, !.added = (S \cap Node) \ Assigned(row),
                             !.tells = TRUE]
<1>1. /\ row \in Row /\ row # None /\ S \in NodeSets /\ Begins("panel", w)
      /\ UNCHANGED <<row, ident, late, repair>> /\ Assigned(row) \subseteq Node /\ "panel" \in Actor
  BY RowTypes DEF Inv, Move, Actor
<1>2. row.id \in Nat /\ row.active \in BOOLEAN /\ S \subseteq Node \cup {Elsewhere}
  BY <1>1, NodeSetTypes DEF Row
<1>3. /\ w \in Walk /\ w.op = "nodes" /\ w.phase = "disable" /\ w.id = row.id /\ w.goal = S /\ w.done = {}
      /\ w.left = Assigned(row) \ S /\ w.added = (S \cap Node) \ Assigned(row)
  BY <1>1, <1>2, IdleWalk DEF Idle, Walk
<1>4. Begins("panel", w)
  BY <1>1
<1> HIDE DEF w
<1>5. walk'["panel"] = w
  BY <1>1, <1>4 DEF Inv, TypeInv, Begins
<1>6. KnowsDisable("panel")'
  BY <1>1, <1>3, <1>5 DEF KnowsDisable, MyRow, Assigned, NodeSets
<1>7. Knows("panel")'
  BY <1>3, <1>5, <1>6 DEF Knows
<1> QED
  BY <1>1, <1>3, <1>4, <1>7, BeginStep

LEMMA MoveEnds ==
  ASSUME Inv, CommitNodes \/ MoveFailed \/ MoveDone
  PROVE  Inv'
<1> DEFINE w == walk["panel"]
<1>0. TypeInv /\ "panel" \in Actor /\ w \in Walk
  BY DEF Inv, TypeInv, Actor
<1>1. /\ w.left \subseteq Node /\ w.done \subseteq Node /\ w.goal \subseteq Node \cup {Elsewhere}
      /\ w.added \subseteq Node /\ Assigned(row) \subseteq Node
  BY <1>0, RowTypes DEF Walk, TypeInv
<1>2. CASE MoveFailed \/ MoveDone
  BY <1>0, <1>2, EndStep DEF MoveFailed, MoveDone, AllPassed, Busy, TypeInv
<1>3. CASE CommitNodes
  <2>1. /\ w.op = "nodes" /\ w.phase = "disable" /\ w.left = {}
        /\ row' = IF MyRow("panel") THEN [row EXCEPT !.nodes = w.goal] ELSE row
        /\ UNCHANGED <<ident, late, repair, company, requests>>
    BY <1>3 DEF CommitNodes, AllPassed
  <2>2. PanelTo("provision", w.added, {}, w.done)
    BY <1>0, <1>3 DEF PanelTo, CommitNodes, TypeInv, Walk
  <2>3. /\ walk' \in [Actor -> Walk] /\ \A b \in Actor \ {"panel"} : walk'[b] = walk[b]
        /\ walk'["panel"].op = w.op /\ walk'["panel"].phase = "provision"
        /\ walk'["panel"].left = w.added /\ walk'["panel"].done = {} /\ walk'["panel"].goal = w.done
    <3>1. PICK L \in SUBSET Node, D \in SUBSET Node, G \in SUBSET (Node \cup {Elsewhere}) :
            L = w.added /\ D = {} /\ G = w.done
      BY <1>1
    <3>2. PanelTo("provision", L, D, G)
      BY <2>2, <3>1
    <3> QED
      BY <1>0, <3>1, <3>2, PanelWalk
  <2>4. row' \in Row \cup {None}
    BY <1>0, <1>1, <2>1 DEF MyRow, TypeInv, Row
  <2>5. KnowsDisable("panel") => KnowsProvision("panel")'
    <3> SUFFICES ASSUME KnowsDisable("panel")  PROVE KnowsProvision("panel")'
      OBVIOUS
    <3>1. MyRow("panel") /\ w.goal \in NodeSets /\ w.done = Assigned(row) \ w.goal
      BY <2>1 DEF KnowsDisable
    <3>2. row \in Row /\ w.goal # {}
      BY <1>0, <3>1, NodeSetTypes, RowTypes DEF MyRow
    <3>3. row' = [row EXCEPT !.nodes = w.goal] /\ row'.nodes = w.goal
      BY <2>1, <3>1, <3>2 DEF Row
    <3>4. Assigned(row)' = w.goal \cap Node
      BY <3>2, <3>3 DEF Assigned
    <3>5. w.done \cap Assigned(row)' = {} /\ w.done \cap w.added = {}
      BY <3>1, <3>4 DEF KnowsDisable
    <3> QED
      BY <1>1, <2>1, <2>3, <3>5 DEF KnowsProvision, KnowsDisable
  <2>6. Knows("panel") => Knows("panel")'
    BY <2>1, <2>3, <2>5 DEF Knows
  <2> QED
    BY <1>0, <2>1, <2>3, <2>4, <2>6, WalkStep DEF Busy, TypeInv
<1> QED
  BY <1>2, <1>3

LEMMA MoveSteps ==
  ASSUME Inv, NEW n \in Node,
         DisableRefused(n) \/ DisableCall(n) \/ RestoreCall(n) \/ Provision(n)
  PROVE  Inv'
<1> DEFINE w == walk["panel"]
<1>0. TypeInv /\ "panel" \in Actor /\ w \in Walk
  BY DEF Inv, TypeInv, Actor
<1>1. /\ w.left \subseteq Node /\ w.done \subseteq Node /\ w.goal \subseteq Node \cup {Elsewhere}
      /\ w.added \subseteq Node /\ w.on \in BOOLEAN /\ w.ok \in BOOLEAN
      /\ ident[n] \in Identity /\ late[n] \in BOOLEAN /\ Assigned(row) \subseteq Node
  BY <1>0, RowTypes DEF Walk, TypeInv
<1>2. ASSUME Turn("panel", "nodes", "disable", n), GivesUp,
             ident' \in [Node -> Identity], late' \in [Node -> BOOLEAN],
             \A m \in Node \ {n} : ident'[m] = ident[m] /\ late'[m] = late[m]
      PROVE  Inv'
  <2> DEFINE L == IF w.on THEN w.done ELSE {}
             D == IF w.on THEN w.done ELSE {}
  <2>1. L \in SUBSET Node /\ D \in SUBSET Node /\ L = D /\ D \subseteq w.done
    BY <1>1
  <2>2. PanelTo("restore", L, D, w.goal)
    BY <1>0, <1>2 DEF PanelTo, GivesUp, TypeInv, Walk
  <2> HIDE DEF L, D
  <2>3. /\ walk' \in [Actor -> Walk] /\ \A b \in Actor \ {"panel"} : walk'[b] = walk[b]
        /\ walk'["panel"].op = w.op /\ walk'["panel"].phase = "restore"
        /\ walk'["panel"].left = L /\ walk'["panel"].done = D
    BY <1>0, <1>1, <2>1, <2>2, PanelWalk
  <2>4. w.op = "nodes" /\ w.phase = "disable" /\ n \in w.left /\ UNCHANGED <<row, repair, company, requests>>
    BY <1>2 DEF Turn
  <2>5. KnowsDisable("panel") => KnowsRestore("panel")'
    BY <1>1, <1>2, <2>1, <2>3, <2>4 DEF KnowsDisable, KnowsRestore, Assigned
  <2>6. Knows("panel") => Knows("panel")'
    BY <2>3, <2>4, <2>5 DEF Knows
  <2> QED
    BY <1>0, <1>2, <2>3, <2>4, <2>6, WalkStep DEF Busy, TypeInv
<1>3. CASE DisableRefused(n)
  BY <1>0, <1>2, <1>3 DEF DisableRefused, TypeInv
<1>4. CASE DisableCall(n)
  <2>1. PICK r \in StatusReplies(ident[n], late[n], FALSE) :
          Took(n, r) /\ IF r.ok THEN Goes("panel", n, TRUE) ELSE GivesUp
    BY <1>4 DEF DisableCall
  <2>2. r \in Reply /\ (r.ok => r.to.ccd = FALSE /\ ~r.late)
    BY <1>1, StatusReply
  <2>3. /\ ident' \in [Node -> Identity] /\ late' \in [Node -> BOOLEAN]
        /\ ident'[n] = r.to /\ late'[n] = r.late
        /\ \A m \in Node \ {n} : ident'[m] = ident[m] /\ late'[m] = late[m]
    BY <1>0, <2>1, <2>2, TookReply
  <2>4. Turn("panel", "nodes", "disable", n)
    BY <1>4 DEF DisableCall
  <2>5. CASE ~r.ok
    BY <1>2, <2>1, <2>3, <2>4, <2>5
  <2>6. CASE r.ok
    <3>1. Goes("panel", n, TRUE)
      BY <2>1, <2>6
    <3>2. /\ walk' \in [Actor -> Walk] /\ \A b \in Actor \ {"panel"} : walk'[b] = walk[b]
          /\ walk'["panel"].op = w.op /\ walk'["panel"].phase = w.phase /\ walk'["panel"].id = w.id
          /\ walk'["panel"].goal = w.goal /\ walk'["panel"].added = w.added
          /\ walk'["panel"].left = w.left \ {n}
      BY <1>0, <3>1, Passes
    <3>3. w.op = "nodes" /\ w.phase = "disable" /\ n \in w.left /\ UNCHANGED <<row, repair, company, requests>>
      BY <2>4 DEF Turn
    <3>4. walk'["panel"].done = w.done \cup {n}
      BY <1>0, <3>1, <3>3 DEF Goes, TypeInv, Walk
    <3>5. KnowsDisable("panel") => KnowsDisable("panel")'
      <4>1. SUFFICES ASSUME KnowsDisable("panel")  PROVE KnowsDisable("panel")'
        OBVIOUS
      <4>2. MyRow("panel")' /\ (walk["panel"].goal \in NodeSets)'
        BY <3>2, <3>3, <4>1 DEF KnowsDisable, MyRow, NodeSets
      <4>3. walk'["panel"].left \cup walk'["panel"].done = w.left \cup w.done
        BY <3>2, <3>3, <3>4
      <4> QED
        BY <2>2, <2>3, <2>6, <3>2, <3>3, <3>4, <4>1, <4>2, <4>3 DEF KnowsDisable, Assigned
    <3>6. Knows("panel") => Knows("panel")'
      BY <3>2, <3>3, <3>5 DEF Knows
    <3> QED
      BY <1>0, <2>3, <3>2, <3>3, <3>6, WalkStep DEF Busy, TypeInv
  <2> QED
    BY <2>5, <2>6
<1>5. CASE RestoreCall(n)
  <2>1. PICK r \in StatusReplies(ident[n], late[n], TRUE) :
          /\ Took(n, r)
          /\ walk' = [walk EXCEPT !["panel"].left = @ \ {n},
                                  !["panel"].done = IF r.ok THEN @ ELSE @ \ {n}]
    BY <1>5 DEF RestoreCall
  <2>2. r \in Reply /\ (r.ok => r.to.ccd = TRUE /\ ~r.late)
    BY <1>1, StatusReply
  <2>3. /\ ident' \in [Node -> Identity] /\ late' \in [Node -> BOOLEAN]
        /\ ident'[n] = r.to /\ late'[n] = r.late
        /\ \A m \in Node \ {n} : ident'[m] = ident[m] /\ late'[m] = late[m]
    BY <1>0, <2>1, <2>2, TookReply
  <2>4. w.op = "nodes" /\ w.phase = "restore" /\ n \in w.left /\ UNCHANGED <<row, repair, company, requests>>
    BY <1>5 DEF RestoreCall, Turn
  <2> DEFINE L == w.left \ {n}
             D == IF r.ok THEN w.done ELSE w.done \ {n}
  <2>5. L \in SUBSET Node /\ D \in SUBSET Node /\ D \subseteq w.done /\ (n \in D => r.ok)
    BY <1>1
  <2>6. PanelTo("restore", L, D, w.goal)
    <3>1. walk' = [walk EXCEPT !["panel"] = [w EXCEPT !.left = L, !.done = D]]
      BY <1>0, <2>1 DEF TypeInv
    <3>2. [w EXCEPT !.left = L, !.done = D] = [w EXCEPT !.phase = "restore", !.left = L, !.done = D, !.goal = w.goal]
      <4> HIDE DEF L, D
      <4> QED
        BY <1>0, <2>4 DEF Walk
    <3> QED
      BY <3>1, <3>2 DEF PanelTo
  <2>7. /\ walk' \in [Actor -> Walk] /\ \A b \in Actor \ {"panel"} : walk'[b] = walk[b]
        /\ walk'["panel"].op = w.op /\ walk'["panel"].phase = "restore"
        /\ walk'["panel"].left = L /\ walk'["panel"].done = D
    <3> HIDE DEF L, D
    <3> QED
      BY <1>0, <1>1, <2>5, <2>6, PanelWalk
  <2>8. KnowsRestore("panel") => KnowsRestore("panel")'
    <3> SUFFICES ASSUME KnowsRestore("panel")  PROVE KnowsRestore("panel")'
      OBVIOUS
    <3>1. walk'["panel"].done \subseteq Assigned(row)'
      BY <2>4, <2>5, <2>7 DEF KnowsRestore, Assigned
    <3>2. ASSUME NEW m \in walk'["panel"].done
          PROVE  ~late'[m] /\ (m \in walk'["panel"].left \/ ident'[m].ccd)
      <4>1. m \in w.done /\ m \in Node /\ m \in D
        BY <1>1, <2>5, <2>7, <3>2
      <4>2. CASE m = n
        BY <2>2, <2>3, <2>5, <4>1, <4>2
      <4>3. CASE m # n
        BY <2>3, <2>7, <4>1, <4>3 DEF KnowsRestore
      <4> QED
        BY <4>2, <4>3
    <3> QED
      BY <3>1, <3>2 DEF KnowsRestore
  <2>9. Knows("panel") => Knows("panel")'
    BY <2>4, <2>7, <2>8 DEF Knows
  <2> QED
    BY <1>0, <2>3, <2>4, <2>7, <2>9, WalkStep DEF Busy, TypeInv
<1>6. CASE Provision(n)
  <2>1. PICK r \in ProvisionReplies(ident[n], late[n], w.on) : Took(n, r) /\ Goes("panel", n, r.ok)
    BY <1>6 DEF Provision
  <2>2. r \in Reply /\ (r.ok => r.to.ccd = w.on /\ ~r.late)
    BY <1>1, ProvisionReply
  <2>3. /\ ident' \in [Node -> Identity] /\ late' \in [Node -> BOOLEAN]
        /\ ident'[n] = r.to /\ late'[n] = r.late
        /\ \A m \in Node \ {n} : ident'[m] = ident[m] /\ late'[m] = late[m]
    BY <1>0, <2>1, <2>2, TookReply
  <2>4. w.op = "nodes" /\ w.phase = "provision" /\ n \in w.left /\ UNCHANGED <<row, repair, company, requests>>
    BY <1>6 DEF Provision, Turn
  <2>5. PICK ok \in BOOLEAN : ok = r.ok
    BY <2>2 DEF Reply
  <2>6. /\ walk' \in [Actor -> Walk] /\ \A b \in Actor \ {"panel"} : walk'[b] = walk[b]
        /\ walk'["panel"].op = w.op /\ walk'["panel"].phase = w.phase
        /\ walk'["panel"].on = w.on /\ walk'["panel"].goal = w.goal
        /\ walk'["panel"].left = w.left \ {n}
    BY <1>0, <2>1, <2>5, Passes
  <2>7. /\ (ok = TRUE => walk'["panel"].done = w.done \cup {n})
        /\ (ok = FALSE => walk'["panel"].done = w.done)
    BY <1>0, <2>1, <2>4, <2>5 DEF Goes, TypeInv, Walk
  <2>8. KnowsProvision("panel") => KnowsProvision("panel")'
    <3> SUFFICES ASSUME KnowsProvision("panel")  PROVE KnowsProvision("panel")'
      OBVIOUS
    <3>1. n \notin w.done /\ n \notin w.goal /\ Assigned(row)' = Assigned(row)
      BY <2>4 DEF KnowsProvision, Assigned
    <3>2. walk'["panel"].done \subseteq w.done \cup {n}
      BY <2>7
    <3>3. \A m \in walk'["panel"].goal : ~ident'[m].ccd /\ ~late'[m]
      BY <2>3, <2>6, <3>1 DEF KnowsProvision
    <3>4. \A m \in walk'["panel"].done : ident'[m].ccd = walk'["panel"].on /\ ~late'[m]
      <4>1. TAKE m \in walk'["panel"].done
      <4>2. CASE m = n
        <5>1. ok = TRUE
          BY <2>7, <3>1, <4>2
        <5> QED
          BY <2>2, <2>3, <2>5, <2>6, <4>2, <5>1
      <4>3. CASE m # n
        BY <1>1, <2>3, <2>6, <3>2, <4>3 DEF KnowsProvision
      <4> QED
        BY <4>2, <4>3
    <3> QED
      BY <1>1, <2>4, <2>6, <3>1, <3>2, <3>3, <3>4 DEF KnowsProvision
  <2>9. Knows("panel") => Knows("panel")'
    BY <2>4, <2>6, <2>8 DEF Knows
  <2> QED
    BY <1>0, <2>3, <2>4, <2>6, <2>9, WalkStep DEF Busy, TypeInv
<1> QED
  BY <1>3, <1>4, <1>5, <1>6

-----------------------------------------------------------------------------
(* The reconciler, downloads, builds that end late, and the panel's death. *)

LEMMA RepairSteps ==
  ASSUME Inv, ReconcilerRuns \/ RepairOpen \/ RepairOne
  PROVE  Inv'
<1>0. TypeInv
  BY DEF Inv
<1>1. ASSUME repair # Resting, walk' = walk, company' = company, TypeInv'
      PROVE  Inv'
  <2>1. \A b \in Actor \ company' : ~Busy(b)
    BY <1>1 DEF Inv, Alone
  <2> QED
    BY <1>1, <2>1, JoinStep
<1>2. CASE RepairStarts
  <2>1. \A b \in Actor : Busy(b) => b \in Running
    BY DEF Running, Busy, Idle
  <2>2. company' = company \cup Running /\ walk' = walk
    BY <1>2 DEF RepairStarts
  <2>3. TypeInv'
    BY <1>0, <1>2 DEF RepairStarts, TypeInv, Running
  <2> QED
    BY <2>1, <2>2, <2>3, JoinStep
<1>3. CASE RepairOpen \/ RepairOne \/ RepairEnds
  <2>1. repair.phase \in {"read", "nodes"}
    BY <1>3 DEF RepairOpen, RepairOne, RepairReads, RepairEnds
  <2>2. repair # Resting
    BY <2>1 DEF Resting
  <2> QED
    BY <1>0, <1>1, <1>3, <2>2 DEF RepairOpen, RepairOne, RepairReads, RepairEnds, TypeInv
<1>4. CASE \E n \in Node : RepairBuilds(n) \/ RepairFails(n) \/ RepairFinds(n)
  <2>0. PICK n \in Node : RepairBuilds(n) \/ RepairFails(n) \/ RepairFinds(n)
    BY <1>4
  <2>4. ident[n] \in Identity /\ late[n] \in BOOLEAN
    BY <1>0 DEF TypeInv
  <2>1. PICK r \in Reply : Repairs(n, r)
    <3>1. CASE RepairBuilds(n)
      BY <3>1, ServedReply, Kinds DEF RepairBuilds
    <3>2. CASE RepairFails(n)
      BY <2>4, <3>2, BuildReply DEF RepairFails
    <3>3. CASE RepairFinds(n)
      BY <2>4, <3>3, LostReply DEF RepairFinds
    <3> QED
      BY <2>0, <3>1, <3>2, <3>3
  <2>2. ident' \in [Node -> Identity] /\ late' \in [Node -> BOOLEAN]
    BY <1>0, <2>1, TookReply DEF Repairs
  <2>3. repair # Resting
    BY <2>1 DEF Repairs, Resting
  <2> QED
    BY <1>0, <1>1, <2>1, <2>2, <2>3 DEF Repairs, TypeInv
<1> QED
  BY <1>2, <1>3, <1>4 DEF ReconcilerRuns

LEMMA OtherSteps ==
  ASSUME Inv, NEW n, NEW c,
         \/ n \in Node /\ (Download(n) \/ LateBuild(n) \/ SetControl(n, c))
         \/ PanelDies \/ UNCHANGED vars
  PROVE  Inv'
<1>0. TypeInv /\ (n \in Node => ident[n] \in Identity /\ late[n] \in BOOLEAN)
  BY DEF Inv, TypeInv
<1>1. CASE n \in Node /\ Download(n)
  <2>1. \A b \in Actor : Busy(b) => b \in Running
    BY DEF Running, Busy, Idle
  <2>2. PICK r \in BuildReplies(ident[n], late[n]) : Took(n, r)
    BY <1>1 DEF Download
  <2>3. ident' \in [Node -> Identity] /\ late' \in [Node -> BOOLEAN]
    BY <1>0, <1>1, <2>2, BuildReply, TookReply
  <2>4. TypeInv'
    BY <1>0, <1>1, <2>3 DEF Download, TypeInv, Running
  <2> QED
    BY <1>1, <2>1, <2>4, JoinStep DEF Download
<1>2. CASE n \in Node /\ LateBuild(n)
  BY <1>0, <1>2, OutsideStep, Kinds DEF LateBuild, TypeInv
<1>3. CASE SetControl(n, c) \/ UNCHANGED vars
  BY <1>0, <1>3, OutsideStep DEF SetControl, vars, TypeInv
<1>4. CASE PanelDies
  <2>1. /\ walk' \in [Actor -> Walk] /\ walk'["enforcer"] = walk["enforcer"]
        /\ \A b \in Actor \ {"enforcer"} : walk'[b] = Idle
        /\ company' = company \cap {"enforcer"} /\ UNCHANGED <<row, ident, late, repair, requests>>
    BY <1>0, <1>4, IdleWalk DEF PanelDies, TypeInv, Actor
  <2>2. Idle.op = "idle"
    BY DEF Idle
  <2>3. TypeInv' /\ ByOp' /\ Alone'
    BY <2>1, <2>2 DEF Inv, TypeInv, ByOp, Alone, Busy, Resting
  <2>4. KnowsInv'
    <3>1. ASSUME NEW a \in Actor \ company'  PROVE Knows(a)'
      <4>1. CASE a = "enforcer"
        <5>1. a \in Actor \ company /\ walk'[a] = walk[a]
          BY <2>1, <3>1, <4>1
        <5> QED
          BY <1>0, <2>1, <5>1 DEF Inv, KnowsInv, Knows, KnowsStatus, KnowsDone, KnowsDisable, KnowsRestore,
            KnowsProvision, MyRow, Assigned, Built, Absent, NodeSets
      <4>2. CASE a # "enforcer"
        BY <2>1, <2>2, <4>2 DEF Knows
      <4> QED
        BY <4>1, <4>2
    <3> QED
      BY <3>1 DEF KnowsInv
  <2> QED
    BY <2>3, <2>4 DEF Inv
<1> QED
  BY <1>1, <1>2, <1>3, <1>4

-----------------------------------------------------------------------------
(* The specification. *)

\* No step of the panel's own requests is another one between two commits.
LEMMA PanelElsewhere ==
  ASSUME TypeInv, PanelStep
  PROVE  walk'["integration"] = walk["integration"]
<1>1. "panel" \in Actor /\ "integration" \in Actor /\ walk \in [Actor -> Walk]
  BY DEF TypeInv, Actor
<1>2. ASSUME NEW w, Begins("panel", w)  PROVE walk'["integration"] = walk["integration"]
  BY <1>1, <1>2 DEF Begins
<1>3. CASE \/ \E on \in BOOLEAN : SetStatus("panel", on) \/ Edit("panel", on)
           \/ Renew("panel") \/ Delete("panel") \/ \E S \in NodeSets : Create(S) \/ Move(S)
  BY <1>2, <1>3 DEF SetStatus, Edit, Renew, Delete, Create, Move
<1>4. CASE NodeAnswers("panel")
  BY <1>1, <1>4 DEF NodeAnswers, StatusSkipped, StatusCall, CreateSkipped, CreateCall, DeleteCall, Goes
<1>5. CASE StatusDone("panel") \/ CreateDone("panel") \/ CreateRaises("panel") \/ DeleteDone("panel") \/ MoveFailed \/ MoveDone
  BY <1>1, <1>5 DEF StatusDone, CreateDone, CreateRaises, DeleteDone, MoveFailed, MoveDone, Ends
<1>6. CASE CommitNodes \/ \E n \in Node : DisableRefused(n) \/ DisableCall(n) \/ RestoreCall(n) \/ Provision(n)
  BY <1>1, <1>6 DEF CommitNodes, DisableRefused, DisableCall, RestoreCall, Provision, GivesUp, Goes
<1> QED
  BY <1>3, <1>4, <1>5, <1>6 DEF PanelStep

LEMMA IntegrationPhase ==
  ASSUME TypeInv, IntegrationStep, ~BetweenCommits, BetweenCommits'
  PROVE  row' \in Row
<1>1. "integration" \in Actor /\ walk \in [Actor -> Walk] /\ Idle.phase = "idle"
  BY DEF TypeInv, Actor, Idle
<1>2. ASSUME NEW w, Begins("integration", w)  PROVE walk'["integration"] = w
  BY <1>1, <1>2 DEF Begins
<1>3. CASE \/ \E on \in BOOLEAN : SetStatus("integration", on) \/ Edit("integration", on)
           \/ Renew("integration")
  <2>1. PICK on \in BOOLEAN, tells \in BOOLEAN : walk'["integration"] = StatusWalk(row, on, tells)
    BY <1>2, <1>3 DEF SetStatus, Edit, Renew
  <2> QED
    BY <2>1 DEF StatusWalk, Idle, BetweenCommits
<1>4. CASE Delete("integration")
  BY <1>2, <1>4 DEF Delete, Idle, BetweenCommits
<1>5. CASE \E S \in NodeSets : CreateBare(S)
  BY <1>5, NodeSetTypes, NewRows DEF CreateBare
<1>6. CASE NodeAnswers("integration")
  <2>1. PICK n, ok : Goes("integration", n, ok)
    BY <1>6 DEF NodeAnswers, StatusSkipped, StatusCall, CreateSkipped, CreateCall, DeleteCall
  <2>2. walk'["integration"].phase = walk["integration"].phase
    BY <1>1, <2>1 DEF Goes, Walk
  <2> QED
    BY <2>2 DEF BetweenCommits
<1>7. CASE StatusDone("integration") \/ CreateDone("integration") \/ CreateRaises("integration")
           \/ DeleteDone("integration")
  <2>1. walk'["integration"] = Idle
    BY <1>1, <1>7 DEF StatusDone, CreateDone, CreateRaises, DeleteDone, Ends
  <2> QED
    BY <1>1, <2>1 DEF BetweenCommits
<1> QED
  BY <1>3, <1>4, <1>5, <1>6, <1>7 DEF IntegrationStep

\* Between the two commits of a creation nothing of the panel runs, and nobody
\* else takes a row away.
LEMMA BetweenStep ==
  ASSUME TypeInv, Between, [Next]_vars
  PROVE  Between'
<1>1. "integration" \in Actor /\ walk \in [Actor -> Walk] /\ Idle.phase = "idle" /\ row \in Row \cup {None}
  BY DEF TypeInv, Actor, Idle
<1>2. CASE ~BetweenCommits /\ PanelStep
  BY <1>2, PanelElsewhere DEF Between, BetweenCommits
<1>3. CASE ~BetweenCommits /\ IntegrationStep
  BY <1>3, IntegrationPhase DEF Between
<1>4. CASE SetUserNodes
  <2>1. walk'["integration"].phase = "nodes"
    BY <1>1, <1>4 DEF SetUserNodes, Walk
  <2> QED
    BY <2>1 DEF Between, BetweenCommits
<1>5. CASE EnforcerStep
  <2>1. walk'["integration"] = walk["integration"]
    BY <1>1, <1>5 DEF EnforcerStep, Enforce, StatusDone, StatusSkipped, StatusCall, Begins, Ends, Goes
  <2>2. walk["enforcer"].on \in BOOLEAN
    BY <1>1 DEF Walk, Actor
  <2>3. row' = row \/ (MyRow("enforcer") /\ row' = [row EXCEPT !.active = walk["enforcer"].on])
    BY <1>5 DEF EnforcerStep, Enforce, StatusDone, StatusSkipped, StatusCall, Turn
  <2>4. row \in Row => row' \in Row
    BY <2>2, <2>3 DEF Row
  <2> QED
    BY <2>1, <2>4 DEF Between, BetweenCommits
<1>6. CASE PanelDies
  <2>1. walk'["integration"] = Idle
    BY <1>1, <1>6 DEF PanelDies
  <2> QED
    BY <1>1, <2>1 DEF Between, BetweenCommits
<1>7. CASE \/ ReconcilerRuns \/ RepairOpen \/ RepairOne \/ UNCHANGED vars
           \/ \E n \in Node : Download(n) \/ LateBuild(n) \/ \E c \in {"open", "held", "off"} : SetControl(n, c)
  <2>1. UNCHANGED <<row, walk>>
    BY <1>7 DEF ReconcilerRuns, RepairOpen, RepairOne, RepairReads, RepairStarts, RepairEnds, RepairBuilds,
      RepairFails, RepairFinds, Repairs, Download, LateBuild, SetControl, vars
  <2> QED
    BY <2>1 DEF Between, BetweenCommits
<1> QED
  BY <1>2, <1>3, <1>4, <1>5, <1>6, <1>7 DEF Next

LEMMA InvInit ==
  Init => Inv /\ Between
<1> SUFFICES ASSUME Init  PROVE Inv /\ Between
  OBVIOUS
<1>1. /\ walk = [a \in Actor |-> Idle] /\ Idle.op = "idle" /\ Idle.phase = "idle"
      /\ "integration" \in Actor /\ company = {}
  BY DEF Init, Idle, Actor
<1>2. TypeInv
  <2>1. row \in Row \cup {None}
    <3>1. [id |-> 0, active |-> TRUE, nodes |-> {}] \in Row
      BY DEF Row
    <3> QED
      BY <3>1 DEF Init
  <2>2. ident \in [Node -> Identity] /\ late \in [Node -> BOOLEAN]
    BY Kinds DEF Init
  <2>3. walk \in [Actor -> Walk] /\ company \subseteq Actor /\ requests \in Nat
    BY <1>1, IdleWalk DEF Init
  <2> QED
    BY <2>1, <2>2, <2>3 DEF TypeInv
<1>3. \A a \in Actor : walk[a] = Idle /\ walk[a].op = "idle"
  BY <1>1
<1>4. ByOp /\ Alone /\ KnowsInv
  BY <1>3 DEF ByOp, Alone, KnowsInv, Knows, Busy
<1>5. Between
  BY <1>1 DEF Between, BetweenCommits
<1> QED
  BY <1>2, <1>4, <1>5 DEF Inv

LEMMA AnswerSteps ==
  ASSUME Inv, Between, NEW a \in Actor, NodeAnswers(a)
  PROVE  Inv'
<1>1. PICK n \in Node : \/ StatusSkipped(a, n) \/ StatusCall(a, n)
                        \/ CreateSkipped(a, n) \/ CreateCall(a, n)
                        \/ DeleteCall(a, n)
  BY DEF NodeAnswers
<1>2. CASE StatusSkipped(a, n) \/ StatusCall(a, n)
  <2>1. TRUE \in BOOLEAN
    OBVIOUS
  <2> QED
    BY <1>2, <2>1, StatusSteps
<1>3. CASE CreateSkipped(a, n) \/ CreateCall(a, n)
  BY <1>3, CreateSteps
<1>4. CASE DeleteCall(a, n)
  BY <1>4, DeleteSteps
<1> QED
  BY <1>1, <1>2, <1>3, <1>4

LEMMA InvStep ==
  ASSUME Inv, Between, [Next]_vars
  PROVE  Inv'
<1>0. "panel" \in Actor /\ "integration" \in Actor /\ "enforcer" \in Actor
  BY DEF Actor
<1>1. CASE PanelStep
  <2>1. CASE \/ \E on \in BOOLEAN : SetStatus("panel", on) \/ Edit("panel", on)
             \/ Renew("panel") \/ StatusDone("panel")
    BY <1>0, <2>1, StatusSteps
  <2>2. CASE Delete("panel") \/ DeleteDone("panel")
    BY <1>0, <2>2, DeleteSteps
  <2>3. CASE (\E S \in NodeSets : Create(S)) \/ CreateDone("panel") \/ CreateRaises("panel")
    BY <1>0, <2>3, CreateSteps
  <2>4. CASE \E S \in NodeSets : Move(S)
    BY <2>4, MoveBegins
  <2>5. CASE NodeAnswers("panel")
    BY <1>0, <2>5, AnswerSteps
  <2>6. CASE \E n \in Node : DisableRefused(n) \/ DisableCall(n) \/ RestoreCall(n) \/ Provision(n)
    BY <2>6, MoveSteps
  <2>7. CASE MoveFailed \/ CommitNodes \/ MoveDone
    BY <2>7, MoveEnds
  <2> QED
    BY <1>1, <2>1, <2>2, <2>3, <2>4, <2>5, <2>6, <2>7 DEF PanelStep
<1>2. CASE IntegrationStep
  <2>1. CASE \/ \E on \in BOOLEAN : SetStatus("integration", on) \/ Edit("integration", on)
             \/ Renew("integration") \/ StatusDone("integration")
    BY <1>0, <2>1, StatusSteps
  <2>2. CASE Delete("integration") \/ DeleteDone("integration")
    BY <1>0, <2>2, DeleteSteps
  <2>3. CASE (\E S \in NodeSets : CreateBare(S)) \/ CreateDone("integration") \/ CreateRaises("integration")
    BY <1>0, <2>3, CreateSteps
  <2>4. CASE NodeAnswers("integration")
    BY <1>0, <2>4, AnswerSteps
  <2> QED
    BY <1>2, <2>1, <2>2, <2>3, <2>4 DEF IntegrationStep
<1>3. CASE SetUserNodes
  BY <1>0, <1>3, CreateSteps
<1>4. CASE EnforcerStep
  <2>1. TRUE \in BOOLEAN
    OBVIOUS
  <2> QED
    BY <1>0, <1>4, <2>1, StatusSteps DEF EnforcerStep
<1>5. CASE ReconcilerRuns \/ RepairOpen \/ RepairOne
  BY <1>5, RepairSteps
<1>6. CASE \/ PanelDies \/ UNCHANGED vars
           \/ \E n \in Node : Download(n) \/ LateBuild(n) \/ \E c \in {"open", "held", "off"} : SetControl(n, c)
  BY <1>6, OtherSteps
<1> QED
  BY <1>1, <1>2, <1>3, <1>4, <1>5, <1>6 DEF Next

\* Every request, row and identity keeps its type, a request that runs without
\* company runs alone, and it knows of the nodes it has passed what they told.
LEMMA Invariance ==
  Spec => [](Inv /\ Between)
<1>1. Init => Inv /\ Between
  BY InvInit
<1>2. Inv /\ Between /\ [Next]_vars => Inv' /\ Between'
  BY InvStep, BetweenStep DEF Inv
<1> QED
  BY <1>1, <1>2, PTL DEF Spec

\* A request that ran alone and tells its caller what the nodes said has told the
\* truth of every node it names, whatever earlier requests, lost calls and late
\* builds left behind: a renewal that reports the nodes in step has switched the
\* user on at all of them, a node taken from a user no longer serves it, a deleted
\* identity is gone.
THEOREM TruthfulReports ==
  Spec => []ReportIsTrue
<1>1. Inv => ReportIsTrue
  <2>1. SUFFICES ASSUME Inv, NEW a \in Actor \ company
                 PROVE  /\ AllPassed(a, "status", "nodes") /\ walk[a].ok =>
                             \A n \in Assigned(row) : ident[n].ccd = walk[a].on
                        /\ AllPassed(a, "nodes", "provision") =>
                             /\ \A n \in walk[a].goal : ~ident[n].ccd /\ n \notin Assigned(row)
                             /\ \A n \in walk[a].done : ident[n].ccd = walk[a].on
                        /\ AllPassed(a, "delete", "nodes") => \A n \in walk[a].done : ident[n] = Absent
    BY DEF ReportIsTrue
  <2>2. Knows(a)
    BY <2>1 DEF Inv, KnowsInv
  <2>3. AllPassed(a, "status", "nodes") /\ walk[a].ok => \A n \in Assigned(row) : ident[n].ccd = walk[a].on
    BY <2>2 DEF AllPassed, Knows, KnowsStatus
  <2>4. AllPassed(a, "delete", "nodes") => \A n \in walk[a].done : ident[n] = Absent
    BY <2>2 DEF AllPassed, Knows, KnowsDone
  <2>5. AllPassed(a, "nodes", "provision") =>
          /\ \A n \in walk[a].goal : ~ident[n].ccd /\ n \notin Assigned(row)
          /\ \A n \in walk[a].done : ident[n].ccd = walk[a].on
    BY <2>2 DEF AllPassed, Knows, KnowsProvision
  <2> QED
    BY <2>3, <2>4, <2>5
<1> QED
  BY <1>1, Invariance, PTL

\* A change of assignments that gives up leaves an active user switched on, on
\* every node it had switched off and that took the compensation.
THEOREM MoveIsUndone ==
  Spec => []MoveUndone
<1>1. Inv => MoveUndone
  <2>1. SUFFICES ASSUME Inv, "panel" \notin company, AllPassed("panel", "nodes", "restore")
                 PROVE  \A n \in walk["panel"].done : n \in Assigned(row) /\ ident[n].ccd
    BY DEF MoveUndone
  <2>2. Knows("panel")
    BY <2>1 DEF Inv, KnowsInv, Actor
  <2>3. KnowsRestore("panel") /\ walk["panel"].left = {}
    BY <2>1, <2>2 DEF AllPassed, Knows
  <2> QED
    BY <2>3 DEF KnowsRestore
<1> QED
  BY <1>1, Invariance, PTL

-----------------------------------------------------------------------------
(***************************************************************************)
(* The lock that lets the panel's routes change a user one at a time. The  *)
(* invariant ties a body to its row: Enter finds no other body inside      *)
(* because that body would own an unexpired row, and Leave, which deletes  *)
(* whichever row the user has, finds its own. A body that outlives its     *)
(* lock breaks that for itself and for those who come after it, until all  *)
(* have left and a live job has its row again; no assumption is made on    *)
(* how long a body takes.                                                  *)
(***************************************************************************)

LEMMA RowKinds ==
  ASSUME NEW r \in Request, NEW e \in Nat
  PROVE  /\ Transient(r, e) \in LockRow
         /\ Transient(r, e).kind = "transient"
         /\ Transient(r, e).owner = r
         /\ Transient(r, e).expires = e
         /\ Transient(r, e) # RenameRow /\ Transient(r, e) # NoRow
         /\ RenameRow # NoRow
<1>1. Transient(r, e) \in TransientRow
  BY DEF Transient, TransientRow
<1>2. Transient(r, e) \in LockRow
  BY <1>1, Zenon DEF LockRow
<1>3. RenameRow.kind = "rename" /\ NoRow.kind = "none"
  BY DEF RenameRow, NoRow
<1>4. /\ Transient(r, e).kind = "transient"
      /\ Transient(r, e).owner = r
      /\ Transient(r, e).expires = e
  BY DEF Transient
<1> QED
  BY <1>2, <1>3, <1>4

LEMMA PlainRows ==
  /\ NoRow \in LockRow /\ RenameRow \in LockRow
  /\ NoRow.kind = "none" /\ RenameRow.kind = "rename"
<1>1. NoRow \in LockRow /\ RenameRow \in LockRow
  BY Zenon DEF LockRow
<1> QED
  BY <1>1 DEF NoRow, RenameRow

\* A body inside the lock owns a row that has not expired, so no row of the
\* user is free for the taking.
LEMMA HeldIsHeld ==
  ASSUME LockTypes, HolderInv, JobHasRow, NEW r \in Request, Inside(r)
  PROVE  /\ lock # NoRow /\ lock # RenameRow
         /\ ~Expired
         /\ lock.kind = "transient" /\ lock.owner = r
         /\ job = "none"
<1> DEFINE e == started[r] + TTL
<1>1. started[r] \in Nat
  BY DEF LockTypes, Inside
<1>2. e \in Nat /\ lock = Transient(r, e)
  BY <1>1, TimeAssumption DEF HolderInv
<1> HIDE DEF e
<1>3. /\ lock.kind = "transient" /\ lock.owner = r /\ lock.expires = e
      /\ lock # RenameRow /\ lock # NoRow
  BY <1>2, RowKinds
<1>4. now < e
  BY DEF e, HolderInv
<1>5. ~Expired
  BY <1>2, <1>3, <1>4 DEF Expired, LockTypes
<1>6. job = "none"
  BY <1>3 DEF JobHasRow
<1> QED
  BY <1>3, <1>5, <1>6

\* Two bodies inside would own the same row.
LEMMA OneInside ==
  ASSUME LockTypes, HolderInv, JobHasRow, NEW r \in Request, NEW q \in Request,
         Inside(r), Inside(q)
  PROVE  r = q
<1>1. lock.owner = r
  BY HeldIsHeld
<1>2. lock.owner = q
  BY HeldIsHeld
<1> QED
  BY <1>1, <1>2

\* Types are kept by every step.
LEMMA StepTypes ==
  ASSUME LockTypes, [LockNext]_lockVars
  PROVE  LockTypes'
<1> USE TimeAssumption, PlainRows DEF LockTypes
<1>0. overrun' \in BOOLEAN
  BY DEF LockNext, lockVars
<1>1. ASSUME NEW r \in Request, Enter(r)
      PROVE  LockTypes'
  <2>1. now + TTL \in Nat
    OBVIOUS
  <2>2. lock' \in LockRow
    BY <1>1, <2>1, RowKinds DEF Enter
  <2> QED
    BY <1>0, <1>1, <2>2 DEF Enter
<1>2. ASSUME NEW r \in Request, Leave(r) \/ LeaveFailed(r)
      PROVE  LockTypes'
  BY <1>0, <1>2 DEF Leave, LeaveFailed
<1>3. CASE Restart
  BY <1>0, <1>3 DEF Restart
<1>4. CASE Queue \/ JobStart \/ JobStop \/ JobEnd
  BY <1>0, <1>4 DEF Queue, JobStart, JobStop, JobEnd
<1>5. CASE Tick
  BY <1>0, <1>5 DEF Tick
<1>6. CASE UNCHANGED lockVars
  BY <1>6 DEF lockVars
<1> QED
  BY <1>1, <1>2, <1>3, <1>4, <1>5, <1>6 DEF LockNext, LockStep

\* Whoever is inside keeps an unexpired row of its own, until it is up.
LEMMA StepHolder ==
  ASSUME LockTypes, HolderInv, JobHasRow, LockStep, ~Outlived'
  PROVE  HolderInv'
<1> USE TimeAssumption DEF LockTypes, Inside
<1>1. ASSUME NEW r \in Request, Enter(r)
      PROVE  HolderInv'
  <2>1. \A q \in Request : ~Inside(q)
    BY <1>1, HeldIsHeld DEF Enter
  <2>2. \A q \in Request : Inside(q)' => q = r
    BY <1>1, <2>1 DEF Enter
  <2>3. /\ lock' = Transient(r, started'[r] + TTL)
        /\ now' < started'[r] + TTL
    BY <1>1 DEF Enter
  <2> QED
    BY <2>2, <2>3 DEF HolderInv
<1>2. ASSUME NEW r \in Request, Leave(r) \/ LeaveFailed(r)
      PROVE  HolderInv'
  <2>1. \A q \in Request : Inside(q) => q = r
    BY <1>2, OneInside DEF Leave, LeaveFailed
  <2>2. \A q \in Request : ~Inside(q)'
    BY <1>2, <2>1 DEF Leave, LeaveFailed
  <2> QED
    BY <2>2 DEF HolderInv
<1>3. CASE Restart
  BY <1>3 DEF Restart, HolderInv
<1>4. CASE Queue \/ JobStart \/ JobStop \/ JobEnd
  <2>1. CASE \E q \in Request : Inside(q)
    <3>1. job = "none" /\ lock # NoRow
      BY <2>1, HeldIsHeld
    <3> QED
      BY <1>4, <3>1 DEF Queue, JobStart, JobStop, JobEnd
  <2>2. CASE ~ \E q \in Request : Inside(q)
    BY <1>4, <2>2 DEF Queue, JobStart, JobStop, JobEnd, HolderInv
  <2> QED
    BY <2>1, <2>2
<1>5. CASE Tick
  <2>1. ASSUME NEW r \in Request, Inside(r)'
        PROVE  Inside(r) /\ started'[r] = started[r] /\ now' < started'[r] + TTL
    BY <1>5, <2>1 DEF Tick, Outlived
  <2> QED
    BY <1>5, <2>1 DEF Tick, HolderInv
<1> QED
  BY <1>1, <1>2, <1>3, <1>4, <1>5 DEF LockStep

\* Only the job writes its row.
LEMMA StepRename ==
  ASSUME LockTypes, HolderInv, JobHasRow, LockStep
  PROVE  JobHasRow'
<1> USE PlainRows DEF LockTypes, JobHasRow
<1>1. ASSUME NEW r \in Request, Enter(r)
      PROVE  JobHasRow'
  <2>1. lock # RenameRow
    BY <1>1 DEF Enter, Expired
  <2> QED
    BY <1>1, <2>1 DEF Enter
<1>2. ASSUME NEW r \in Request, Leave(r) \/ LeaveFailed(r)
      PROVE  JobHasRow'
  <2>1. job = "none"
    BY <1>2, HeldIsHeld DEF Leave, LeaveFailed
  <2> QED
    BY <1>2, <2>1 DEF Leave, LeaveFailed
<1>3. CASE Restart
  BY <1>3 DEF Restart
<1>4. CASE Queue \/ JobStart \/ JobStop \/ JobEnd
  BY <1>4 DEF Queue, JobStart, JobStop, JobEnd
<1>5. CASE Tick
  BY <1>5 DEF Tick
<1> QED
  BY <1>1, <1>2, <1>3, <1>4, <1>5 DEF LockStep

\* With nobody inside and a live job's row in place, all is in order again.
LEMMA StepOrder ==
  ASSUME LockInv, LockNext, ~overrun'
  PROVE  HolderInv' /\ JobHasRow'
<1>1. CASE InOrder'
  BY <1>1 DEF InOrder, HolderInv
<1>2. CASE ~InOrder'
  <2>1. ~overrun /\ ~Outlived'
    BY <1>2 DEF LockNext
  <2> QED
    BY <2>1, StepHolder, StepRename DEF LockInv, LockNext
<1> QED
  BY <1>1, <1>2

\* The rows, the clock, the bodies and the job always have their types; and unless
\* a body has outlived its lock and somebody it disturbed is still there, the rename
\* job has its row and every body owns the unexpired row it entered with.
THEOREM LockInvariance ==
  LockSpec => []LockInv
<1>1. ASSUME LockInit  PROVE LockInv
  <2>1. LockTypes
    BY <1>1, PlainRows DEF LockInit, LockTypes
  <2>2. \A r \in Request : ~Inside(r)
    BY <1>1 DEF LockInit, Inside
  <2> QED
    BY <1>1, <2>1, <2>2 DEF LockInit, LockInv, HolderInv, JobHasRow
<1>2. LockInv /\ [LockNext]_lockVars => LockInv'
  <2>1. ASSUME LockInv, UNCHANGED lockVars  PROVE LockInv'
    BY <2>1 DEF LockInv, LockTypes, HolderInv, JobHasRow, Inside, lockVars
  <2>2. ASSUME LockInv, LockNext  PROVE LockInv'
    <3>1. LockTypes'
      BY <2>2, StepTypes DEF LockInv
    <3>2. ~overrun' => HolderInv' /\ JobHasRow'
      BY <2>2, StepOrder
    <3> QED
      BY <3>1, <3>2 DEF LockInv
  <2> QED
    BY <2>1, <2>2
<1> QED
  BY <1>1, <1>2, PTL DEF LockSpec

\* One lifecycle mutation per user at a time, among any requests, however long
\* their bodies take: two bodies overlap, or one overlaps a live rename job, only
\* after a body has outlived its lock, and never again once all have left.
THEOREM Exclusion ==
  LockSpec => []OneMutation
<1>1. LockInv => OneMutation
  BY HeldIsHeld, OneInside DEF OneMutation, LockInv
<1> QED
  BY <1>1, LockInvariance, PTL

\* A live rename job holds the user's row until it releases it itself, unless a
\* body has outlived its lock.
THEOREM RenameHolds ==
  LockSpec => []RenameKeepsLock
<1>1. LockInv => RenameKeepsLock
  BY DEF LockInv, RenameKeepsLock
<1> QED
  BY <1>1, LockInvariance, PTL
=============================================================================
