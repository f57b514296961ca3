------------------------ MODULE UsageAccountingProofs ------------------------
(***************************************************************************)
(* For any nodes, quota and bounds, whether renewals and the usage job     *)
(* overlap or not: from a renewal that runs alone and misses no counter,   *)
(* every unit is charged once until one overlaps the job or resets what it *)
(* has not read (exact).                                                   *)
(*                                                                         *)
(* While it is so one of the two is idle, and what the job read of the     *)
(* user's total before its calls to the nodes is still the user's total    *)
(* after them. That nothing is charged twice needs more: what is charged   *)
(* and what each node's counter would still be charged for never exceed,   *)
(* summed over the nodes, what was moved and not forgiven (Covered), in    *)
(* the middle of a node's turn as well (Owe), so that a turn may be given  *)
(* up and taken again. What a clean renewal leaves does not depend on what *)
(* it found (Passed).                                                      *)
(*                                                                         *)
(* Then the leases of the user's devices (SessionLease), which share       *)
(* nothing with the accounts.                                              *)
(***************************************************************************)
EXTENDS UsageAccounting, SessionLease, FiniteSetTheorems, TLAPS

\* A call's turn, a job or a request that ends leaves its locals well typed.
LEMMA Forgotten ==
  /\ AnyNode \in Node
  /\ Nothing \in [Node -> Nat]
  /\ NoBaseline \in [Node -> Nat \cup {Keep}]
  /\ Unused \in [used : Nat, active : BOOLEAN]
BY UsageAssumption DEF AnyNode, Nothing, NoBaseline, Unused

LEMMA CopyType ==
  ASSUME NEW u \in Nat, NEW a \in BOOLEAN
  PROVE  [used |-> u, active |-> a] \in [used : Nat, active : BOOLEAN]
OBVIOUS

\* What a turn charges is a natural number.
LEMMA DeltaType ==
  ASSUME sample \in Nat, lastRead \in Nat
  PROVE  Delta \in Nat
BY DEF Delta

LEMMA TrafficTypes ==
  ASSUME StateTypes, NEW n \in Node, Connect(n) \/ Move(n) \/ Disconnect(n)
  PROVE  StateTypes'
<1>1. counter' \in [Node -> Nat \cup {Absent}] /\ moved' \in [Node -> Nat]
  BY DEF StateTypes, Connect, Move, Disconnect, Absent
<1>2. UNCHANGED <<database, job, route, crashes>>
  BY DEF Connect, Move, Disconnect
<1> QED
  BY <1>1, <1>2, Zenon DEF StateTypes, database, job, route

LEMMA JobTypes ==
  ASSUME StateTypes, JobStep \/ SettleFails \/ JobCrash
  PROVE  StateTypes'
<1> USE Forgotten DEF StateTypes, JobSteps, traffic, database, route,
                      ForgetCall, ForgetJob
<1>1. CASE StartSync
  BY <1>1 DEF StartSync
<1>2. CASE ReadLast
  BY <1>2 DEF ReadLast, Unloaded
<1>3. CASE Settle
  <2>1. jobUsed \in Nat /\ Delta \in Nat
    BY <1>3, DeltaType DEF Settle, Settled, Unloaded
  <2>2. jobUsed + Delta \in Nat
    BY <2>1
  <2>3. used' \in Nat /\ jobUsed' \in Nat /\ last' \in [Node -> Nat]
    BY <1>3, <2>2 DEF Settle, Settled
  <2> QED
    BY <1>3, <2>3 DEF Settle, Settled
<1>4. CASE SyncDone
  BY <1>4 DEF SyncDone
<1>5. CASE EnforceLoad
  BY <1>5 DEF EnforceLoad
<1>6. CASE Disable
  BY <1>6 DEF Disable
<1>7. ASSUME NEW n \in Node, Fetch(n)
      PROVE  StateTypes'
  BY <1>7 DEF Fetch, Absent
<1>8. ASSUME NEW n \in Node, FetchNothing(n)
      PROVE  StateTypes'
  BY <1>8 DEF FetchNothing
<1>9. CASE SettleFails
  BY <1>9 DEF SettleFails
<1>10. CASE JobCrash
  BY <1>10 DEF JobCrash
<1> QED
  BY <1>1, <1>2, <1>3, <1>4, <1>5, <1>6, <1>7, <1>8, <1>9, <1>10 DEF JobStep

LEMMA RouteTypes ==
  ASSUME StateTypes, StartRenewal \/ RouteStep \/ RenewalFails
  PROVE  StateTypes'
<1> USE Forgotten DEF StateTypes, RouteSteps, traffic, database, job,
                      ForgetRoute
<1>1. CASE StartRenewal
  BY <1>1, CopyType DEF StartRenewal, Keep
<1>2. ASSUME NEW n \in Node, ReadCounter(n)
      PROVE  StateTypes'
  BY <1>2 DEF ReadCounter, Absent, Keep
<1>3. ASSUME NEW n \in Node, KeepBaseline(n)
      PROVE  StateTypes'
  BY <1>3 DEF KeepBaseline
<1>4. CASE ResetUsage
  <2>1. Baselined \in [Node -> Nat] /\ Zeroed \in Nat
    BY DEF Baselined, Zeroed, Keep
  <2> QED
    BY <1>4, <2>1 DEF ResetUsage
<1>5. CASE Refresh
  BY <1>5, CopyType DEF Refresh
<1>6. CASE Activate
  <2>1. Zeroed \in Nat
    BY DEF Zeroed
  <2> QED
    BY <1>6, <2>1 DEF Activate
<1>7. CASE RenewalFails
  BY <1>7 DEF RenewalFails
<1> QED
  BY <1>1, <1>2, <1>3, <1>4, <1>5, <1>6, <1>7 DEF RouteStep

LEMMA ReckonTypes ==
  ASSUME TypeOK, StateTypes', Reckon
  PROVE  HistoryTypes'
<1>1. clean' \in BOOLEAN /\ exact' \in BOOLEAN
  BY Zenon DEF Reckon, TypeOK, HistoryTypes
<1>2. /\ Nothing \in [Node -> Nat] /\ moved \in [Node -> Nat] /\ last' \in [Node -> Nat]
      /\ mark \in [Node -> Nat] /\ forgiven \in [Node -> Nat] /\ base \in [Node -> Nat]
  BY Forgotten DEF TypeOK, StateTypes, HistoryTypes
<1>3. mark' \in {Nothing, moved, mark}
  BY Zenon DEF Reckon
<1>4. forgiven' \in {Nothing, mark, forgiven}
  BY Zenon DEF Reckon
<1>5. base' \in {Nothing, last', base}
  BY Zenon DEF Reckon
<1> QED
  BY <1>1, <1>2, <1>3, <1>4, <1>5 DEF HistoryTypes

LEMMA TypeStep ==
  ASSUME TypeOK, [Next]_vars
  PROVE  TypeOK'
<1>1. CASE UNCHANGED vars
  BY <1>1 DEF TypeOK, StateTypes, HistoryTypes, vars, traffic, database, job, route, reckoning
<1>2. CASE Next
  <2>1. StateTypes'
    BY <1>2, TrafficTypes, JobTypes, RouteTypes DEF Next, Step, TypeOK
  <2> QED
    BY <1>2, <2>1, ReckonTypes DEF Next, TypeOK
<1> QED
  BY <1>1, <1>2

LEMMA InitTypes ==
  ASSUME Init
  PROVE  TypeOK
BY Forgotten, UsageAssumption
   DEF Init, TypeOK, StateTypes, HistoryTypes, JobSteps, RouteSteps, Absent

\* The totals, counters and baselines are never negative and the steps of the
\* job and of the renewal are among their names, overlapping or not.
THEOREM TypeCorrect == Spec => []TypeOK
<1>1. Init => TypeOK
  BY InitTypes
<1>2. TypeOK /\ [Next]_vars => TypeOK'
  BY TypeStep
<1> QED
  BY <1>1, <1>2, PTL DEF Spec

-----------------------------------------------------------------------------
(***************************************************************************)
(* Sums over sets of nodes. A sum is the number of its units, so that the  *)
(* facts about finite sets apply.                                          *)
(***************************************************************************)
Counts(f, S) == \A n \in S : f[n] \in Nat

LEMMA UpTo ==
  ASSUME NEW k \in Nat
  PROVE  IsFiniteSet(1..k) /\ Cardinality(1..k) = k
<1>1. 1 \in Int /\ k \in Int
  OBVIOUS
<1>2. IsFiniteSet(1..k) /\ Cardinality(1..k) = IF 1 > k THEN 0 ELSE k - 1 + 1
  BY <1>1, FS_Interval, Zenon
<1> QED
  BY <1>2

LEMMA UnitsFinite ==
  ASSUME NEW S, IsFiniteSet(S), NEW f, Counts(f, S)
  PROVE  IsFiniteSet(Units(f, S)) /\ Total(f, S) \in Nat
<1> DEFINE Column(n) == {n} \X (1..f[n])
           Columns == {Column(n) : n \in S}
<1>1. IsFiniteSet(Columns)
  <2> DEFINE column == [n \in S |-> Column(n)]
  <2>1. column \in [S -> Columns] /\ \A C \in Columns : \E n \in S : column[n] = C
    OBVIOUS
  <2>2. column \in Surjection(S, Columns)
    BY <2>1, Zenon DEF Surjection
  <2> QED
    BY <2>2, FS_Surjection, Zenon
<1>2. ASSUME NEW C \in Columns
      PROVE  IsFiniteSet(C)
  <2>1. PICK n \in S : C = Column(n)
    BY <1>2
  <2>2. IsFiniteSet({n}) /\ IsFiniteSet(1..f[n])
    BY UpTo, FS_Singleton, Zenon DEF Counts
  <2> QED
    BY <2>1, <2>2, FS_Product
<1>3. IsFiniteSet(UNION Columns)
  BY <1>1, <1>2, FS_UNION, Zenon
<1> QED
  BY <1>3, FS_CardinalityType DEF Units, Total

LEMMA Unit ==
  ASSUME NEW S, NEW f, Counts(f, S), NEW p
  PROVE  p \in Units(f, S) <=> \E n \in S, i \in Nat : i \in 1..f[n] /\ p = <<n, i>>
<1>1. \A n \in S : p \in {n} \X (1..f[n]) <=> \E i \in Nat : i \in 1..f[n] /\ p = <<n, i>>
  BY DEF Counts
<1>2. p \in Units(f, S) <=> \E n \in S : p \in {n} \X (1..f[n])
  BY Zenon DEF Units
<1> QED
  BY <1>1, <1>2, Zenon

\* A sum only depends on its summands, and one of them can be taken out.
LEMMA TotalSame ==
  ASSUME NEW S, NEW f, NEW g, \A n \in S : f[n] = g[n]
  PROVE  Total(f, S) = Total(g, S)
<1>1. Units(f, S) = Units(g, S)
  BY DEF Units
<1> QED
  BY <1>1 DEF Total

LEMMA TotalSplit ==
  ASSUME NEW S, IsFiniteSet(S), NEW f, Counts(f, S), NEW x \in S
  PROVE  Total(f, S) = f[x] + Total(f, S \ {x}) /\ Total(f, S \ {x}) \in Nat
<1> DEFINE Column == {x} \X (1..f[x])
           Rest == Units(f, S \ {x})
<1>1. IsFiniteSet(S \ {x}) /\ Counts(f, S \ {x})
  BY FS_RemoveElement DEF Counts
<1>2. IsFiniteSet(Rest) /\ Total(f, S \ {x}) \in Nat
  BY <1>1, UnitsFinite
<1>3. IsFiniteSet(Column) /\ Cardinality(Column) = f[x]
  <2>1. f[x] \in Nat
    BY DEF Counts
  <2>2. IsFiniteSet({x}) /\ Cardinality({x}) = 1
    BY FS_Singleton
  <2>3. IsFiniteSet(1..f[x]) /\ Cardinality(1..f[x]) = f[x]
    BY <2>1, UpTo, Zenon
  <2>4. IsFiniteSet(Column) /\ Cardinality(Column) = Cardinality({x}) * Cardinality(1..f[x])
    BY <2>2, <2>3, FS_Product, Zenon
  <2> QED
    BY <2>1, <2>2, <2>3, <2>4
<1>4. Column \cup Rest = Units(f, S) /\ Column \cap Rest = {}
  <2>1. ASSUME NEW p \in Column
        PROVE  p \in Units(f, S) /\ p \notin Rest
    BY <2>1, <1>1, Unit
  <2>2. ASSUME NEW p \in Rest
        PROVE  p \in Units(f, S)
    BY <2>2, <1>1, Unit
  <2>3. ASSUME NEW p \in Units(f, S), p \notin Rest
        PROVE  p \in Column
    BY <2>3, <1>1, Unit
  <2> QED
    BY <2>1, <2>2, <2>3
<1>5. Cardinality(Column \cup Rest) = Cardinality(Column) + Cardinality(Rest) - Cardinality(Column \cap Rest)
  BY <1>2, <1>3, FS_Union
<1>6. Cardinality(Column \cap Rest) = 0
  BY <1>4, FS_EmptySet
<1>7. f[x] \in Nat /\ Cardinality(Rest) \in Nat
  BY <1>2 DEF Counts, Total
<1>8. Total(f, S) = Cardinality(Column \cup Rest)
  BY <1>4 DEF Total
<1> QED
  BY <1>2, <1>3, <1>5, <1>6, <1>7, <1>8 DEF Total

\* Changing one summand changes the sum by as much.
LEMMA TotalChange ==
  ASSUME NEW S, IsFiniteSet(S), NEW f, NEW g, Counts(f, S), Counts(g, S),
         NEW x \in S, \A n \in S \ {x} : f[n] = g[n]
  PROVE  Total(g, S) + f[x] = Total(f, S) + g[x]
<1>1. Total(f, S) = f[x] + Total(f, S \ {x}) /\ Total(f, S \ {x}) \in Nat
  BY TotalSplit
<1>2. Total(g, S) = g[x] + Total(g, S \ {x}) /\ Total(g, S \ {x}) \in Nat
  BY TotalSplit
<1>3. Total(f, S \ {x}) = Total(g, S \ {x})
  BY TotalSame, Zenon
<1>4. f[x] \in Nat /\ g[x] \in Nat
  BY DEF Counts
<1> QED
  BY <1>1, <1>2, <1>3, <1>4

\* If no column of two sums is higher than that of a third, neither are they.
LEMMA TotalSum ==
  ASSUME NEW S, IsFiniteSet(S), NEW f, NEW g, NEW h,
         Counts(f, S), Counts(g, S), Counts(h, S), \A n \in S : f[n] + g[n] <= h[n]
  PROVE  Total(f, S) + Total(g, S) <= Total(h, S)
<1> DEFINE Above == Units(h, S) \ Units(g, S)
           lift == [p \in Units(f, S) |-> <<p[1], g[p[1]] + p[2]>>]
<1>1. /\ IsFiniteSet(Units(f, S)) /\ Total(f, S) \in Nat
      /\ IsFiniteSet(Units(g, S)) /\ Total(g, S) \in Nat
      /\ IsFiniteSet(Units(h, S)) /\ Total(h, S) \in Nat
  BY UnitsFinite
<1>2. ASSUME NEW p \in Units(f, S)
      PROVE  lift[p] \in Above
  <2>1. PICK n \in S, i \in Nat : i \in 1..f[n] /\ p = <<n, i>>
    BY Unit
  <2>2. lift[p] = <<n, g[n] + i>>
    BY <2>1
  <2>3. g[n] + i \in 1..h[n] /\ g[n] + i \notin 1..g[n]
    BY <2>1 DEF Counts
  <2>4. lift[p] \in Units(h, S)
    BY <2>2, <2>3, Unit
  <2>5. lift[p] \notin Units(g, S)
    BY <2>2, <2>3, Unit
  <2> QED
    BY <2>4, <2>5
<1>3. ASSUME NEW p \in Units(f, S), NEW q \in Units(f, S), lift[p] = lift[q]
      PROVE  p = q
  <2>1. PICK n \in S, i \in Nat : i \in 1..f[n] /\ p = <<n, i>>
    BY Unit
  <2>2. PICK m \in S, j \in Nat : j \in 1..f[m] /\ q = <<m, j>>
    BY Unit
  <2>3. <<n, g[n] + i>> = <<m, g[m] + j>>
    BY <1>3, <2>1, <2>2
  <2> QED
    BY <2>1, <2>2, <2>3 DEF Counts
<1>4. lift \in Injection(Units(f, S), Above)
  BY <1>2, <1>3 DEF Injection, IsInjective
<1>5. IsFiniteSet(Above) /\ Cardinality(Above) = Total(h, S) - Cardinality(Units(h, S) \cap Units(g, S))
  BY <1>1, FS_Difference DEF Total
<1>6. Total(f, S) <= Cardinality(Above)
  BY <1>4, <1>5, FS_Injection DEF Total
<1>7. Units(h, S) \cap Units(g, S) = Units(g, S)
  <2>1. ASSUME NEW p \in Units(g, S)
        PROVE  p \in Units(h, S)
    <3>1. PICK n \in S, i \in Nat : i \in 1..g[n] /\ p = <<n, i>>
      BY Unit
    <3>2. i \in 1..h[n]
      BY <3>1 DEF Counts
    <3> QED
      BY <3>1, <3>2, Unit
  <2> QED
    BY <2>1
<1> QED
  BY <1>1, <1>5, <1>6, <1>7 DEF Total

-----------------------------------------------------------------------------
(***************************************************************************)
(* ChargedOnce.                                                            *)
(***************************************************************************)
\* What the node's next answer would charge for it, if it were settled now.
Due(c, l) == IF c = Absent THEN 0 ELSE IF c >= l THEN c - l ELSE c
InTurn(n) == jobAt \in {"fetched", "read"} /\ n = jobNode
\* A counter c over a charged part l, at a node in whose turn s was answered.
Owe(turn, c, l, s) == IF turn THEN Due(s, l) + Due(c, s) ELSE Due(c, l)
Owed(n) == Owe(InTurn(n), counter[n], last[n], sample)
Owing == [n \in Node |-> Owed(n)]

\* All that is charged, and may yet be, was moved and is not forgiven.
Covered == used + Total(Owing, Node) + Total(forgiven, Node) <= Total(moved, Node)

\* Since the two keep apart, what the job has read is still so.
Copies ==
  /\ jobAt \in {"sync", "fetched", "read"} => jobUsed \in {used, Unloaded}
  /\ jobAt = "read" => jobUsed = used /\ lastRead = last[jobNode]

\* What a reset leaves stays until the request ends.
WasReset == routeAt \in {"reset", "renewing"} => used = 0 /\ last = base

\* A ledger never goes back.
Ledger(n) ==
  /\ counter[n] = Absent => last[n] = 0 /\ baseline[n] = Keep
  /\ counter[n] # Absent => last[n] <= counter[n] /\ baseline[n] <= counter[n]
  /\ InTurn(n) => counter[n] # Absent /\ sample <= counter[n]
LedgersGrow == \A n \in Durable : Ledger(n)
InOrder == \A n \in Durable : InTurn(n) => last[n] <= sample

Accounts == Apart /\ Covered /\ Copies /\ WasReset /\ InOrder /\ NeverUndercharged

\* A clean renewal that has passed a node leaves no more to charge there than
\* was moved after it was asked for, whatever it found.
Alone == clean => jobAt = "idle" /\ routeAt # "idle"
Passed ==
  clean /\ routeAt = "reading" =>
    /\ routeCopy.used = used
    /\ \A n \in Node : /\ mark[n] <= moved[n]
                       /\ n \in routeTodo => baseline[n] = Keep
                       /\ n \notin routeTodo => Due(counter[n], Baselined[n]) + mark[n] <= moved[n]

ChargeInv == TypeOK /\ LedgersGrow /\ Alone /\ Passed /\ (exact => Accounts)

LEMMA DueType ==
  ASSUME NEW c \in Nat \cup {Absent}, NEW l \in Nat
  PROVE  Due(c, l) \in Nat
BY DEF Due, Absent

\* A turn that is given up is charged later, if not more.
LEMMA DueTriangle ==
  ASSUME NEW c \in Nat \cup {Absent}, NEW l \in Nat, NEW s \in Nat
  PROVE  Due(c, l) <= Due(s, l) + Due(c, s)
BY DEF Due, Absent

LEMMA DueMoves ==
  ASSUME NEW c \in Nat, NEW l \in Nat
  PROVE  Due(c + 1, l) <= Due(c, l) + 1
BY DEF Due, Absent

LEMMA OweType ==
  ASSUME NEW turn \in BOOLEAN, NEW c \in Nat \cup {Absent}, NEW l \in Nat, NEW s \in Nat
  PROVE  Owe(turn, c, l, s) \in Nat
<1>1. Due(c, l) \in Nat /\ Due(s, l) \in Nat /\ Due(c, s) \in Nat
  BY DueType
<1> QED
  BY <1>1 DEF Owe

SumsOK ==
  /\ Counts(Owing, Node) /\ Counts(moved, Node) /\ Counts(forgiven, Node) /\ Counts(mark, Node)
  /\ Counts(last, Durable) /\ Counts(base, Durable)
  /\ Total(Owing, Node) \in Nat /\ Total(moved, Node) \in Nat /\ Total(forgiven, Node) \in Nat
  /\ Total(last, Durable) \in Nat /\ Total(base, Durable) \in Nat

LEMMA NodesFinite == IsFiniteSet(Node) /\ IsFiniteSet(Durable)
BY UsageAssumption, FS_Subset

LEMMA Sums == TypeOK => SumsOK
<1> SUFFICES ASSUME TypeOK
             PROVE  SumsOK
  OBVIOUS
<1>1. ASSUME NEW n \in Node
      PROVE  Owing[n] \in Nat
  <2>1. InTurn(n) \in BOOLEAN /\ counter[n] \in Nat \cup {Absent} /\ last[n] \in Nat /\ sample \in Nat
    BY DEF TypeOK, StateTypes, InTurn
  <2> QED
    BY <2>1, OweType DEF Owing, Owed
<1>2. /\ Counts(moved, Node) /\ Counts(forgiven, Node) /\ Counts(mark, Node)
      /\ Counts(last, Durable) /\ Counts(base, Durable)
  BY UsageAssumption DEF TypeOK, StateTypes, HistoryTypes, Counts
<1>3. Counts(Owing, Node)
  BY <1>1 DEF Counts
<1> QED
  BY <1>2, <1>3, NodesFinite, UnitsFinite, Zenon DEF SumsOK

LEMMA SumsNext == TypeOK' => SumsOK'
BY Sums, PTL

\* A step at one node that charges no more than it takes from what is owed.
LEMMA OneNode ==
  ASSUME TypeOK, TypeOK', Covered, NEW n \in Node, forgiven' = forgiven,
         \A m \in Node \ {n} : Owed(m)' = Owed(m) /\ moved'[m] = moved[m],
         used' + Owed(n)' + moved[n] <= used + Owed(n) + moved'[n]
  PROVE  Covered'
<1>1. SumsOK /\ SumsOK'
  BY Sums, SumsNext
<1>2. Total(Owing', Node) + Owing[n] = Total(Owing, Node) + Owing'[n]
  <2>1. \A m \in Node \ {n} : Owing[m] = Owing'[m]
    BY DEF Owing
  <2> QED
    BY <1>1, <2>1, NodesFinite, TotalChange DEF SumsOK
<1>3. Total(moved', Node) + moved[n] = Total(moved, Node) + moved'[n]
  <2>1. \A m \in Node \ {n} : moved[m] = moved'[m]
    OBVIOUS
  <2> QED
    BY <1>1, <2>1, NodesFinite, TotalChange DEF SumsOK
<1>4. /\ Owing[n] = Owed(n) /\ Owing'[n] = Owed(n)'
      /\ Owing[n] \in Nat /\ Owing'[n] \in Nat
      /\ moved[n] \in Nat /\ moved'[n] \in Nat /\ used \in Nat /\ used' \in Nat
  BY <1>1 DEF Owing, SumsOK, Counts, TypeOK, StateTypes
<1> QED
  BY <1>1, <1>2, <1>3, <1>4 DEF Covered, SumsOK

\* The sums, step by step.
LEMMA TrafficCovered ==
  ASSUME TypeOK, TypeOK', Covered, forgiven' = forgiven,
         NEW n \in Node, Connect(n) \/ Move(n) \/ Disconnect(n)
  PROVE  Covered'
<1> USE DEF TypeOK, StateTypes, traffic, database, job, route
<1>1. UNCHANGED <<used, last, jobAt, jobNode, sample>>
  BY DEF Connect, Move, Disconnect
<1>2. \A m \in Node \ {n} : counter'[m] = counter[m] /\ moved'[m] = moved[m]
  BY DEF Connect, Move, Disconnect
<1>3. /\ counter[n] \in Nat \cup {Absent} /\ last[n] \in Nat /\ sample \in Nat
      /\ moved[n] \in Nat /\ moved'[n] \in Nat /\ used \in Nat /\ InTurn(n) \in BOOLEAN
  BY DEF InTurn
<1>4. ASSUME NEW l \in Nat
      PROVE  Due(counter'[n], l) + moved[n] <= Due(counter[n], l) + moved'[n]
  BY <1>3, <1>4 DEF Connect, Move, Disconnect, Due, Absent
<1>5. Owed(n)' + moved[n] <= Owed(n) + moved'[n]
  <2>1. Due(counter'[n], last[n]) + moved[n] <= Due(counter[n], last[n]) + moved'[n]
    BY <1>3, <1>4
  <2>2. Due(counter'[n], sample) + moved[n] <= Due(counter[n], sample) + moved'[n]
    BY <1>3, <1>4
  <2>3. counter'[n] \in Nat \cup {Absent}
    OBVIOUS
  <2>4. /\ Due(counter'[n], last[n]) \in Nat /\ Due(counter'[n], sample) \in Nat /\ Due(sample, last[n]) \in Nat
        /\ Due(counter[n], last[n]) \in Nat /\ Due(counter[n], sample) \in Nat
    BY <1>3, <2>3, DueType
  <2> QED
    BY <1>1, <1>3, <2>1, <2>2, <2>4 DEF Owed, Owe, InTurn
<1>6. \A m \in Node \ {n} : Owed(m)' = Owed(m)
  BY <1>1, <1>2 DEF Owed, InTurn
<1>7. Owed(n) \in Nat /\ Owed(n)' \in Nat
  BY Sums, SumsNext DEF SumsOK, Counts, Owing
<1> QED
  BY <1>1, <1>2, <1>3, <1>5, <1>6, <1>7, OneNode

\* A step that charges nothing and ends or begins a turn at most.
LEMMA TurnCovered ==
  ASSUME TypeOK, TypeOK', Covered,
         NEW n \in Node, UNCHANGED <<counter, moved, used, last, forgiven>>,
         \A m \in Node \ {n} : ~InTurn(m) /\ ~InTurn(m)',
         \/ sample' = sample /\ InTurn(n)' = InTurn(n)
         \/ InTurn(n)' /\ ~InTurn(n) /\ counter[n] # Absent /\ sample' = counter[n]
         \/ ~InTurn(n)'
  PROVE  Covered'
<1>1. /\ counter[n] \in Nat \cup {Absent} /\ last[n] \in Nat /\ sample \in Nat /\ sample' \in Nat
      /\ moved[n] \in Nat /\ used \in Nat /\ InTurn(n) \in BOOLEAN /\ InTurn(n)' \in BOOLEAN
  BY DEF TypeOK, StateTypes, InTurn
<1>2. Owed(n)' <= Owed(n)
  <2>1. Due(counter[n], last[n]) <= Due(sample, last[n]) + Due(counter[n], sample)
    BY <1>1, DueTriangle
  <2>2. Due(counter[n], last[n]) \in Nat /\ Due(sample, last[n]) \in Nat /\ Due(counter[n], sample) \in Nat
    BY <1>1, DueType
  <2>3. counter[n] # Absent => Due(counter[n], counter[n]) = 0
    BY <1>1 DEF Due, Absent
  <2> QED
    BY <1>1, <2>1, <2>2, <2>3 DEF Owed, Owe
<1>3. \A m \in Node \ {n} : Owed(m)' = Owed(m)
  BY DEF Owed, Owe
<1>4. Owed(n) \in Nat /\ Owed(n)' \in Nat
  BY Sums, SumsNext DEF SumsOK, Counts, Owing
<1> QED
  BY <1>1, <1>2, <1>3, <1>4, OneNode

LEMMA SettleCovered ==
  ASSUME TypeOK, TypeOK', Covered, Copies, forgiven' = forgiven, Settle
  PROVE  Covered'
<1> USE DEF TypeOK, StateTypes, traffic
<1>0. PICK n \in Node : n = jobNode
  OBVIOUS
<1>1. /\ jobAt = "read" /\ jobAt' = "sync" /\ UNCHANGED <<counter, moved>>
      /\ last' = [last EXCEPT ![n] = sample]
      /\ jobUsed = used /\ lastRead = last[n]
  BY <1>0 DEF Settle, Settled, Copies
<1>2. /\ counter[n] \in Nat \cup {Absent} /\ last[n] \in Nat /\ sample \in Nat
      /\ moved[n] \in Nat /\ used \in Nat
  BY <1>1
<1>3. used' = used + Due(sample, last[n])
  BY <1>0, <1>1, <1>2 DEF Settle, Delta, Due, Absent
<1>4. Owed(n) = Due(sample, last[n]) + Due(counter[n], sample)
  BY <1>0, <1>1 DEF Owed, Owe, InTurn
<1>5. Owed(n)' = Due(counter[n], sample)
  BY <1>0, <1>1, <1>2 DEF Owed, Owe, InTurn
<1>6. \A m \in Node \ {n} : Owed(m)' = Owed(m) /\ moved'[m] = moved[m]
  BY <1>0, <1>1 DEF Owed, Owe, InTurn
<1>7. Due(sample, last[n]) \in Nat /\ Due(counter[n], sample) \in Nat
  BY <1>2, DueType
<1> QED
  BY <1>1, <1>2, <1>3, <1>4, <1>5, <1>6, <1>7, OneNode

LEMMA JobCovered ==
  ASSUME TypeOK, TypeOK', Covered, Copies, forgiven' = forgiven,
         JobStep \/ SettleFails \/ JobCrash
  PROVE  Covered'
<1> USE DEF traffic, database, route, ForgetCall, ForgetJob
<1>0. jobNode \in Node
  BY DEF TypeOK, StateTypes
<1>1. CASE Settle
  BY <1>1, SettleCovered
<1>2. CASE StartSync \/ SyncDone \/ EnforceLoad \/ Disable
  BY <1>0, <1>2, TurnCovered DEF StartSync, SyncDone, EnforceLoad, Disable, InTurn
<1>3. CASE ReadLast
  BY <1>0, <1>3, TurnCovered DEF ReadLast, InTurn
<1>4. ASSUME NEW n \in Node, Fetch(n)
      PROVE  Covered'
  BY <1>4, TurnCovered DEF Fetch, InTurn
<1>5. ASSUME NEW n \in Node, FetchNothing(n)
      PROVE  Covered'
  BY <1>5, TurnCovered DEF FetchNothing, InTurn
<1>6. CASE SettleFails \/ JobCrash
  BY <1>0, <1>6, TurnCovered DEF SettleFails, JobCrash, InTurn
<1> QED
  BY <1>1, <1>2, <1>3, <1>4, <1>5, <1>6 DEF JobStep

LEMMA RouteCovered ==
  ASSUME Covered, WasReset, ~Resets, forgiven' = forgiven,
         StartRenewal \/ RouteStep \/ RenewalFails
  PROVE  Covered'
<1>1. UNCHANGED <<counter, moved, last, jobAt, jobNode, sample, used>>
  BY DEF RouteStep, StartRenewal, ReadCounter, KeepBaseline, ResetUsage, Refresh, Activate, Zeroed,
         RenewalFails, Resets, WasReset, traffic, database, job
<1> QED
  BY <1>1 DEF Covered, Owing, Owed, InTurn

LEMMA StepCovered ==
  ASSUME TypeOK, TypeOK', Covered, Copies, WasReset, ~Resets, forgiven' = forgiven, Step
  PROVE  Covered'
BY TrafficCovered, JobCovered, RouteCovered DEF Step

\* What the job has read stays so while no renewal runs beside it.
LEMMA CopiesStep ==
  ASSUME StateTypes, Apart, Copies, Apart', Step
  PROVE  Copies'
<1> USE DEF Copies, traffic, database, job, route, ForgetCall, ForgetJob
<1>1. ASSUME NEW n \in Node, Connect(n) \/ Move(n) \/ Disconnect(n)
      PROVE  Copies'
  BY <1>1 DEF Connect, Move, Disconnect
<1>2. CASE Settle
  <2>1. used' = used + Delta /\ jobUsed' = used + Delta /\ jobAt' = "sync"
    BY <1>2 DEF Settle, Settled, StateTypes
  <2> QED
    BY <2>1
<1>3. CASE ReadLast
  BY <1>3 DEF ReadLast, Unloaded, StateTypes
<1>4. CASE StartSync \/ SyncDone \/ EnforceLoad \/ Disable \/ SettleFails \/ JobCrash
  BY <1>4 DEF StartSync, SyncDone, EnforceLoad, Disable, SettleFails, JobCrash
<1>5. ASSUME NEW n \in Node, Fetch(n) \/ FetchNothing(n)
      PROVE  Copies'
  BY <1>5 DEF Fetch, FetchNothing
<1>6. CASE StartRenewal \/ RouteStep \/ RenewalFails
  <2>1. CASE StartRenewal
    BY <2>1 DEF StartRenewal
  <2>2. CASE RouteStep \/ RenewalFails
    <3>1. jobAt = "idle" /\ jobAt' = jobAt
      BY <2>2 DEF Apart, RouteStep, ReadCounter, KeepBaseline, ResetUsage, Refresh, Activate, RenewalFails
    <3> QED
      BY <3>1
  <2> QED
    BY <1>6, <2>1, <2>2
<1> QED
  BY <1>1, <1>2, <1>3, <1>4, <1>5, <1>6 DEF Step, JobStep

\* The job changes nothing of a request, and moves only if it is not idle.
LEMMA JobAlone ==
  ASSUME JobStep \/ SettleFails \/ JobCrash
  PROVE  /\ UNCHANGED <<route, counter, moved>>
         /\ jobAt = "idle" => UNCHANGED database
BY DEF JobStep, StartSync, ReadLast, Settle, Settled, SyncDone, EnforceLoad, Disable, Fetch,
       FetchNothing, SettleFails, JobCrash, traffic

LEMMA WasResetStep ==
  ASSUME Apart, Apart', WasReset, ~Resets, base' = base, Step
  PROVE  WasReset'
<1> USE DEF WasReset, traffic, database, job
<1>1. ASSUME NEW n \in Node, Connect(n) \/ Move(n) \/ Disconnect(n)
      PROVE  WasReset'
  BY <1>1 DEF Connect, Move, Disconnect, route
<1>2. CASE JobStep \/ SettleFails \/ JobCrash
  <2>1. CASE routeAt = "idle"
    BY <1>2, <2>1, JobAlone DEF route
  <2>2. CASE routeAt # "idle"
    BY <1>2, <2>2, JobAlone DEF route, Apart
  <2> QED
    BY <2>1, <2>2
<1>3. ASSUME NEW n \in Node, ReadCounter(n) \/ KeepBaseline(n)
      PROVE  WasReset'
  BY <1>3 DEF ReadCounter, KeepBaseline
<1>4. CASE ResetUsage
  BY <1>4 DEF ResetUsage, Resets
<1>5. CASE StartRenewal \/ Refresh \/ Activate \/ RenewalFails
  BY <1>5 DEF StartRenewal, Refresh, Activate, RenewalFails
<1> QED
  BY <1>1, <1>2, <1>3, <1>4, <1>5 DEF Step, RouteStep

LEMMA LedgersStep ==
  ASSUME TypeOK, LedgersGrow, [Next]_vars
  PROVE  LedgersGrow'
<1> SUFFICES ASSUME NEW d \in Durable
             PROVE  Ledger(d)'
  BY DEF LedgersGrow
<1> USE DEF Ledger, InTurn, traffic, database, job, route, ForgetCall, ForgetJob, ForgetRoute
<1>1. d \in Node /\ Ledger(d) /\ AnyNode \in Node /\ StateTypes
  BY UsageAssumption, Forgotten DEF LedgersGrow, TypeOK
<1>2. ASSUME NEW n \in Node, Connect(n) \/ Move(n) \/ Disconnect(n)
      PROVE  Ledger(d)'
  BY <1>1, <1>2 DEF Connect, Move, Disconnect, Keep, Absent, StateTypes
<1>3. CASE Settle
  <2>1. /\ UNCHANGED <<counter, baseline>> /\ jobAt' = "sync" /\ jobAt = "read"
        /\ last'[d] = IF d = jobNode THEN sample ELSE last[d]
    BY <1>1, <1>3 DEF Settle, Settled, StateTypes
  <2> QED
    BY <1>1, <2>1
<1>4. CASE StartSync \/ ReadLast \/ SyncDone \/ EnforceLoad \/ Disable \/ SettleFails \/ JobCrash
  BY <1>1, <1>4 DEF StartSync, ReadLast, SyncDone, EnforceLoad, Disable, SettleFails, JobCrash
<1>5. ASSUME NEW n \in Node, Fetch(n) \/ FetchNothing(n)
      PROVE  Ledger(d)'
  BY <1>1, <1>5 DEF Fetch, FetchNothing, StateTypes, Absent
<1>6. CASE StartRenewal
  BY <1>1, <1>6 DEF StartRenewal, Keep, Absent, StateTypes
<1>7. ASSUME NEW n \in Node, ReadCounter(n) \/ KeepBaseline(n)
      PROVE  Ledger(d)'
  BY <1>1, <1>7 DEF ReadCounter, KeepBaseline, StateTypes, Absent, Keep
<1>8. CASE ResetUsage
  BY <1>1, <1>8 DEF ResetUsage, Baselined, NoBaseline, Keep, Absent, StateTypes
<1>9. CASE Refresh \/ Activate \/ RenewalFails
  <2>1. /\ baseline' \in {baseline, NoBaseline}
        /\ UNCHANGED <<counter, last, jobAt, jobNode, sample>>
    BY <1>9 DEF Refresh, Activate, RenewalFails
  <2>2. baseline'[d] \in {baseline[d], Keep} /\ counter[d] \in Nat \cup {Absent}
    BY <1>1, <2>1 DEF NoBaseline, StateTypes
  <2> QED
    BY <1>1, <2>1, <2>2 DEF Keep, Absent
<1>10. CASE UNCHANGED vars
  BY <1>1, <1>10 DEF vars
<1> QED
  BY <1>2, <1>3, <1>4, <1>5, <1>6, <1>7, <1>8, <1>9, <1>10 DEF Next, Step, JobStep, RouteStep

\* Within a node's turn only a reset could move last_usage.
LEMMA InOrderStep ==
  ASSUME StateTypes, LedgersGrow, Apart, Apart', InOrder, ~Resets, Step
  PROVE  InOrder'
<1> SUFFICES ASSUME NEW d \in Durable, InTurn(d)'
             PROVE  last'[d] <= sample'
  BY DEF InOrder
<1> USE DEF InTurn, traffic, database, job, route, ForgetCall, ForgetJob
<1>1. d \in Node /\ Ledger(d) /\ (InTurn(d) => last[d] <= sample)
  BY UsageAssumption DEF LedgersGrow, InOrder
<1>2. ASSUME NEW n \in Node, Fetch(n)
      PROVE  last'[d] <= sample'
  BY <1>1, <1>2 DEF Fetch, Ledger
<1>3. ASSUME NEW n \in Node, Connect(n) \/ Move(n) \/ Disconnect(n) \/ FetchNothing(n)
      PROVE  last'[d] <= sample'
  BY <1>1, <1>3 DEF Connect, Move, Disconnect, FetchNothing
<1>4. CASE StartSync \/ ReadLast \/ Settle \/ SyncDone \/ EnforceLoad \/ Disable \/ SettleFails \/ JobCrash
  BY <1>1, <1>4 DEF StartSync, ReadLast, Settle, Settled, SyncDone, EnforceLoad, Disable, SettleFails, JobCrash
<1>5. CASE StartRenewal \/ RouteStep \/ RenewalFails
  <2>1. UNCHANGED <<jobAt, jobNode, sample, last>>
    BY <1>5 DEF StartRenewal, RouteStep, ReadCounter, KeepBaseline, ResetUsage, Refresh, Activate,
                RenewalFails, Resets
  <2> QED
    BY <1>1, <2>1
<1> QED
  BY <1>2, <1>3, <1>4, <1>5 DEF Step, JobStep

\* What last_usage moves past at a ledger is charged by the same step.
LEMMA ChargedStep ==
  ASSUME TypeOK, TypeOK', Copies, WasReset, InOrder, NeverUndercharged, ~Resets, base' = base, Step
  PROVE  NeverUndercharged'
<1> USE DEF NeverUndercharged, traffic, database, job, route
<1>1. SumsOK /\ SumsOK'
  BY Sums, SumsNext
<1>2. CASE Settle
  <2>1. PICK n \in Node : n = jobNode
    BY DEF TypeOK, StateTypes
  <2>2. /\ used' = used + Delta /\ sample \in Nat /\ last[n] \in Nat /\ used \in Nat
        /\ last' = [last EXCEPT ![n] = sample] /\ lastRead = last[n] /\ InTurn(n) /\ Delta \in Nat
    BY <1>2, <2>1, DeltaType DEF Settle, Settled, Copies, InTurn, TypeOK, StateTypes
  <2>3. CASE n \in Durable
    <3>1. Total(last', Durable) + last[n] = Total(last, Durable) + last'[n]
      <4>1. \A m \in Durable \ {n} : last[m] = last'[m]
        BY <2>2, UsageAssumption DEF TypeOK, StateTypes
      <4> QED
        BY <1>1, <2>3, <4>1, NodesFinite, TotalChange DEF SumsOK
    <3>2. last'[n] = sample /\ last[n] <= sample
      BY <2>2, <2>3 DEF InOrder, TypeOK, StateTypes
    <3> QED
      BY <1>1, <2>2, <3>1, <3>2 DEF Delta, SumsOK
  <2>4. CASE n \notin Durable
    <3>1. Total(last, Durable) = Total(last', Durable)
      <4>1. \A m \in Durable : last[m] = last'[m]
        BY <2>2, <2>4, UsageAssumption DEF TypeOK, StateTypes
      <4> QED
        BY <4>1, TotalSame
    <3> QED
      BY <1>1, <2>2, <3>1 DEF SumsOK
  <2> QED
    BY <2>3, <2>4
<1>3. CASE ResetUsage
  BY <1>3 DEF ResetUsage, Resets
<1>4. CASE Activate
  BY <1>4 DEF Activate, Zeroed, WasReset
<1>5. ASSUME UNCHANGED <<used, last>>
      PROVE  NeverUndercharged'
  BY <1>5
<1>6. ASSUME NEW n \in Node, Connect(n) \/ Move(n) \/ Disconnect(n) \/ Fetch(n) \/ FetchNothing(n)
                              \/ ReadCounter(n) \/ KeepBaseline(n)
      PROVE  UNCHANGED <<used, last>>
  BY <1>6 DEF Connect, Move, Disconnect, Fetch, FetchNothing, ReadCounter, KeepBaseline
<1>7. ASSUME \/ StartSync \/ ReadLast \/ SyncDone \/ EnforceLoad \/ Disable \/ SettleFails \/ JobCrash
             \/ StartRenewal \/ Refresh \/ RenewalFails
      PROVE  UNCHANGED <<used, last>>
  BY <1>7 DEF StartSync, ReadLast, SyncDone, EnforceLoad, Disable, SettleFails, JobCrash,
              StartRenewal, Refresh, RenewalFails
<1> QED
  BY <1>2, <1>3, <1>4, <1>5, <1>6, <1>7 DEF Step, JobStep, RouteStep

LEMMA AccountsStep ==
  ASSUME TypeOK, TypeOK', LedgersGrow, Accounts, Apart', ~Resets,
         UNCHANGED <<forgiven, base>>, Step
  PROVE  Accounts'
BY StepCovered, CopiesStep, WasResetStep, InOrderStep, ChargedStep DEF Accounts, TypeOK

-----------------------------------------------------------------------------
(***************************************************************************)
(* A clean renewal.                                                        *)
(***************************************************************************)
LEMMA AloneStep ==
  ASSUME Reckon
  PROVE  Alone'
BY DEF Reckon, Alone

LEMMA PassedStep ==
  ASSUME TypeOK, TypeOK', Alone, Passed, Next
  PROVE  Passed'
<1> SUFFICES ASSUME clean', routeAt' = "reading"
             PROVE  Passed'
  BY DEF Passed
<1> USE DEF Passed, TypeOK, StateTypes, HistoryTypes, traffic, database, job
<1>1. /\ routeAt = "idle" \/ clean
      /\ ~Missed /\ mark' = IF routeAt = "idle" THEN moved ELSE mark
  BY DEF Next, Reckon
<1>2. ASSUME NEW n \in Node, Connect(n) \/ Move(n) \/ Disconnect(n)
      PROVE  Passed'
  <2>1. UNCHANGED <<used, last, routeAt, routeTodo, routeCopy, baseline>> /\ clean /\ mark' = mark
    BY <1>1, <1>2 DEF Connect, Move, Disconnect, route
  <2>2. \A m \in Node \ {n} : counter'[m] = counter[m] /\ moved'[m] = moved[m]
    BY <1>2 DEF Connect, Move, Disconnect
  <2>3. moved[n] \in Nat /\ moved'[n] \in Nat /\ mark[n] \in Nat /\ Baselined[n] \in Nat
    BY DEF Baselined, Keep
  <2>4. counter[n] \in Nat \cup {Absent} /\ counter'[n] \in Nat \cup {Absent}
    OBVIOUS
  <2>5. moved[n] <= moved'[n] /\ Due(counter'[n], Baselined[n]) + moved[n] <= Due(counter[n], Baselined[n]) + moved'[n]
    BY <1>2, <2>3, <2>4 DEF Connect, Move, Disconnect, Due, Absent
  <2>6. Due(counter[n], Baselined[n]) \in Nat /\ Due(counter'[n], Baselined[n]) \in Nat
    BY <2>3, <2>4, DueType
  <2>7. Baselined' = Baselined
    BY <2>1 DEF Baselined
  <2> QED
    BY <2>1, <2>2, <2>3, <2>5, <2>6, <2>7
<1>3. CASE JobStep \/ SettleFails \/ JobCrash
  <2>1. UNCHANGED <<routeAt, routeTodo, routeCopy, baseline, counter, moved>> /\ clean /\ mark' = mark
    BY <1>1, <1>3, JobAlone DEF route
  <2>2. UNCHANGED <<used, last>>
    BY <1>3, <2>1, JobAlone DEF Alone
  <2>3. Baselined' = Baselined
    BY <2>1, <2>2 DEF Baselined
  <2> QED
    BY <2>1, <2>2, <2>3
<1>4. CASE StartRenewal
  <2>1. /\ routeTodo' = Node /\ routeCopy'.used = used
        /\ baseline' = [n \in Node |-> Keep] /\ mark' = moved /\ UNCHANGED <<used, moved>>
    BY <1>1, <1>4 DEF StartRenewal
  <2> QED
    BY <2>1
<1>5. ASSUME NEW n \in Node, ReadCounter(n)
      PROVE  Passed'
  <2>1. /\ routeAt = "reading" /\ n \in routeTodo /\ routeTodo' = routeTodo \ {n}
        /\ UNCHANGED <<used, last, routeCopy, moved, counter>> /\ clean /\ mark' = mark
        /\ baseline' = [baseline EXCEPT ![n] = counter[n]] /\ counter[n] \in Nat
    BY <1>1, <1>5 DEF ReadCounter
  <2>2. \A m \in Node \ {n} : Baselined'[m] = Baselined[m]
    BY <2>1 DEF Baselined
  <2>3. Baselined'[n] = counter[n]
    BY <2>1 DEF Baselined, Keep
  <2>4. Due(counter[n], counter[n]) = 0 /\ mark[n] \in Nat
    BY <2>1 DEF Due, Absent
  <2> QED
    BY <2>1, <2>2, <2>3, <2>4
<1>6. ASSUME NEW n \in Node, KeepBaseline(n)
      PROVE  Passed'
  <2>1. /\ routeAt = "reading" /\ n \in routeTodo /\ routeTodo' = routeTodo \ {n}
        /\ UNCHANGED <<used, last, baseline, routeCopy, moved, counter>> /\ clean /\ mark' = mark
    BY <1>1, <1>6 DEF KeepBaseline
  <2>2. Baselined' = Baselined
    BY <2>1 DEF Baselined
  <2>3. counter[n] = Absent
    BY <1>1, <2>1 DEF Missed
  <2>4. Due(counter[n], Baselined[n]) = 0 /\ mark[n] \in Nat
    BY <2>3 DEF Due
  <2> QED
    BY <2>1, <2>2, <2>4
<1>7. CASE ResetUsage \/ Refresh \/ Activate \/ RenewalFails
  BY <1>7 DEF ResetUsage, Refresh, Activate, RenewalFails
<1> QED
  BY <1>2, <1>3, <1>4, <1>5, <1>6, <1>7 DEF Next, Step, RouteStep

\* Whatever the accounts were, the reset of a clean renewal sets them right.
LEMMA ResetAccounts ==
  ASSUME TypeOK, TypeOK', Alone, Passed, clean, ResetUsage, forgiven' = mark, base' = last'
  PROVE  Accounts'
<1> USE DEF traffic, job
<1>1. /\ used' = 0 /\ last' = Baselined
      /\ UNCHANGED <<counter, moved, jobAt>> /\ jobAt = "idle"
  BY DEF ResetUsage, Zeroed, Passed, Alone
<1>2. SumsOK /\ SumsOK'
  BY Sums, SumsNext
<1>3. ASSUME NEW n \in Node
      PROVE  Owing'[n] + mark[n] <= moved[n]
  <2>1. Due(counter[n], Baselined[n]) + mark[n] <= moved[n]
    BY DEF ResetUsage, Passed
  <2>2. Owing'[n] = Due(counter[n], Baselined[n])
    BY <1>1 DEF Owing, Owed, Owe, InTurn
  <2> QED
    BY <2>1, <2>2
<1>4. Total(Owing', Node) + Total(mark, Node) <= Total(moved, Node)
  BY <1>2, <1>3, NodesFinite, TotalSum DEF SumsOK
<1>5. Covered'
  BY <1>1, <1>2, <1>4 DEF Covered, SumsOK
<1>6. Apart' /\ Copies' /\ WasReset' /\ InOrder'
  BY <1>1 DEF Apart, Copies, WasReset, InOrder, InTurn
<1>7. NeverUndercharged'
  BY <1>1, <1>2 DEF NeverUndercharged, SumsOK
<1> QED
  BY <1>5, <1>6, <1>7 DEF Accounts

\* The accounts become exact by a clean reset only, and stay so until a
\* renewal runs beside the job or a reset is not clean.
LEMMA ExactStep ==
  ASSUME ChargeInv, TypeOK', Next, exact'
  PROVE  Accounts'
<1>1. CASE Resets
  <2>1. clean /\ forgiven' = mark /\ base' = last'
    BY <1>1 DEF Next, Reckon
  <2>2. ResetUsage
    BY <1>1 DEF Resets, Next, Step, JobStep, RouteStep, Connect, Move, Disconnect, StartSync, ReadLast,
                Settle, Settled, SyncDone, EnforceLoad, Disable, Fetch, FetchNothing, SettleFails, JobCrash,
                StartRenewal, ReadCounter, KeepBaseline, Refresh, Activate, RenewalFails, route
  <2> QED
    BY <2>1, <2>2, ResetAccounts DEF ChargeInv
<1>2. CASE ~Resets
  <2>1. exact /\ Apart' /\ UNCHANGED <<forgiven, base>> /\ Step
    BY <1>2 DEF Next, Reckon
  <2> QED
    BY <1>2, <2>1, AccountsStep DEF ChargeInv
<1> QED
  BY <1>1, <1>2

LEMMA ChargeInit == Init => ChargeInv
<1> SUFFICES ASSUME Init
             PROVE  ChargeInv
  OBVIOUS
<1>1. TypeOK
  BY InitTypes
<1>2. Covered
  <2>1. SumsOK
    BY <1>1, Sums
  <2>2. \A n \in Node : Owing[n] + forgiven[n] <= moved[n]
    BY DEF Init, Owing, Owed, Owe, InTurn, Due, Nothing
  <2>3. Total(Owing, Node) + Total(forgiven, Node) <= Total(moved, Node)
    BY <2>1, <2>2, NodesFinite, TotalSum DEF SumsOK
  <2> QED
    BY <2>1, <2>3 DEF Covered, SumsOK, Init
<1>3. Apart /\ Copies /\ WasReset /\ InOrder /\ Alone /\ Passed
  BY DEF Init, Apart, Copies, WasReset, InOrder, InTurn, Alone, Passed
<1>4. LedgersGrow
  BY UsageAssumption DEF Init, LedgersGrow, Ledger, InTurn, NoBaseline, Nothing
<1>5. NeverUndercharged
  <2>1. Total(last, Durable) \in Nat
    BY <1>1, Sums DEF SumsOK
  <2> QED
    BY <2>1 DEF Init, NeverUndercharged
<1> QED
  BY <1>1, <1>2, <1>3, <1>4, <1>5 DEF ChargeInv, Accounts

LEMMA ChargeStep ==
  ASSUME ChargeInv, [Next]_vars
  PROVE  ChargeInv'
<1>1. TypeOK' /\ LedgersGrow'
  BY TypeStep, LedgersStep DEF ChargeInv
<1>2. CASE Next
  BY <1>1, <1>2, AloneStep, PassedStep, ExactStep DEF ChargeInv, Next
<1>3. CASE UNCHANGED vars
  <2>1. Baselined' = Baselined
    BY <1>3 DEF vars, database, route, Baselined
  <2>2. Alone' /\ Passed'
    BY <1>3, <2>1 DEF ChargeInv, Alone, Passed, vars, traffic, database, job, route, reckoning
  <2>3. Accounts' = Accounts /\ exact' = exact
    BY <1>3 DEF Accounts, Apart, Covered, Owing, Owed, Copies, WasReset, InOrder, InTurn,
                NeverUndercharged, vars, traffic, database, job, route, reckoning
  <2> QED
    BY <1>1, <2>2, <2>3 DEF ChargeInv
<1> QED
  BY <1>2, <1>3

\* Whatever the job and the renewals fail at, overlap with or miss: from a
\* renewal that runs alone and misses no counter, until one that overlaps the
\* job or resets what it has not read, nothing the user moved is charged twice,
\* or after a renewal that was asked for later; and nothing that last_usage
\* has moved past at a ledger is left uncharged.
THEOREM EveryUnitOnce == Spec => []ChargedOnce
<1>1. ChargeInv => ChargedOnce
  <2> SUFFICES ASSUME ChargeInv, exact
               PROVE  NeverOvercharged /\ NeverUndercharged
    BY DEF ChargedOnce
  <2>1. SumsOK /\ used \in Nat
    BY Sums DEF ChargeInv, TypeOK, StateTypes
  <2> QED
    BY <2>1 DEF ChargeInv, Accounts, Covered, NeverOvercharged, SumsOK
<1> QED
  BY <1>1, ChargeInit, ChargeStep, PTL DEF Spec

-----------------------------------------------------------------------------
(***************************************************************************)
(* SessionLease for any connections, nodes, limits and times: types, the   *)
(* invariant that bounds the age of a row by the age of a status that does *)
(* not have its connection, the limit, and what a row can be lost to.      *)
(***************************************************************************)

LEMMA LiveLeased == LeaseTypes => Live \subseteq leased /\ Live \subseteq Conn
  BY DEF Live, LeaseTypes

\* What every call that touches the rows does to them.
LEMMA RowsEffect ==
  ASSUME LeaseInv, NEW R \in SUBSET Conn, NEW F, NEW N \in SUBSET R, Rows(R, F, N),
         own \cap R \subseteq up'
  PROVE  /\ leased' = R
         /\ seen' \in [Conn -> 0..(TTL + 1)] /\ held' \in [Conn -> 0..Grace]
         /\ own' \subseteq Conn /\ own' \subseteq leased' \cap up'
         /\ \A c \in own' : held'[c] = 0 \/ (c \in own /\ held'[c] = held[c])
  <1>0. TTL \in Nat /\ Grace \in Nat BY LeaseAssumption
  <1>1. leased' = R BY DEF Rows
  <1>2. seen' \in [Conn -> 0..(TTL + 1)]
    BY <1>0 DEF Rows, LeaseInv, LeaseTypes
  <1>3. held' \in [Conn -> 0..Grace]
    BY <1>0 DEF Rows, LeaseInv, LeaseTypes
  <1>4. own' = (own \cap R) \cup (N \cap up') BY DEF Rows
  <1>5. ASSUME NEW c \in own' PROVE held'[c] = 0 \/ (c \in own /\ held'[c] = held[c])
    <2>1. c \in Conn BY <1>4
    <2>2. held'[c] = IF c \in R \ N THEN held[c] ELSE 0 BY <2>1 DEF Rows
    <2>3. QED BY <1>4, <2>2
  <1>6. QED BY <1>1, <1>2, <1>3, <1>4, <1>5

\* A call that leaves the agents' cycles alone, or only sends a heartbeat,
\* keeps the invariant.
LEMMA RowsKeep ==
  ASSUME LeaseInv, NEW R \in SUBSET Conn, NEW F, NEW N \in SUBSET R, Rows(R, F, N),
         own \cap R \subseteq up', up' \subseteq Conn,
         todo' \in [Home -> SUBSET Conn], late' \subseteq HookCall,
         UNCHANGED <<user, busy, status, lag>>
  PROVE  LeaseInv'
  <1>1. LeaseTypes' BY RowsEffect DEF LeaseInv, LeaseTypes, user
  <1>2. LagInv'
    <2>1. own' \subseteq leased' \cap up' BY RowsEffect
    <2>2. ASSUME NEW c \in own', HomeOf[c] \in busy', c \notin status'[HomeOf[c]]
          PROVE  held'[c] <= lag'[HomeOf[c]]
      <3>1. c \in Conn /\ HomeOf[c] \in Home BY RowsEffect, LeaseAssumption
      <3>2. lag[HomeOf[c]] \in 0..MaxLag BY <3>1 DEF LeaseInv, LeaseTypes
      <3>3. held'[c] = 0 \/ (c \in own /\ held'[c] = held[c]) BY RowsEffect
      <3>4. QED BY <2>2, <3>2, <3>3, LeaseAssumption DEF LeaseInv, LagInv
    <2>3. QED BY <2>1, <2>2 DEF LagInv
  <1>3. QED BY <1>1, <1>2 DEF LeaseInv

\* The same when the rows are not touched and connections only come, or go
\* with their claim to a row.
LEMMA ConnKeep ==
  ASSUME LeaseInv, up' \subseteq Conn, own' \subseteq own, own' \subseteq up',
         todo' \in [Home -> SUBSET Conn], late' \subseteq HookCall,
         UNCHANGED <<rows, user, busy, status, lag>>
  PROVE  LeaseInv'
  <1>1. LeaseTypes' BY DEF LeaseInv, LeaseTypes, rows, user
  <1>2. LagInv' BY DEF LeaseInv, LagInv, rows
  <1>3. QED BY <1>1, <1>2 DEF LeaseInv

LEMMA InsertKeep ==
  ASSUME LeaseInv, NEW c \in Conn, Insert(c), up \subseteq up', up' \subseteq Conn,
         todo' \in [Home -> SUBSET Conn], late' \subseteq HookCall,
         UNCHANGED <<user, busy, status, lag>>
  PROVE  LeaseInv'
  <1>1. Rows(Live \cup {c}, {}, {c}) BY DEF Insert
  <1>2. Live \cup {c} \in SUBSET Conn BY LiveLeased DEF LeaseInv
  <1>3. own \subseteq up BY DEF LeaseInv, LagInv
  <1>4. QED BY <1>1, <1>2, <1>3, RowsKeep

\* A heartbeat, answered or lost.
LEMMA BeatKeep ==
  ASSUME LeaseInv, NEW c \in Conn, Heartbeat(c) \/ BeatLost(c) \/ TerminateFails(c)
  PROVE  LeaseInv'
  <1>0. Live \in SUBSET Conn /\ up \subseteq Conn /\ own \subseteq up
    BY LiveLeased DEF LeaseInv, LeaseTypes, LagInv
  <1>1. Beat(c) BY DEF Heartbeat, Touch, Recover, Ignore, Terminate, BeatLost, TerminateFails
  <1>2. /\ todo' \in [Home -> SUBSET Conn] /\ late' \subseteq HookCall
        /\ UNCHANGED <<user, busy, status, lag>>
    <2>1. HomeOf[c] \in Home BY LeaseAssumption
    <2>2. todo \in [Home -> SUBSET Conn] /\ late \subseteq HookCall BY DEF LeaseInv, LeaseTypes
    <2>3. QED BY <1>1, <2>1, <2>2 DEF Beat
  <1>3. CASE Touch(c)
    <2>1. PICK K \in SUBSET Live : Rows(K, {c}, {}) BY <1>3 DEF Touch
    <2>2. K \in SUBSET Conn /\ {} \in SUBSET K BY <1>0
    <2>3. up' = up BY <1>3 DEF Touch
    <2>4. QED BY <1>0, <1>2, <2>1, <2>2, <2>3, RowsKeep
  <1>4. CASE Recover(c)
    <2>1. up' = up /\ Insert(c) BY <1>4 DEF Recover
    <2>2. QED BY <1>0, <1>2, <2>1, InsertKeep
  <1>5. CASE Ignore(c)
    <2>1. up' = up /\ Rows(Live, {}, {}) BY <1>5 DEF Ignore
    <2>2. {} \in SUBSET Live OBVIOUS
    <2>3. QED BY <1>0, <1>2, <2>1, <2>2, RowsKeep
  <1>6. CASE Terminate(c)
    <2>1. UNCHANGED rows /\ up' = up \ {c} /\ own' = own \ {c} BY <1>6 DEF Terminate
    <2>2. QED BY <1>0, <1>2, <2>1, ConnKeep
  <1>7. CASE BeatLost(c) \/ TerminateFails(c)
    <2>1. UNCHANGED rows /\ up' = up /\ own' = own BY <1>7 DEF BeatLost, TerminateFails
    <2>2. QED BY <1>0, <1>2, <2>1, ConnKeep
  <1>8. QED BY <1>3, <1>4, <1>5, <1>6, <1>7 DEF Heartbeat

\* The answer to an acquire, in time or late.
LEMMA GrantKeep ==
  ASSUME LeaseInv, NEW c \in Conn, Grant(c), up \subseteq up', up' \subseteq Conn,
         todo' \in [Home -> SUBSET Conn], late' \subseteq HookCall,
         UNCHANGED <<user, busy, status, lag>>
  PROVE  LeaseInv'
  <1>1. CASE Rows(Live, {c}, {})
    <2>1. Live \in SUBSET Conn /\ {} \in SUBSET Live /\ own \subseteq up
      BY LiveLeased DEF LeaseInv, LagInv
    <2>2. QED BY <1>1, <2>1, RowsKeep
  <1>2. CASE Insert(c) BY <1>2, InsertKeep
  <1>3. QED BY <1>1, <1>2 DEF Grant

\* OpenVPN's hooks.
LEMMA HookKeep ==
  ASSUME LeaseInv, NEW c \in Conn,
         \/ Acquire(c) \/ Deny(c) \/ FailOpen(c) \/ Release(c) \/ ReleaseLost(c)
         \/ LateAcquire(c) \/ LateRelease(c)
  PROVE  LeaseInv'
  <1>0. Live \in SUBSET Conn /\ leased \in SUBSET Conn /\ up \subseteq Conn /\ own \subseteq up
    BY LiveLeased DEF LeaseInv, LeaseTypes, LagInv
  <1>1. todo' \in [Home -> SUBSET Conn] /\ UNCHANGED <<user, busy, status, lag>>
    BY DEF Acquire, Deny, FailOpen, Release, ReleaseLost, LateAcquire, LateRelease, agent,
           LeaseInv, LeaseTypes
  <1>2. late' \subseteq HookCall
    <2>1. late \subseteq HookCall BY DEF LeaseInv, LeaseTypes
    <2>2. <<"acquire", c>> \in HookCall /\ <<"release", c>> \in HookCall BY DEF HookCall
    <2>3. late' \subseteq late \cup {<<"acquire", c>>, <<"release", c>>}
      BY DEF Acquire, Deny, FailOpen, Release, ReleaseLost, LateAcquire, LateRelease, GiveUp
    <2>4. QED BY <2>1, <2>2, <2>3
  <1>3. CASE Acquire(c)
    <2>1. up' = up \cup {c} /\ Grant(c) BY <1>3 DEF Acquire
    <2>2. QED BY <1>0, <1>1, <1>2, <2>1, GrantKeep
  <1>4. CASE Deny(c)
    <2>1. up' = up /\ Rows(Live, {}, {}) BY <1>4 DEF Deny
    <2>2. {} \in SUBSET Live OBVIOUS
    <2>3. QED BY <1>0, <1>1, <1>2, <2>1, <2>2, RowsKeep
  <1>5. CASE FailOpen(c)
    <2>1. UNCHANGED <<rows, own>> /\ up' = up \cup {c} BY <1>5 DEF FailOpen
    <2>2. QED BY <1>0, <1>1, <1>2, <2>1, ConnKeep
  <1>6. ASSUME Delete(c), up \ {c} \subseteq up', up' \subseteq Conn PROVE LeaseInv'
    <2>1. Rows(leased \ {c}, {}, {}) BY <1>6 DEF Delete
    <2>2. {} \in SUBSET (leased \ {c}) /\ leased \ {c} \in SUBSET Conn BY <1>0
    <2>3. QED BY <1>0, <1>1, <1>2, <1>6, <2>1, <2>2, RowsKeep
  <1>7. CASE Release(c) \/ LateRelease(c) BY <1>0, <1>6, <1>7 DEF Release, LateRelease
  <1>8. CASE ReleaseLost(c)
    <2>1. UNCHANGED rows /\ up' = up \ {c} /\ own' = own \ {c} BY <1>8 DEF ReleaseLost
    <2>2. QED BY <1>0, <1>1, <1>2, <2>1, ConnKeep
  <1>9. CASE LateAcquire(c)
    <2>1. up' = up /\ Grant(c) BY <1>9 DEF LateAcquire
    <2>2. QED BY <1>0, <1>1, <1>2, <2>1, GrantKeep
  <1>10. QED BY <1>3, <1>4, <1>5, <1>7, <1>8, <1>9

\* The steps of an agent's cycle.
LEMMA CycleKeep ==
  ASSUME LeaseInv, NEW n \in Home,
         ReadStatus(n) \/ Snapshot(n) \/ SnapshotLost(n) \/ AgentRestarts(n)
  PROVE  LeaseInv'
  <1>0. /\ busy \subseteq Home /\ late \subseteq HookCall
        /\ status \in [Home -> SUBSET Conn] /\ todo \in [Home -> SUBSET Conn]
        /\ lag \in [Home -> 0..MaxLag] /\ leased \subseteq Conn /\ up \subseteq Conn
        /\ own \subseteq leased \cap up /\ MaxLag \in Nat
    BY LeaseAssumption DEF LeaseInv, LeaseTypes, LagInv
  <1>1. CASE ReadStatus(n)
    <2>1. LeaseTypes'
      <3>1. up \cap At(n) \in SUBSET Conn BY <1>0
      <3>2. /\ status' \in [Home -> SUBSET Conn] /\ todo' \in [Home -> SUBSET Conn]
            /\ busy' \subseteq Home
        BY <1>0, <1>1, <3>1 DEF ReadStatus
      <3>3. UNCHANGED <<up, rows, user, lag, late, own>> BY <1>1 DEF ReadStatus
      <3>4. QED BY <3>2, <3>3 DEF LeaseInv, LeaseTypes, rows, user
    <2>2. LagInv'
      <3>1. UNCHANGED <<up, leased, held, lag, own>> BY <1>1 DEF ReadStatus, rows
      <3>2. ASSUME NEW c \in own, HomeOf[c] \in busy', c \notin status'[HomeOf[c]]
            PROVE  held[c] <= lag[HomeOf[c]]
        <4>1. HomeOf[c] \in Home /\ c \in Conn /\ c \in up BY <1>0, LeaseAssumption
        <4>2. HomeOf[c] # n
          <5>1. status'[n] = up \cap At(n) BY <1>0, <1>1 DEF ReadStatus
          <5>2. QED BY <3>2, <4>1, <5>1 DEF At
        <4>3. HomeOf[c] \in busy /\ c \notin status[HomeOf[c]]
          BY <1>0, <1>1, <3>2, <4>1, <4>2 DEF ReadStatus
        <4>4. QED BY <4>3 DEF LeaseInv, LagInv
      <3>3. QED BY <1>0, <3>1, <3>2 DEF LagInv
    <2>3. QED BY <2>1, <2>2 DEF LeaseInv
  <1>3. ASSUME CycleEnds(n), UNCHANGED <<up, user, late>>,
               leased' \subseteq Conn, own' \subseteq leased' \cap up',
               seen' \in [Conn -> 0..(TTL + 1)], held' \in [Conn -> 0..Grace],
               \A c \in own' : held'[c] = 0 \/ (c \in own /\ held'[c] = held[c])
        PROVE  LeaseInv'
    <2>1. /\ busy' \subseteq Home
          /\ status' \in [Home -> SUBSET Conn] /\ todo' \in [Home -> SUBSET Conn]
      BY <1>0, <1>3 DEF CycleEnds
    <2>2. lag' \in [Home -> 0..MaxLag] BY <1>0, <1>3 DEF CycleEnds
    <2>3. LeaseTypes' BY <1>0, <1>3, <2>1, <2>2 DEF LeaseInv, LeaseTypes, user
    <2>4. ASSUME NEW c \in own', HomeOf[c] \in busy', c \notin status'[HomeOf[c]]
          PROVE  held'[c] <= lag'[HomeOf[c]]
      <3>1. c \in Conn /\ HomeOf[c] \in Home BY <1>3, LeaseAssumption
      <3>2. HomeOf[c] # n BY <1>0, <1>3, <2>4 DEF CycleEnds
      <3>3. /\ HomeOf[c] \in busy /\ c \notin status[HomeOf[c]]
            /\ lag'[HomeOf[c]] = lag[HomeOf[c]]
        BY <1>0, <1>3, <2>4, <3>1, <3>2 DEF CycleEnds
      <3>4. lag[HomeOf[c]] \in 0..MaxLag BY <1>0, <3>1
      <3>5. held'[c] = 0 \/ (c \in own /\ held'[c] = held[c]) BY <1>3
      <3>6. QED BY <1>0, <3>3, <3>4, <3>5 DEF LeaseInv, LagInv
    <2>5. LagInv' BY <1>3, <2>4 DEF LagInv
    <2>6. QED BY <2>3, <2>5 DEF LeaseInv
  <1>4. CASE Snapshot(n)
    <2>1. Rows(leased \ Gone(n), leased \cap status[n], {}) /\ up' = up
      BY <1>4 DEF Snapshot
    <2>2. leased \ Gone(n) \in SUBSET Conn /\ {} \in SUBSET (leased \ Gone(n)) BY <1>0
    <2>3. own \cap (leased \ Gone(n)) \subseteq up' BY <1>0, <2>1
    <2>4. /\ leased' = leased \ Gone(n)
          /\ seen' \in [Conn -> 0..(TTL + 1)] /\ held' \in [Conn -> 0..Grace]
          /\ own' \subseteq leased' \cap up'
          /\ \A c \in own' : held'[c] = 0 \/ (c \in own /\ held'[c] = held[c])
      BY <2>1, <2>2, <2>3, RowsEffect
    <2>5. CycleEnds(n) /\ UNCHANGED <<up, user, late>> BY <1>4 DEF Snapshot
    <2>6. QED BY <1>3, <2>2, <2>4, <2>5
  <1>5. CASE SnapshotLost(n) \/ AgentRestarts(n)
    <2>1. CycleEnds(n) /\ UNCHANGED <<up, rows, user, late, own>>
      BY <1>5 DEF SnapshotLost, AgentRestarts
    <2>2. UNCHANGED <<leased, seen, held>> BY <2>1 DEF rows
    <2>3. QED BY <1>0, <1>3, <2>1, <2>2 DEF LeaseInv, LeaseTypes
  <1>6. QED BY <1>1, <1>4, <1>5

LEMMA TickKeep == LeaseInv /\ Tick => LeaseInv'
  <1> SUFFICES ASSUME LeaseInv, Tick PROVE LeaseInv' OBVIOUS
  <1>0. /\ TTL \in Nat /\ Grace \in Nat /\ MaxLag \in Nat
        /\ UNCHANGED <<up, leased, user, busy, status, todo, late, own>>
        /\ lag \in [Home -> 0..MaxLag] /\ own \subseteq leased \cap up /\ own \subseteq Conn
        /\ seen \in [Conn -> 0..(TTL + 1)] /\ held \in [Conn -> 0..Grace]
    BY LeaseAssumption DEF Tick, LeaseInv, LeaseTypes, LagInv
  <1>1. seen' \in [Conn -> 0..(TTL + 1)] BY <1>0 DEF Tick, Older
  <1>2. held' \in [Conn -> 0..Grace] BY <1>0 DEF Tick, Older
  <1>3. lag' \in [Home -> 0..MaxLag] BY <1>0 DEF Tick
  <1>4. LeaseTypes' BY <1>0, <1>1, <1>2, <1>3 DEF LeaseInv, LeaseTypes, user
  <1>5. ASSUME NEW c \in own, HomeOf[c] \in busy, c \notin status[HomeOf[c]]
        PROVE  held'[c] <= lag'[HomeOf[c]]
    <2>1. c \in Conn /\ c \in leased /\ HomeOf[c] \in Home BY <1>0, LeaseAssumption
    <2>2. held[c] <= lag[HomeOf[c]] BY <1>5 DEF LeaseInv, LagInv
    <2>3. lag'[HomeOf[c]] = lag[HomeOf[c]] + 1 BY <1>5, <2>1 DEF Tick
    <2>4. held'[c] = IF held[c] < Grace THEN held[c] + 1 ELSE Grace
      BY <2>1 DEF Tick, Older
    <2>5. held[c] \in 0..Grace /\ lag[HomeOf[c]] \in 0..MaxLag BY <1>0, <2>1
    <2>6. QED BY <1>0, <2>2, <2>3, <2>4, <2>5
  <1>6. LagInv' BY <1>0, <1>5 DEF LagInv
  <1>7. QED BY <1>4, <1>6 DEF LeaseInv

LEMMA InitEstablishes == LeaseInit => LeaseInv
  BY LeaseAssumption DEF LeaseInit, LeaseInv, LeaseTypes, LagInv

LEMMA StepKeeps == LeaseInv /\ [LeaseNext]_leaseVars => LeaseInv'
  <1> SUFFICES ASSUME LeaseInv, [LeaseNext]_leaseVars PROVE LeaseInv' OBVIOUS
  <1>1. CASE UNCHANGED leaseVars
    BY <1>1 DEF leaseVars, rows, user, agent, LeaseInv, LeaseTypes, LagInv
  <1>2. ASSUME NEW c \in Conn,
               \/ Acquire(c) \/ Deny(c) \/ FailOpen(c) \/ Release(c) \/ ReleaseLost(c)
               \/ LateAcquire(c) \/ LateRelease(c)
               \/ Heartbeat(c) \/ BeatLost(c) \/ TerminateFails(c)
        PROVE  LeaseInv'
    BY <1>2, HookKeep, BeatKeep
  <1>3. ASSUME NEW n \in Home, Reassign(n) PROVE LeaseInv'
    <2>1. UNCHANGED <<up, rows, limit, agent, late, own>> /\ assigned' \subseteq Home
      BY <1>3 DEF Reassign, LeaseInv, LeaseTypes
    <2>2. QED BY <2>1 DEF LeaseInv, LeaseTypes, LagInv, rows, agent
  <1>4. ASSUME NEW l \in Limits, SetLimit(l) PROVE LeaseInv'
    <2>1. UNCHANGED <<up, rows, assigned, agent, late, own>> /\ limit' \in Limits
      BY <1>4 DEF SetLimit
    <2>2. QED BY <2>1 DEF LeaseInv, LeaseTypes, LagInv, rows, agent
  <1>5. CASE Tick BY <1>5, TickKeep
  <1>6. ASSUME NEW n \in Home,
               ReadStatus(n) \/ Snapshot(n) \/ SnapshotLost(n) \/ AgentRestarts(n)
        PROVE  LeaseInv'
    BY <1>6, CycleKeep
  <1>7. QED BY <1>1, <1>2, <1>3, <1>4, <1>5, <1>6 DEF LeaseNext

\* Types, and the bound on the age of a row by the age of the status that
\* does not have its connection.
THEOREM LeaseInvariance == LeaseSpec => []LeaseInv
  <1>1. QED BY InitEstablishes, StepKeeps, PTL DEF LeaseSpec

-----------------------------------------------------------------------------
\* Rows are counted in finite sets.
LEMMA Counted ==
  ASSUME NEW S \in SUBSET Conn
  PROVE  IsFiniteSet(S) /\ Cardinality(S) \in Nat
  <1>1. IsFiniteSet(Conn) BY LeaseAssumption
  <1>2. IsFiniteSet(S) BY <1>1, FS_Subset
  <1>3. QED BY <1>2, FS_CardinalityType

LEMMA StepWithinLimit ==
  ASSUME LeaseInv, [LeaseNext]_leaseVars, ~(leased' \subseteq leased), limit > 0
  PROVE  Cardinality(leased') <= limit
  <1>0. Live \subseteq leased /\ Live \in SUBSET Conn BY LiveLeased DEF LeaseInv
  <1>1. PICK c \in Conn : Insert(c)
    <2>1. ASSUME NEW c \in Conn, Acquire(c) \/ LateAcquire(c) PROVE Insert(c)
      BY <1>0, <2>1 DEF Acquire, LateAcquire, Grant, Rows
    <2>2. ASSUME NEW c \in Conn, Heartbeat(c) PROVE Insert(c)
      <3>1. ~Touch(c) /\ ~Ignore(c) /\ ~Terminate(c)
        BY <1>0 DEF Touch, Ignore, Terminate, Rows, rows
      <3>2. QED BY <2>2, <3>1 DEF Heartbeat, Recover
    <2>3. ASSUME NEW c \in Conn,
                 \/ Deny(c) \/ FailOpen(c) \/ Release(c) \/ ReleaseLost(c) \/ LateRelease(c)
                 \/ BeatLost(c) \/ TerminateFails(c)
          PROVE  FALSE
      BY <1>0, <2>3 DEF Deny, FailOpen, Release, ReleaseLost, LateRelease, Delete, BeatLost,
                        TerminateFails, Rows, rows
    <2>4. ASSUME NEW n \in Home,
                 \/ ReadStatus(n) \/ Snapshot(n) \/ SnapshotLost(n) \/ AgentRestarts(n)
                 \/ Reassign(n)
          PROVE  FALSE
      BY <2>4 DEF ReadStatus, Snapshot, SnapshotLost, AgentRestarts, Reassign,
                  Rows, rows
    <2>5. ~Tick /\ \A l \in Limits : ~SetLimit(l) BY DEF Tick, SetLimit, rows
    <2>6. leased' # leased OBVIOUS
    <2>7. QED BY <2>1, <2>2, <2>3, <2>4, <2>5, <2>6 DEF LeaseNext, leaseVars, rows
  <1>2. leased' = Live \cup {c} /\ c \notin Live BY <1>1 DEF Insert, Rows
  <1>3. Cardinality(Live) < limit BY <1>1 DEF Insert, Room
  <1>4. Cardinality(Live \cup {c}) = Cardinality(Live) + 1
    BY <1>0, <1>2, Counted, FS_AddElement
  <1>5. Cardinality(Live) \in Nat BY <1>0, Counted
  <1>6. limit \in Nat BY LeaseAssumption DEF LeaseInv, LeaseTypes
  <1>7. QED BY <1>2, <1>3, <1>4, <1>5, <1>6

\* No call adds a row that makes more than the limit of the moment.
THEOREM WithinLimit == LeaseSpec => TrackedWithinLimit
  <1>1. LeaseInv /\ [LeaseNext]_leaseVars =>
          [(~(leased' \subseteq leased) /\ limit > 0) => Cardinality(leased') <= limit]_leaseVars
    BY StepWithinLimit
  <1>2. QED BY <1>1, LeaseInvariance, PTL DEF LeaseSpec, TrackedWithinLimit

-----------------------------------------------------------------------------
Kept ==
  \A c \in own \cap up' :
    \/ c \in leased' \/ seen[c] > TTL
    \/ limit > 0 /\ Cardinality(leased) > limit
    \/ <<"release", c>> \in late \ late'

\* A heartbeat prunes only above the limit.
LEMMA PrunedAbove ==
  ASSUME LeaseInv, NEW c \in Conn, NEW K \in SUBSET Live, Keepable(K, c), NEW d \in Live \ K
  PROVE  limit > 0 /\ Cardinality(leased) > limit
  <1>0. Live \subseteq leased /\ Live \in SUBSET Conn /\ leased \in SUBSET Conn
    BY LiveLeased DEF LeaseInv, LeaseTypes
  <1>1. limit \in Nat BY LeaseAssumption DEF LeaseInv, LeaseTypes
  <1>2. limit > 0 BY <1>1 DEF Keepable
  <1>3. IsFiniteSet(Live) /\ IsFiniteSet(leased) BY <1>0, Counted
  <1>4. Cardinality(K) < Cardinality(Live)
    <2>1. K \in SUBSET Live /\ K # Live OBVIOUS
    <2>2. Cardinality(K) <= Cardinality(Live) /\ Cardinality(K) # Cardinality(Live)
      BY <1>3, <2>1, FS_Subset
    <2>3. Cardinality(K) \in Nat /\ Cardinality(Live) \in Nat BY <1>0, <2>1, Counted
    <2>4. QED BY <2>2, <2>3
  <1>5. Cardinality(Live) <= Cardinality(leased) BY <1>0, <1>3, FS_Subset
  <1>6. Cardinality(Live) \in Nat /\ Cardinality(leased) \in Nat /\ Cardinality(K) \in Nat
    BY <1>0, Counted
  <1>7. QED BY <1>1, <1>2, <1>4, <1>5, <1>6 DEF Keepable

\* A snapshot spares what is younger than the status it was made from.
LEMMA SnapshotKeeps ==
  ASSUME LeaseInv, MaxLag < Grace, NEW n \in Home, Snapshot(n), NEW c \in own
  PROVE  c \in leased'
  <1>1. leased' = leased \ Gone(n) BY DEF Snapshot, Rows
  <1>2. c \in leased BY DEF LeaseInv, LagInv
  <1>3. ASSUME c \in Gone(n) PROVE FALSE
    <2>1. c \in Conn /\ HomeOf[c] = n /\ c \notin status[n] /\ held[c] >= Grace
      BY <1>3 DEF Gone, At
    <2>2. held[c] <= lag[n] BY <2>1 DEF Snapshot, LeaseInv, LagInv
    <2>3. lag[n] \in 0..MaxLag /\ held[c] \in 0..Grace BY <2>1 DEF LeaseInv, LeaseTypes
    <2>4. QED BY <2>1, <2>2, <2>3, LeaseAssumption
  <1>4. QED BY <1>1, <1>2, <1>3

LEMMA StepLeavesLease ==
  ASSUME LeaseInv, MaxLag < Grace, [LeaseNext]_leaseVars
  PROVE  Kept
  <1>0. own \subseteq leased /\ own \subseteq Conn BY DEF LeaseInv, LagInv, LeaseTypes
  <1>1. SUFFICES ASSUME NEW c \in own \cap up', c \notin leased', ~(seen[c] > TTL),
                        <<"release", c>> \notin late \ late'
                 PROVE  limit > 0 /\ Cardinality(leased) > limit
    BY DEF Kept
  <1>2. c \in Live /\ c \in leased
    <2>1. seen[c] \in 0..(TTL + 1) BY <1>0, <1>1 DEF LeaseInv, LeaseTypes
    <2>2. QED BY <1>0, <1>1, <2>1, LeaseAssumption DEF Live
  <1>3. ASSUME NEW d \in Conn, Touch(d)
        PROVE  limit > 0 /\ Cardinality(leased) > limit
    <2>1. PICK K \in SUBSET Live : Keepable(K, d) /\ Rows(K, {d}, {}) BY <1>3 DEF Touch
    <2>2. c \in Live \ K BY <1>1, <1>2, <2>1 DEF Rows
    <2>3. QED BY <2>1, <2>2, PrunedAbove
  <1>4. ASSUME NEW d \in Conn,
               \/ Acquire(d) \/ Deny(d) \/ FailOpen(d) \/ Release(d) \/ ReleaseLost(d)
               \/ LateAcquire(d)
        PROVE  FALSE
    BY <1>1, <1>2, <1>4 DEF Acquire, Deny, FailOpen, Release, ReleaseLost, LateAcquire,
                            Grant, Delete, Insert, Rows, rows
  <1>11. ASSUME NEW d \in Conn, LateRelease(d) PROVE FALSE
    <2>1. d = c BY <1>1, <1>2, <1>11 DEF LateRelease, Delete, Rows
    <2>2. QED BY <1>1, <1>11, <2>1 DEF LateRelease
  <1>5. ASSUME NEW d \in Conn,
               Recover(d) \/ Ignore(d) \/ Terminate(d) \/ BeatLost(d) \/ TerminateFails(d)
        PROVE  FALSE
    BY <1>1, <1>2, <1>5 DEF Recover, Ignore, Terminate, BeatLost, TerminateFails, Insert,
                            Rows, rows
  <1>6. ASSUME NEW n \in Home, Snapshot(n) PROVE FALSE
    BY <1>1, <1>6, SnapshotKeeps
  <1>7. ASSUME NEW n \in Home,
               ReadStatus(n) \/ SnapshotLost(n) \/ AgentRestarts(n) \/ Reassign(n)
        PROVE  FALSE
    BY <1>1, <1>2, <1>7 DEF ReadStatus, SnapshotLost, AgentRestarts, Reassign, rows
  <1>8. ~Tick /\ \A l \in Limits : ~SetLimit(l) BY <1>1, <1>2 DEF Tick, SetLimit, rows
  <1>9. leased' # leased BY <1>1, <1>2
  <1>10. QED BY <1>3, <1>4, <1>5, <1>6, <1>7, <1>8, <1>9, <1>11 DEF LeaseNext, Heartbeat, leaseVars, rows

\* While no status is as old as the grace when it is served, a connection
\* keeps its row from the row's insertion to its own end, to a late release
\* of its address, to the TTL or to a lowered limit.
THEOREM LeaseKept == MaxLag < Grace => (LeaseSpec => LiveLeaseKept)
  <1> SUFFICES ASSUME MaxLag < Grace PROVE LeaseSpec => LiveLeaseKept OBVIOUS
  <1>1. LeaseInv /\ [LeaseNext]_leaseVars => [Kept]_leaseVars BY StepLeavesLease
  <1>2. LeaseSpec => [][Kept]_leaseVars BY <1>1, LeaseInvariance, PTL DEF LeaseSpec
  <1>3. QED BY <1>2 DEF Kept, LiveLeaseKept

==============================================================================
