------------------------ MODULE PanelServicesProofs ------------------------
(***************************************************************************)
(* For any settings, passwords, names and faults: a router credential that *)
(* is shown as enabled is the one the node accepts, and one that was told  *)
(* to be cleaned up is accepted no more.                                   *)
(*                                                                         *)
(* A password is on its way from Rotate or SwitchOn until it is stored or  *)
(* taken back (Pushing). The two rules rest on what the clean-up and such  *)
(* a push owe each other: a clean-up is only sent for a user who is gone,  *)
(* for whom no new push begins, so a push that is under way was there      *)
(* before and makes the clean-up owed (Sending, Offline, Reading). Names   *)
(* only grow, so a user who is renamed has none that the node knows.       *)
(*                                                                         *)
(* Then the other services of the panel: an AnyConnect password that is    *)
(* shown is one the node accepts; the panel's single loop is only ever     *)
(* held up by a renewal that resets a user's usage; what the users of a    *)
(* reseller are allocated was paid for or given; and recovery finds the    *)
(* backups that a transaction's journal names.                             *)
(***************************************************************************)
EXTENDS MCPanelServices, FiniteSetTheorems, TLAPS

Pushing == op.kind \in {"rotate", "switch"}
Away == ~(user.exists /\ user.active /\ user.assigned)

OpKinds == Pushing <=> op.at \in {"push", "persist", "takeback"}
Names == /\ record.name <= user.name /\ op.name <= user.name
         /\ cleanup.at # "none" => cleanup.name = user.name
Secrets == /\ Pushing => op.secret # 0
           /\ told /\ user.exists => row.secret # 0
Sending == cleanup.at = "send" => Away /\ (Pushing \/ row.enabled => owed)
Offline == Away /\ ~owed => ~Pushing
Reading == cleanup.at = "nodes" /\ ~cleanup.late => ~Pushing /\ (told => cleanup.had)
Pushed == op.at = "persist" /\ ~owed => record = [name |-> op.name, secret |-> op.secret]
TakingBack == op.at = "takeback" => ~sure
Accepted == sure /\ ~owed /\ row.enabled /\ ~Pushing
              => record = [name |-> user.name, secret |-> row.secret]
Closed == Away /\ ~owed /\ told /\ cleanup.at # "send" => record.name # user.name

IInv == /\ TypeOK /\ OpKinds /\ Names /\ Secrets /\ Sending /\ Offline /\ Reading
        /\ Pushed /\ TakingBack /\ Accepted /\ Closed

-----------------------------------------------------------------------------
LEMMA Nones == NoOp \in Operation /\ NoHelper \in Helper /\ NoCleanup \in Cleanup
BY DEF NoOp, NoHelper, NoCleanup, Operation, Helper, Cleanup, Line

LEMMA Configs ==
  ASSUME NEW s \in Line, NEW on \in BOOLEAN
  PROVE  [setting |-> s, enabled |-> on] \in [setting : Line, enabled : BOOLEAN]
OBVIOUS

LEMMA OpMoves ==
  ASSUME op \in Operation,
         NEW w \in {"none", "preflight", "call", "config", "verify", "back", "push", "persist", "takeback"}
  PROVE  LET moved == [op EXCEPT !.at = w]
         IN  moved \in Operation /\ moved.kind = op.kind /\ moved.name = op.name
             /\ moved.secret = op.secret /\ moved.at = w
BY DEF Operation

\* What an operation on a credential, or none, leaves alone stays as it is.
LEMMA Aside ==
  ASSUME IInv, TypeOK', UNCHANGED <<user, row, record, cleanup, sure, owed, told>>,
         \/ op' = op
         \/ ~Pushing /\ op'.kind \in {"none", "on"} /\ op'.name \in {0, op.name}
            /\ op'.at \notin {"push", "persist", "takeback"}
  PROVE  IInv'
<1>1. CASE op' = op
  BY <1>1 DEF IInv, OpKinds, Names, Secrets, Sending, Offline, Reading, Pushed, TakingBack, Accepted, Closed, Pushing, Away
<1>2. CASE ~Pushing /\ op'.kind \in {"none", "on"} /\ op'.name \in {0, op.name}
           /\ op'.at \notin {"push", "persist", "takeback"}
  <2>1. ~Pushing' /\ OpKinds'
    BY <1>2 DEF Pushing, OpKinds
  <2>2. Names'
    BY <1>2 DEF IInv, Names, TypeOK, Operation
  <2>3. Secrets' /\ Sending' /\ Offline' /\ Reading'
    BY <1>2, <2>1 DEF IInv, Secrets, Sending, Offline, Reading, Away
  <2>4. Pushed' /\ TakingBack' /\ Accepted' /\ Closed'
    BY <1>2, <2>1 DEF IInv, Pushed, TakingBack, Accepted, Closed, Away
  <2> QED
    BY <2>1, <2>2, <2>3, <2>4 DEF IInv
<1> QED
  BY <1>1, <1>2

\* The node's own steps change no credential and end no operation on one.
LEMMA NodeKeeps ==
  ASSUME IInv, NodeStep
  PROVE  IInv'
<1>1. CASE WriteSecondaryConfig
  <2>1. UNCHANGED <<user, row, record, cleanup, sure, owed, told>>
    BY <1>1 DEF WriteSecondaryConfig, panel, node, history
  <2>2. op' = op
    BY <1>1 DEF WriteSecondaryConfig, panel, node, history
  <2>3. TypeOK'
    BY <1>1, <2>1, <2>2, Nones DEF WriteSecondaryConfig, panel, node, history, IInv, TypeOK, Helper, Line, Fault
  <2> QED
    BY <2>1, <2>2, <2>3, Aside
<1>2. CASE FirewallApply
  <2>1. UNCHANGED <<user, row, record, cleanup, sure, owed, told>>
    BY <1>2 DEF FirewallApply, panel, node, history
  <2>2. op' = op
    BY <1>2 DEF FirewallApply, panel, node, history
  <2>3. TypeOK'
    BY <1>2, <2>1, <2>2, Nones DEF FirewallApply, panel, node, history, IInv, TypeOK, Helper, Line, Fault
  <2> QED
    BY <2>1, <2>2, <2>3, Aside
<1>3. CASE StartListener
  <2>1. UNCHANGED <<user, row, record, cleanup, sure, owed, told>>
    BY <1>3 DEF StartListener, panel, node, history
  <2>2. op' = op \/ (op.at = "config" /\ op' = [op EXCEPT !.at = "verify"])
    BY <1>3 DEF StartListener, panel, node, history
  <2>3. op' \in Operation
    BY <2>2, Nones, OpMoves DEF IInv, TypeOK
  <2>4. TypeOK'
    BY <1>3, <2>1, <2>3, Nones DEF StartListener, panel, node, history, IInv, TypeOK, Helper, Line, Fault
  <2>5. CASE op' = op
    BY <2>1, <2>4, <2>5, Aside
  <2>6. CASE op' # op
    <3>1. ~Pushing /\ op.kind \in {"none", "on"}
      BY <2>2, <2>6 DEF IInv, OpKinds, Pushing, TypeOK, Operation
    <3>2. /\ op'.kind \in {"none", "on"} /\ op'.name \in {0, op.name}
          /\ op'.at \notin {"push", "persist", "takeback"}
      BY <2>2, <2>6, <3>1 DEF NoOp, IInv, TypeOK, Operation
    <3> QED
      BY <2>1, <2>4, <3>1, <3>2, Aside
  <2> QED
    BY <2>5, <2>6
<1>4. CASE RestoreSecondary
  <2>1. UNCHANGED <<user, row, record, cleanup, sure, owed, told>>
    BY <1>4 DEF RestoreSecondary, panel, node, history, Fault
  <2>2. op' = op \/ (op.at = "config" /\ op' = NoOp)
    BY <1>4 DEF RestoreSecondary, panel, node, history, Fault
  <2>3. op' \in Operation
    BY <2>2, Nones, OpMoves DEF IInv, TypeOK
  <2>4. TypeOK'
    BY <1>4, <2>1, <2>3, Nones DEF RestoreSecondary, panel, node, history, Fault, IInv, TypeOK, Helper, Line, Fault
  <2>5. CASE op' = op
    BY <2>1, <2>4, <2>5, Aside
  <2>6. CASE op' # op
    <3>1. ~Pushing /\ op.kind \in {"none", "on"}
      BY <2>2, <2>6 DEF IInv, OpKinds, Pushing, TypeOK, Operation
    <3>2. /\ op'.kind \in {"none", "on"} /\ op'.name \in {0, op.name}
          /\ op'.at \notin {"push", "persist", "takeback"}
      BY <2>2, <2>6, <3>1 DEF NoOp, IInv, TypeOK, Operation
    <3> QED
      BY <2>1, <2>4, <3>1, <3>2, Aside
  <2> QED
    BY <2>5, <2>6
<1>5. CASE HelperTimeout
  <2>1. UNCHANGED <<user, row, record, cleanup, sure, owed, told>>
    BY <1>5 DEF HelperTimeout, panel, node, history, Fault
  <2>2. op' = op \/ (op.at = "config" /\ op' = NoOp)
    BY <1>5 DEF HelperTimeout, panel, node, history, Fault
  <2>3. op' \in Operation
    BY <2>2, Nones, OpMoves DEF IInv, TypeOK
  <2>4. TypeOK'
    BY <1>5, <2>1, <2>3, Nones DEF HelperTimeout, panel, node, history, Fault, IInv, TypeOK, Helper, Line, Fault
  <2>5. CASE op' = op
    BY <2>1, <2>4, <2>5, Aside
  <2>6. CASE op' # op
    <3>1. ~Pushing /\ op.kind \in {"none", "on"}
      BY <2>2, <2>6 DEF IInv, OpKinds, Pushing, TypeOK, Operation
    <3>2. /\ op'.kind \in {"none", "on"} /\ op'.name \in {0, op.name}
          /\ op'.at \notin {"push", "persist", "takeback"}
      BY <2>2, <2>6, <3>1 DEF NoOp, IInv, TypeOK, Operation
    <3> QED
      BY <2>1, <2>4, <3>1, <3>2, Aside
  <2> QED
    BY <2>5, <2>6
<1>6. CASE NodeReboots
  <2>1. UNCHANGED <<user, row, record, cleanup, sure, owed, told>>
    BY <1>6 DEF NodeReboots, panel, node, history, Fault
  <2>2. op' = op \/ (op.at = "config" /\ op' = NoOp)
    BY <1>6 DEF NodeReboots, panel, node, history, Fault
  <2>3. op' \in Operation
    BY <2>2, Nones, OpMoves DEF IInv, TypeOK
  <2>4. TypeOK'
    BY <1>6, <2>1, <2>3, Nones DEF NodeReboots, panel, node, history, Fault, IInv, TypeOK, Helper, Line, Fault
  <2>5. CASE op' = op
    BY <2>1, <2>4, <2>5, Aside
  <2>6. CASE op' # op
    <3>1. ~Pushing /\ op.kind \in {"none", "on"}
      BY <2>2, <2>6 DEF IInv, OpKinds, Pushing, TypeOK, Operation
    <3>2. /\ op'.kind \in {"none", "on"} /\ op'.name \in {0, op.name}
          /\ op'.at \notin {"push", "persist", "takeback"}
      BY <2>2, <2>6, <3>1 DEF NoOp, IInv, TypeOK, Operation
    <3> QED
      BY <2>1, <2>4, <3>1, <3>2, Aside
  <2> QED
    BY <2>5, <2>6
<1> QED
  BY <1>1, <1>2, <1>3, <1>4, <1>5, <1>6 DEF NodeStep

\* The listener is told to run, and what comes of it.
LEMMA ListenerKeeps ==
  ASSUME IInv,
         \/ PreflightAnswer \/ EnableListener \/ EnableUnheard \/ VerifyEnabled \/ DisableAgain
         \/ \E s \in Setting : ConfigureOn(s)
  PROVE  IInv'
<1>1. CASE PreflightAnswer
  <2>1. UNCHANGED <<user, row, record, cleanup, sure, owed, told>>
    BY <1>1 DEF PreflightAnswer, panel, node, history
  <2>2. (op.at = "preflight" /\ op' = [op EXCEPT !.at = "call"]) \/ (op.at = "preflight" /\ op' = NoOp)
    BY <1>1 DEF PreflightAnswer, panel, node, history
  <2>3. op' \in Operation
    BY <2>2, Nones, OpMoves DEF IInv, TypeOK
  <2>4. TypeOK'
    BY <1>1, <2>1, <2>3, Nones DEF PreflightAnswer, panel, node, history, IInv, TypeOK, Helper, Line, Fault
  <2>5. CASE op' = op
    BY <2>1, <2>4, <2>5, Aside
  <2>6. CASE op' # op
    <3>1. ~Pushing /\ op.kind \in {"none", "on"}
      BY <2>2, <2>6 DEF IInv, OpKinds, Pushing, TypeOK, Operation
    <3>2. /\ op'.kind \in {"none", "on"} /\ op'.name \in {0, op.name}
          /\ op'.at \notin {"push", "persist", "takeback"}
      BY <2>2, <2>6, <3>1 DEF NoOp, IInv, TypeOK, Operation
    <3> QED
      BY <2>1, <2>4, <3>1, <3>2, Aside
  <2> QED
    BY <2>5, <2>6
<1>2. CASE EnableListener
  <2>1. UNCHANGED <<user, row, record, cleanup, sure, owed, told>>
    BY <1>2 DEF EnableListener, panel, node, history, SnapshotSecondary
  <2>2. (op.at = "call" /\ op' = [op EXCEPT !.at = "verify"]) \/ (op.at = "call" /\ op' = [op EXCEPT !.at = "config"])
    BY <1>2 DEF EnableListener, panel, node, history, SnapshotSecondary
  <2>3. op' \in Operation
    BY <2>2, Nones, OpMoves DEF IInv, TypeOK
  <2>4. TypeOK'
    <3>1. op.setting \in Line
      BY DEF IInv, TypeOK, Operation
    <3> QED
      BY <1>2, <2>1, <2>3, <3>1, Nones DEF EnableListener, panel, node, history, SnapshotSecondary, IInv, TypeOK, Helper, Line, Fault
  <2>5. CASE op' = op
    BY <2>1, <2>4, <2>5, Aside
  <2>6. CASE op' # op
    <3>1. ~Pushing /\ op.kind \in {"none", "on"}
      BY <2>2, <2>6 DEF IInv, OpKinds, Pushing, TypeOK, Operation
    <3>2. /\ op'.kind \in {"none", "on"} /\ op'.name \in {0, op.name}
          /\ op'.at \notin {"push", "persist", "takeback"}
      BY <2>2, <2>6, <3>1 DEF NoOp, IInv, TypeOK, Operation
    <3> QED
      BY <2>1, <2>4, <3>1, <3>2, Aside
  <2> QED
    BY <2>5, <2>6
<1>3. CASE EnableUnheard
  <2>1. UNCHANGED <<user, row, record, cleanup, sure, owed, told>>
    BY <1>3 DEF EnableUnheard, panel, node, history
  <2>2. (op.at \in {"call", "config"} /\ op' = NoOp)
    BY <1>3 DEF EnableUnheard, panel, node, history
  <2>3. op' \in Operation
    BY <2>2, Nones, OpMoves DEF IInv, TypeOK
  <2>4. TypeOK'
    BY <1>3, <2>1, <2>3, Nones DEF EnableUnheard, panel, node, history, IInv, TypeOK, Helper, Line, Fault
  <2>5. CASE op' = op
    BY <2>1, <2>4, <2>5, Aside
  <2>6. CASE op' # op
    <3>1. ~Pushing /\ op.kind \in {"none", "on"}
      BY <2>2, <2>6 DEF IInv, OpKinds, Pushing, TypeOK, Operation
    <3>2. /\ op'.kind \in {"none", "on"} /\ op'.name \in {0, op.name}
          /\ op'.at \notin {"push", "persist", "takeback"}
      BY <2>2, <2>6, <3>1 DEF NoOp, IInv, TypeOK, Operation
    <3> QED
      BY <2>1, <2>4, <3>1, <3>2, Aside
  <2> QED
    BY <2>5, <2>6
<1>4. CASE VerifyEnabled
  <2>1. UNCHANGED <<user, row, record, cleanup, sure, owed, told>>
    BY <1>4 DEF VerifyEnabled, panel, node, history, UpsertConfig
  <2>2. (op.at = "verify" /\ op' = NoOp) \/ (op.at = "verify" /\ op' = [op EXCEPT !.at = "back"])
    BY <1>4 DEF VerifyEnabled, panel, node, history, UpsertConfig
  <2>3. op' \in Operation
    BY <2>2, Nones, OpMoves DEF IInv, TypeOK
  <2>4. TypeOK'
    <3>1. op.setting \in Line
      BY DEF IInv, TypeOK, Operation
    <3>2. cfg' = cfg \/ cfg' = [setting |-> op.setting, enabled |-> TRUE]
      BY <1>4 DEF VerifyEnabled, UpsertConfig
    <3>3. cfg' \in [setting : Line, enabled : BOOLEAN]
      BY <3>1, <3>2, Configs DEF IInv, TypeOK
    <3>4. faults' \in {faults, faults + 1} /\ UNCHANGED <<node, secrets>>
      BY <1>4 DEF VerifyEnabled, Fault
    <3> QED
      BY <2>1, <2>3, <3>3, <3>4 DEF node, IInv, TypeOK
  <2>5. CASE op' = op
    BY <2>1, <2>4, <2>5, Aside
  <2>6. CASE op' # op
    <3>1. ~Pushing /\ op.kind \in {"none", "on"}
      BY <2>2, <2>6 DEF IInv, OpKinds, Pushing, TypeOK, Operation
    <3>2. /\ op'.kind \in {"none", "on"} /\ op'.name \in {0, op.name}
          /\ op'.at \notin {"push", "persist", "takeback"}
      BY <2>2, <2>6, <3>1 DEF NoOp, IInv, TypeOK, Operation
    <3> QED
      BY <2>1, <2>4, <3>1, <3>2, Aside
  <2> QED
    BY <2>5, <2>6
<1>5. CASE DisableAgain
  <2>1. UNCHANGED <<user, row, record, cleanup, sure, owed, told>>
    BY <1>5 DEF DisableAgain, panel, node, history, DisableListener
  <2>2. (op.at = "back" /\ op' = NoOp)
    BY <1>5 DEF DisableAgain, panel, node, history, DisableListener
  <2>3. op' \in Operation
    BY <2>2, Nones, OpMoves DEF IInv, TypeOK
  <2>4. TypeOK'
    BY <1>5, <2>1, <2>3, Nones DEF DisableAgain, panel, node, history, DisableListener, IInv, TypeOK, Helper, Line, Fault
  <2>5. CASE op' = op
    BY <2>1, <2>4, <2>5, Aside
  <2>6. CASE op' # op
    <3>1. ~Pushing /\ op.kind \in {"none", "on"}
      BY <2>2, <2>6 DEF IInv, OpKinds, Pushing, TypeOK, Operation
    <3>2. /\ op'.kind \in {"none", "on"} /\ op'.name \in {0, op.name}
          /\ op'.at \notin {"push", "persist", "takeback"}
      BY <2>2, <2>6, <3>1 DEF NoOp, IInv, TypeOK, Operation
    <3> QED
      BY <2>1, <2>4, <3>1, <3>2, Aside
  <2> QED
    BY <2>5, <2>6
<1>6. ASSUME NEW s \in Setting, ConfigureOn(s)
      PROVE  IInv'
  <2>1. /\ UNCHANGED <<panel, node, cleanup, secrets, history>>
        /\ op.kind = "none" /\ (faults' = faults \/ faults' = faults + 1)
        /\ op' = op \/ op' = [NoOp EXCEPT !.kind = "on", !.at = "preflight", !.setting = s]
    BY <1>6 DEF ConfigureOn, Serving, Fault
  <2>2. op' = op \/ (op'.kind = "on" /\ op'.name = 0 /\ op'.at = "preflight")
    BY <2>1 DEF NoOp
  <2>3. op' \in Operation
    <3>1. [NoOp EXCEPT !.kind = "on", !.at = "preflight", !.setting = s] \in Operation
      BY DEF NoOp, Operation, Line
    <3> QED
      BY <2>1, <3>1 DEF IInv, TypeOK
  <2>4. TypeOK'
    BY <2>1, <2>3 DEF panel, node, history, IInv, TypeOK
  <2> QED
    BY <2>1, <2>2, <2>4, Aside DEF Pushing, panel, node, history
<1> QED
  BY <1>1, <1>2, <1>3, <1>4, <1>5, <1>6

\* Off, nothing is shown as enabled.
LEMMA OffKeeps ==
  ASSUME IInv, ConfigureOff
  PROVE  IInv'
<1>1. /\ UNCHANGED <<user, record, op, cleanup, sure, owed, told>>
      /\ row' = row \/ row' = [row EXCEPT !.enabled = FALSE]
  BY DEF ConfigureOff, history
<1>2. row'.secret = row.secret /\ (row'.enabled => row' = row) /\ row' \in [secret : Nat, enabled : BOOLEAN]
  BY <1>1 DEF IInv, TypeOK
<1>3. PICK s \in Setting : /\ cfg' = cfg \/ cfg' = [setting |-> s, enabled |-> FALSE]
                           /\ proc' \in {proc, 0} /\ opened' \subseteq opened
                           /\ faults' = faults \/ faults' = faults + 1
  BY DEF ConfigureOff, UpsertConfig, DisableListener, Fault
<1>4. TypeOK'
  <2>1. cfg' \in [setting : Line, enabled : BOOLEAN]
    <3>1. s \in Line
      BY DEF Line
    <3> QED
      BY <1>3, <3>1, Configs DEF IInv, TypeOK
  <2>2. proc' \in Line /\ opened' \subseteq Line /\ faults' \in Nat
    BY <1>3 DEF IInv, TypeOK, Line
  <2> QED
    BY <1>1, <1>2, <2>1, <2>2 DEF ConfigureOff, IInv, TypeOK
<1> QED
  BY <1>1, <1>2, <1>4 DEF IInv, OpKinds, Names, Secrets, Sending, Offline, Reading, Pushed, TakingBack, Accepted, Closed, Pushing, Away
LEMMA UserTypes ==
  ASSUME TypeOK
  PROVE  /\ user.name \in Nat \ {0} /\ user.exists \in BOOLEAN
         /\ user.active \in BOOLEAN /\ user.assigned \in BOOLEAN
         /\ row.secret \in Nat /\ row.enabled \in BOOLEAN
         /\ record.name \in Nat /\ record.secret \in Nat
         /\ op.name \in Nat /\ op.secret \in Nat /\ cleanup.name \in Nat
         /\ [row EXCEPT !.enabled = FALSE] \in [secret : Nat, enabled : BOOLEAN]
         /\ [row EXCEPT !.enabled = FALSE].secret = row.secret
         /\ [row EXCEPT !.enabled = FALSE].enabled = FALSE
BY DEF TypeOK, Operation, Cleanup

\* A node that revokes a name accepts nothing under it.
LEMMA Revoked ==
  ASSUME TypeOK, NEW n \in Nat \ {0}, CredentialRevoke(n)
  PROVE  /\ record' \in [name : Nat, secret : Nat] /\ record'.name # n
         /\ record' = record \/ record'.name = 0
BY DEF TypeOK, CredentialRevoke, NoRecord

\* A new push begins only for a user who is there, and owes nothing yet.
LEMMA PushKeeps ==
  ASSUME IInv, Rotate \/ SwitchOn
  PROVE  IInv'
<1> DEFINE pushed(k, s) == [NoOp EXCEPT !.kind = k, !.at = "push", !.name = user.name, !.secret = s]
<1>1. PICK k \in {"rotate", "switch"}, s \in Nat \ {0} :
        /\ op' = pushed(k, s) /\ op.kind = "none" /\ ~Away /\ row' = row /\ user' = user
        /\ UNCHANGED <<record, sure, told, cfg, disk, proc, opened, helper, faults>> /\ secrets' \in Nat
        /\ owed' = FALSE
        /\ cleanup' = IF cleanup.at = "nodes" THEN [cleanup EXCEPT !.late = TRUE] ELSE cleanup
  <2>1. secrets + 1 \in Nat \ {0} /\ secrets \in Nat /\ row.secret \in Nat
    BY UserTypes DEF IInv, TypeOK
  <2>2. CASE Rotate
    BY <2>1, <2>2 DEF Rotate, PushBegins, Eligible, Serving, Away, panel, node
  <2>3. CASE SwitchOn
    BY <2>1, <2>3 DEF SwitchOn, PushBegins, Eligible, Serving, Away, panel, node
  <2> QED
    BY <2>2, <2>3
<1>2. /\ op'.kind \in {"rotate", "switch"} /\ op'.at = "push" /\ op'.name = user.name
      /\ op'.secret = s /\ op' \in Operation
  BY <1>1, UserTypes DEF NoOp, Operation, Line, IInv
<1>3. /\ cleanup' \in Cleanup /\ cleanup'.at = cleanup.at /\ cleanup'.name = cleanup.name
      /\ cleanup'.at = "nodes" => cleanup'.late
  BY <1>1 DEF IInv, TypeOK, Cleanup
<1>4. TypeOK'
  BY <1>1, <1>2, <1>3 DEF IInv, TypeOK
<1>5. OpKinds' /\ Secrets' /\ Offline' /\ Closed' /\ Accepted' /\ Pushed' /\ TakingBack'
  BY <1>1, <1>2 DEF IInv, OpKinds, Secrets, Offline, Closed, Accepted, Pushed, TakingBack, Pushing, Away
<1>6. Names' /\ Sending' /\ Reading'
  BY <1>1, <1>2, <1>3, UserTypes DEF IInv, Names, Sending, Reading, Pushing, Away
<1> QED
  BY <1>4, <1>5, <1>6 DEF IInv

\* A push that arrives, is stored, or is taken back.
LEMMA PushedKeeps ==
  ASSUME IInv, Push \/ PersistCredential \/ PersistFails \/ TakeBack
  PROVE  IInv'
<1>1. CASE Push
  <2>1. /\ op.at = "push" /\ Pushing
        /\ UNCHANGED <<user, cfg, row, disk, proc, opened, helper, cleanup, secrets, owed, told>>
        /\ faults' \in {faults, faults + 1}
        /\ record' \in {record, [name |-> op.name, secret |-> op.secret]}
    BY <1>1 DEF Push, CredentialSet, Fault, panel, IInv, OpKinds
  <2>2. \/ /\ op' = [op EXCEPT !.at = "persist"] /\ sure' = sure
           /\ record' = [name |-> op.name, secret |-> op.secret]
        \/ op' = NoOp /\ ~sure' /\ sure' \in BOOLEAN
    BY <1>1, <2>1 DEF Push, CredentialSet, NotOk, Pushing
  <2>3. record' \in [name : Nat, secret : Nat] /\ record'.name \in {record.name, op.name}
    BY <2>1, UserTypes DEF IInv, TypeOK
  <2>4. CASE op' = NoOp /\ ~sure' /\ sure' \in BOOLEAN
    <3>1. op'.kind = "none" /\ op'.at = "none" /\ op'.name = 0
      BY <2>4 DEF NoOp
    <3>2. TypeOK'
      BY <2>1, <2>3, <2>4, Nones DEF IInv, TypeOK
    <3>3. Names'
      BY <2>1, <2>3, <3>1, UserTypes DEF IInv, Names
    <3>4. OpKinds' /\ Secrets' /\ Sending' /\ Offline' /\ Reading' /\ TakingBack' /\ Pushed' /\ Accepted' /\ Closed'
      BY <2>1, <2>4, <3>1 DEF IInv, OpKinds, Secrets, Sending, Offline, Reading, TakingBack, Pushed, Accepted, Closed, Pushing, Away
    <3> QED
      BY <3>2, <3>3, <3>4 DEF IInv
  <2>5. CASE /\ op' = [op EXCEPT !.at = "persist"] /\ sure' = sure
             /\ record' = [name |-> op.name, secret |-> op.secret]
    <3>1. /\ op' \in Operation /\ op'.kind = op.kind /\ op'.at = "persist"
          /\ op'.name = op.name /\ op'.secret = op.secret
      BY <2>5 DEF IInv, TypeOK, Operation
    <3>2. TypeOK'
      BY <2>1, <2>3, <2>5, <3>1 DEF IInv, TypeOK
    <3>3. Names'
      BY <2>1, <2>3, <3>1, UserTypes DEF IInv, Names
    <3>4. OpKinds' /\ Secrets' /\ Sending' /\ Offline' /\ Reading' /\ TakingBack' /\ Pushed'
      BY <2>1, <2>5, <3>1 DEF IInv, OpKinds, Secrets, Sending, Offline, Reading, TakingBack, Pushed, Pushing, Away
    <3>5. Accepted' /\ Closed'
      BY <2>1, <2>5, <3>1 DEF IInv, Accepted, Closed, Offline, Pushing, Away
    <3> QED
      BY <3>2, <3>3, <3>4, <3>5 DEF IInv
  <2> QED
    BY <2>2, <2>4, <2>5
<1>2. CASE PersistCredential
  <2>1. /\ op.at = "persist" /\ Pushing /\ op' = NoOp /\ told'
        /\ row' = [secret |-> op.secret, enabled |-> TRUE]
        /\ sure' = (op.name = user.name)
        /\ UNCHANGED <<user, cfg, record, disk, proc, opened, helper, cleanup, secrets, faults, owed>>
    BY <1>2 DEF PersistCredential, node, IInv, OpKinds
  <2>2. op'.kind = "none" /\ op'.at = "none" /\ op'.name = 0
    BY <2>1 DEF NoOp
  <2>3. TypeOK'
    <3>1. row' \in [secret : Nat, enabled : BOOLEAN] /\ op' \in Operation
      BY <2>1, Nones, UserTypes DEF IInv
    <3>2. sure' \in BOOLEAN /\ told' \in BOOLEAN
      BY <1>2 DEF PersistCredential
    <3> QED
      BY <2>1, <3>1, <3>2 DEF IInv, TypeOK
  <2>4. OpKinds' /\ Secrets' /\ Sending' /\ Offline' /\ Reading' /\ TakingBack' /\ Pushed'
    BY <2>1, <2>2 DEF IInv, OpKinds, Secrets, Sending, Offline, Reading, TakingBack, Pushed, Pushing, Away
  <2>5. Accepted' /\ Closed'
    BY <2>1, <2>2 DEF IInv, Accepted, Pushed, Closed, Offline, Pushing, Away
  <2>6. Names'
    BY <2>1, <2>2, UserTypes DEF IInv, Names
  <2> QED
    BY <2>3, <2>4, <2>5, <2>6 DEF IInv
<1>3. CASE PersistFails
  <2>1. /\ op.at = "persist" /\ Pushing /\ ~sure' /\ sure' \in BOOLEAN
        /\ op' = [op EXCEPT !.at = "takeback"] \/ op' = NoOp
        /\ UNCHANGED <<user, cfg, row, record, disk, proc, opened, helper, cleanup, secrets, owed, told>>
        /\ faults' \in {faults, faults + 1}
    BY <1>3 DEF PersistFails, Fault, panel, node, IInv, OpKinds
  <2>2. /\ op' \in Operation
        /\ \/ op'.kind = op.kind /\ op'.at = "takeback" /\ op'.name = op.name /\ op'.secret = op.secret
           \/ op'.kind = "none" /\ op'.at = "none" /\ op'.name = 0
    <3>1. CASE op' = NoOp
      BY <3>1, Nones DEF NoOp
    <3>2. CASE op' = [op EXCEPT !.at = "takeback"]
      BY <3>2 DEF IInv, TypeOK, Operation
    <3> QED
      BY <2>1, <3>1, <3>2
  <2>3. TypeOK'
    BY <2>1, <2>2 DEF IInv, TypeOK
  <2>4. OpKinds' /\ Secrets' /\ Sending' /\ Offline' /\ Reading' /\ TakingBack' /\ Pushed' /\ Accepted' /\ Closed'
    BY <2>1, <2>2 DEF IInv, OpKinds, Secrets, Sending, Offline, Reading, TakingBack, Pushed, Accepted, Closed, Pushing, Away
  <2>5. Names'
    BY <2>1, <2>2, UserTypes DEF IInv, Names
  <2> QED
    BY <2>3, <2>4, <2>5 DEF IInv
<1>4. CASE TakeBack
  <2>1. /\ op.at = "takeback" /\ Pushing /\ op' = NoOp
        /\ record' = record \/ record' = NoRecord
        /\ UNCHANGED <<user, cfg, row, disk, proc, opened, helper, cleanup, secrets, faults, sure, owed, told>>
    BY <1>4 DEF TakeBack, CredentialRevoke, panel, history, IInv, OpKinds
  <2>2. /\ op'.kind = "none" /\ op'.at = "none" /\ op'.name = 0
        /\ record' = record \/ record'.name = 0
        /\ record' \in [name : Nat, secret : Nat]
    BY <2>1 DEF NoOp, NoRecord, IInv, TypeOK
  <2>3. TypeOK'
    BY <2>1, <2>2, Nones DEF IInv, TypeOK
  <2>4. OpKinds' /\ Secrets' /\ Sending' /\ Offline' /\ Reading' /\ TakingBack' /\ Pushed' /\ Accepted'
    BY <2>1, <2>2 DEF IInv, OpKinds, Secrets, Sending, Offline, Reading, TakingBack, Pushed, Accepted, Pushing, Away
  <2>5. Names' /\ Closed'
    BY <2>1, <2>2, UserTypes DEF IInv, Names, Closed, Offline, Pushing, Away
  <2> QED
    BY <2>3, <2>4, <2>5 DEF IInv
<1> QED
  BY <1>1, <1>2, <1>3, <1>4

\* A switch-off is a revocation, whatever the panel hears of it.
LEMMA SwitchOffKeeps ==
  ASSUME IInv, SwitchOff
  PROVE  IInv'
<1>1. /\ UNCHANGED <<user, cfg, disk, proc, opened, helper, op, cleanup, secrets, owed, told>>
      /\ op.kind = "none" /\ faults' \in {faults, faults + 1} /\ sure' \in BOOLEAN
      /\ row' = [row EXCEPT !.enabled = FALSE] \/ (row' = row /\ ~sure')
      /\ CredentialRevoke(user.name) \/ record' = record
  BY DEF SwitchOff, Fault, Serving
<1>2. /\ record' \in [name : Nat, secret : Nat] /\ (record' = record \/ record'.name = 0)
  BY <1>1, UserTypes, Revoked DEF IInv, TypeOK
<1>3. /\ row' \in [secret : Nat, enabled : BOOLEAN] /\ row'.secret = row.secret
      /\ row'.enabled => row.enabled /\ ~sure'
  BY <1>1, UserTypes DEF IInv, TypeOK
<1>4. TypeOK'
  BY <1>1, <1>2, <1>3 DEF IInv, TypeOK
<1>5. Names' /\ Closed'
  BY <1>1, <1>2, UserTypes DEF IInv, Names, Closed, Away
<1>6. op.at \notin {"push", "persist", "takeback"} /\ ~Pushing
  BY <1>1 DEF IInv, OpKinds, Pushing
<1>7. OpKinds' /\ Secrets' /\ Sending' /\ Offline' /\ Reading' /\ TakingBack' /\ Pushed' /\ Accepted'
  BY <1>1, <1>3, <1>6 DEF IInv, OpKinds, Secrets, Sending, Offline, Reading, TakingBack, Pushed, Accepted, Pushing, Away
<1> QED
  BY <1>4, <1>5, <1>7 DEF IInv

\* The user goes: the credential is off, and its revocation is sent if the
\* panel has a row of it.
LEMMA GoneKeeps ==
  ASSUME IInv, cleanup.at = "none", user.exists, NEW gone, DisableBestEffort(gone),
         gone \in [exists : BOOLEAN, active : BOOLEAN, assigned : BOOLEAN, name : Nat \ {0}],
         gone.exists, gone.name = user.name, ~(gone.active /\ gone.assigned),
         UNCHANGED <<cfg, node, op, secrets, faults, sure, told>>
  PROVE  IInv'
<1>1. /\ row' \in [secret : Nat, enabled : BOOLEAN] /\ row'.secret = row.secret /\ ~row'.enabled
      /\ user' = gone /\ UNCHANGED <<record, op, sure, told>>
  BY UserTypes DEF DisableBestEffort, node, IInv
<1>2. owed' = Pushing /\ Away'
  BY <1>1 DEF DisableBestEffort, Pushing, Away
<1>3. /\ cleanup' \in Cleanup
      /\ \/ row.secret = 0 /\ cleanup'.at = "none"
         \/ cleanup'.at = "send" /\ cleanup'.name = user.name
  <2>1. CASE row.secret = 0
    BY <2>1 DEF DisableBestEffort, IInv, TypeOK
  <2>2. CASE row.secret # 0
    <3>1. cleanup' = [NoCleanup EXCEPT !.at = "send", !.name = user.name]
      BY <2>2 DEF DisableBestEffort
    <3> QED
      BY <3>1, UserTypes DEF NoCleanup, Cleanup, IInv
  <2> QED
    BY <2>1, <2>2
<1>4. TypeOK'
  <2>1. owed' \in BOOLEAN
    BY DEF DisableBestEffort
  <2> QED
    BY <1>1, <1>3, <2>1 DEF IInv, TypeOK, node
<1>5. OpKinds' /\ Secrets' /\ Sending' /\ Offline' /\ TakingBack' /\ Accepted'
  BY <1>1, <1>2, <1>3 DEF IInv, OpKinds, Secrets, Sending, Offline, TakingBack, Accepted, Pushing, Away
<1>6. Names' /\ Reading'
  BY <1>1, <1>3 DEF IInv, Names, Reading
<1>7. Pushed'
  BY <1>1, <1>2 DEF IInv, OpKinds, Pushed, Pushing
<1>8. Closed'
  BY <1>1, <1>2, <1>3 DEF IInv, Secrets, Closed
<1> QED
  BY <1>4, <1>5, <1>6, <1>7, <1>8 DEF IInv

\* The user is deactivated, loses the node, comes back, or is renamed.
LEMMA UserKeeps ==
  ASSUME IInv, Deactivate \/ Unassign \/ Return \/ Rename
  PROVE  IInv'
<1>1. CASE Deactivate
  <2> DEFINE gone == [user EXCEPT !.active = FALSE]
  <2>1. /\ gone \in [exists : BOOLEAN, active : BOOLEAN, assigned : BOOLEAN, name : Nat \ {0}]
        /\ gone.exists = user.exists /\ gone.name = user.name /\ ~gone.active
    BY DEF IInv, TypeOK
  <2>2. /\ cleanup.at = "none" /\ user.exists /\ DisableBestEffort(gone)
        /\ UNCHANGED <<cfg, node, op, secrets, faults, sure, told>>
    BY <1>1 DEF Deactivate
  <2> HIDE DEF gone
  <2> QED
    BY <2>1, <2>2, GoneKeeps
<1>2. CASE Unassign
  <2> DEFINE gone == [user EXCEPT !.assigned = FALSE]
  <2>1. /\ gone \in [exists : BOOLEAN, active : BOOLEAN, assigned : BOOLEAN, name : Nat \ {0}]
        /\ gone.exists = user.exists /\ gone.name = user.name /\ ~gone.assigned
    BY DEF IInv, TypeOK
  <2>2. /\ cleanup.at = "none" /\ user.exists /\ DisableBestEffort(gone)
        /\ UNCHANGED <<cfg, node, op, secrets, faults, sure, told>>
    BY <1>2 DEF Unassign
  <2> HIDE DEF gone
  <2> QED
    BY <2>1, <2>2, GoneKeeps
<1>3. CASE Return
  <2>1. /\ user' = [user EXCEPT !.active = TRUE, !.assigned = TRUE] /\ user.exists /\ op.kind = "none"
        /\ cleanup.at = "none"
        /\ UNCHANGED <<cfg, row, disk, proc, opened, record, helper, op, cleanup, secrets, faults, sure, owed, told>>
    BY <1>3 DEF Return, Serving, node, history
  <2>2. /\ user' \in [exists : BOOLEAN, active : BOOLEAN, assigned : BOOLEAN, name : Nat \ {0}]
        /\ user'.name = user.name /\ user'.exists = user.exists /\ ~Away'
    BY <2>1 DEF IInv, TypeOK, Away
  <2>3. TypeOK'
    BY <2>1, <2>2 DEF IInv, TypeOK
  <2> QED
    BY <2>1, <2>2, <2>3 DEF IInv, OpKinds, Names, Secrets, Sending, Offline, Reading, Pushed, TakingBack, Accepted, Closed, Pushing
<1>4. CASE Rename
  <2>1. /\ user' = [user EXCEPT !.name = user.name + 1] /\ ~sure' /\ sure' \in BOOLEAN /\ cleanup.at = "none"
        /\ UNCHANGED <<cfg, row, disk, proc, opened, record, helper, op, cleanup, secrets, faults, owed, told>>
    BY <1>4 DEF Rename, node
  <2>2. /\ user' \in [exists : BOOLEAN, active : BOOLEAN, assigned : BOOLEAN, name : Nat \ {0}]
        /\ user'.name = user.name + 1 /\ user'.exists = user.exists
        /\ user'.active = user.active /\ user'.assigned = user.assigned
    BY <2>1 DEF IInv, TypeOK
  <2>3. TypeOK'
    BY <2>1, <2>2 DEF IInv, TypeOK
  <2>4. Names' /\ Closed'
    BY <2>1, <2>2, UserTypes DEF IInv, Names, Closed
  <2> QED
    BY <2>1, <2>2, <2>3, <2>4 DEF IInv, OpKinds, Secrets, Sending, Offline, Reading, Pushed, TakingBack, Accepted, Pushing, Away
<1> QED
  BY <1>1, <1>2, <1>3, <1>4

\* Deletion, the thread's revocation, and a panel that dies.
LEMMA CleanupKeeps ==
  ASSUME IInv, SnapshotForDeletion \/ DeleteUser \/ RevokeFromThread \/ PanelCrashes
  PROVE  IInv'
<1>1. CASE SnapshotForDeletion
  <2>1. /\ cleanup.at = "none" /\ op.kind = "none" /\ user.exists
        /\ cleanup' = [NoCleanup EXCEPT !.at = "nodes", !.name = user.name, !.had = (row.secret # 0)]
        /\ UNCHANGED <<user, cfg, row, disk, proc, opened, record, helper, op, secrets, faults, sure, owed, told>>
    BY <1>1 DEF SnapshotForDeletion, Serving, panel, node, history
  <2>2. /\ cleanup' \in Cleanup /\ cleanup'.at = "nodes" /\ cleanup'.name = user.name
        /\ cleanup'.had = (row.secret # 0)
    BY <2>1, UserTypes DEF NoCleanup, Cleanup, IInv
  <2>3. TypeOK'
    BY <2>1, <2>2 DEF IInv, TypeOK
  <2> QED
    BY <2>1, <2>2, <2>3 DEF IInv, OpKinds, Names, Secrets, Sending, Offline, Reading, Pushed, TakingBack, Accepted, Closed, Pushing, Away
<1>2. CASE DeleteUser
  <2>1. /\ cleanup.at = "nodes" /\ op.kind = "none" /\ user' = [user EXCEPT !.exists = FALSE]
        /\ row' = NoRow /\ owed' = cleanup.late
        /\ cleanup' = IF cleanup.had THEN [NoCleanup EXCEPT !.at = "send", !.name = cleanup.name] ELSE NoCleanup
        /\ UNCHANGED <<cfg, disk, proc, opened, record, helper, op, secrets, faults, sure, told>>
    BY <1>2 DEF DeleteUser, Serving, node
  <2>2. /\ user' \in [exists : BOOLEAN, active : BOOLEAN, assigned : BOOLEAN, name : Nat \ {0}]
        /\ user'.name = user.name /\ ~user'.exists
    BY <2>1 DEF IInv, TypeOK
  <2>3. row' \in [secret : Nat, enabled : BOOLEAN] /\ ~row'.enabled
    BY <2>1 DEF NoRow
  <2>4. /\ cleanup' \in Cleanup
        /\ \/ cleanup.had /\ cleanup'.at = "send" /\ cleanup'.name = cleanup.name
           \/ ~cleanup.had /\ cleanup'.at = "none"
    <3>1. CASE cleanup.had
      <4>1. cleanup' = [NoCleanup EXCEPT !.at = "send", !.name = cleanup.name]
        BY <2>1, <3>1
      <4> QED
        BY <3>1, <4>1, UserTypes DEF NoCleanup, Cleanup, IInv
    <3>2. CASE ~cleanup.had
      BY <2>1, <3>2, Nones DEF NoCleanup
    <3> QED
      BY <3>1, <3>2
  <2>5. TypeOK'
    BY <2>1, <2>2, <2>3, <2>4 DEF IInv, TypeOK, Cleanup
  <2>6. OpKinds' /\ Secrets' /\ Sending' /\ Offline' /\ Reading' /\ Pushed' /\ TakingBack' /\ Accepted'
    BY <2>1, <2>2, <2>3, <2>4 DEF IInv, OpKinds, Secrets, Sending, Offline, Reading, Pushed, TakingBack, Accepted, Pushing, Away
  <2>7. Names'
    BY <2>1, <2>2, <2>4 DEF IInv, Names
  <2>8. Closed'
    BY <2>1, <2>2, <2>4 DEF IInv, Reading, Closed
  <2> QED
    BY <2>5, <2>6, <2>7, <2>8 DEF IInv
<1>3. CASE RevokeFromThread
  <2>1. /\ cleanup.at = "send" /\ cleanup' = NoCleanup /\ faults' \in {faults, faults + 1}
        /\ UNCHANGED <<user, cfg, row, disk, proc, opened, helper, op, secrets, sure, told>>
        /\ CredentialRevoke(cleanup.name) \/ record' = record
        /\ (CredentialRevoke(cleanup.name) /\ owed' = owed) \/ owed' = TRUE
    BY <1>3 DEF RevokeFromThread, Fault, panel
  <2>2. cleanup'.at = "none" /\ cleanup' \in Cleanup /\ cleanup.name = user.name /\ Away
    BY <2>1, Nones DEF NoCleanup, IInv, Names, Sending
  <2>3. /\ record' \in [name : Nat, secret : Nat] /\ (record' = record \/ record'.name = 0)
        /\ owed' \in BOOLEAN /\ (owed' = owed \/ owed')
        /\ ~owed' => record'.name # user.name
    BY <2>1, <2>2, UserTypes, Revoked DEF IInv, TypeOK
  <2>4. TypeOK'
    BY <2>1, <2>2, <2>3 DEF IInv, TypeOK
  <2>5. Names'
    BY <2>1, <2>2, <2>3, UserTypes DEF IInv, Names
  <2>6. OpKinds' /\ Secrets' /\ Sending' /\ Offline' /\ Reading' /\ TakingBack' /\ Closed'
    BY <2>1, <2>2, <2>3 DEF IInv, OpKinds, Secrets, Sending, Offline, Reading, TakingBack, Closed, Pushing, Away
  <2>7. Pushed' /\ Accepted'
    BY <2>1, <2>2, <2>3 DEF IInv, OpKinds, Sending, Pushed, Accepted, Pushing, Away
  <2> QED
    BY <2>4, <2>5, <2>6, <2>7 DEF IInv
<1>4. CASE PanelCrashes
  <2>1. /\ op' = NoOp /\ cleanup' = NoCleanup /\ faults' = faults + 1
        /\ sure' = IF Pushing THEN FALSE ELSE sure
        /\ owed' = (owed \/ cleanup.at = "send")
        /\ UNCHANGED <<user, cfg, row, disk, proc, opened, record, helper, secrets, told>>
    BY <1>4 DEF PanelCrashes, NotOk, Fault, Pushing, panel, node
  <2>2. /\ op'.kind = "none" /\ op'.at = "none" /\ op'.name = 0 /\ op' \in Operation
        /\ cleanup'.at = "none" /\ cleanup' \in Cleanup
    BY <2>1, Nones DEF NoOp, NoCleanup
  <2>3. TypeOK'
    <3>1. sure' \in BOOLEAN
      <4>1. CASE Pushing
        BY <2>1, <4>1
      <4>2. CASE ~Pushing
        BY <2>1, <4>2 DEF IInv, TypeOK
      <4> QED
        BY <4>1, <4>2
    <3>2. owed' \in BOOLEAN
      BY <2>1
    <3>3. faults' \in Nat
      BY <2>1 DEF IInv, TypeOK
    <3> QED
      BY <2>1, <2>2, <3>1, <3>2, <3>3 DEF IInv, TypeOK
  <2>4. Names'
    BY <2>1, <2>2, UserTypes DEF IInv, Names
  <2> QED
    BY <2>1, <2>2, <2>3, <2>4 DEF IInv, OpKinds, Secrets, Sending, Offline, Reading, Pushed, TakingBack, Accepted, Closed, Pushing, Away
<1> QED
  BY <1>1, <1>2, <1>3, <1>4

LEMMA StepIInv ==
  ASSUME IInv, [Next]_vars
  PROVE  IInv'
<1>1. CASE NodeStep
  BY <1>1, NodeKeeps
<1>2. CASE PanelStep
  BY <1>2, ListenerKeeps, PushedKeeps, CleanupKeeps DEF PanelStep
<1>3. CASE Request
  BY <1>3, ListenerKeeps, OffKeeps, PushKeeps, SwitchOffKeeps, UserKeeps, CleanupKeeps DEF Request
<1>4. CASE PanelCrashes
  BY <1>4, CleanupKeeps
<1>5. CASE UNCHANGED vars
  <2>1. TypeOK' /\ UNCHANGED <<user, row, record, op, cleanup, sure, owed, told>>
    BY <1>5 DEF vars, panel, node, history, IInv, TypeOK
  <2> QED
    BY <2>1, Aside
<1> QED
  BY <1>1, <1>2, <1>3, <1>4, <1>5 DEF Next

LEMMA InitIInv == Init => IInv
<1> SUFFICES ASSUME Init PROVE IInv
  OBVIOUS
<1>1. /\ user.exists /\ user.active /\ user.assigned /\ user.name = 1
      /\ op.kind = "none" /\ op.at = "none" /\ op.name = 0 /\ cleanup.at = "none"
      /\ record.name = 0 /\ ~row.enabled /\ ~told
  BY DEF Init, NoOp, NoCleanup, NoRecord, NoRow
<1>2. TypeOK
  <2>1. user \in [exists : BOOLEAN, active : BOOLEAN, assigned : BOOLEAN, name : Nat \ {0}]
    BY SMT DEF Init
  <2>2. cfg \in [setting : Line, enabled : BOOLEAN]
    BY DEF Init, Line
  <2>3. /\ row \in [secret : Nat, enabled : BOOLEAN]
        /\ record \in [name : Nat, secret : Nat]
    BY DEF Init, NoRow, NoRecord
  <2>4. disk \in Line /\ proc \in Line /\ opened \subseteq Line
    BY DEF Init, Line
  <2>5. helper \in Helper /\ op \in Operation /\ cleanup \in Cleanup
    BY Nones DEF Init
  <2>6. /\ secrets \in Nat /\ faults \in Nat
        /\ sure \in BOOLEAN /\ owed \in BOOLEAN /\ told \in BOOLEAN
    BY DEF Init
  <2> QED
    BY <2>1, <2>2, <2>3, <2>4, <2>5, <2>6 DEF TypeOK
<1> QED
  BY <1>1, <1>2 DEF IInv, OpKinds, Names, Secrets, Sending, Offline, Reading, Pushed, TakingBack, Accepted, Closed, Pushing, Away

LEMMA AlwaysIInv == Spec => []IInv
<1>1. Init => IInv
  BY InitIInv
<1>2. IInv /\ [Next]_vars => IInv'
  BY StepIInv
<1> QED
  BY <1>1, <1>2, PTL DEF Spec

-----------------------------------------------------------------------------
(* The rows, the node's files and the operations keep their types.         *)
THEOREM RouterTypes == Spec => []TypeOK
<1>1. IInv => TypeOK
  BY DEF IInv
<1> QED
  BY <1>1, AlwaysIInv, PTL

(* rotate_user_router_openvpn_credential and the status route: with no     *)
(* bound on passwords, names, settings or faults, a credential shown as    *)
(* enabled is the one the node accepts.                                    *)
THEOREM ShownIsAccepted == Spec => []EnabledIsAccepted
<1>1. IInv => EnabledIsAccepted
  BY DEF IInv, Accepted, EnabledIsAccepted, Quiet, Serving, Pushing
<1> QED
  BY <1>1, AlwaysIInv, PTL

(* disable_router_credentials_best_effort and delete_user: a clean-up that *)
(* was reported done has ended every password anybody was given.           *)
THEOREM CleanupCloses == Spec => []ClosedWhenTold
<1>1. IInv => ClosedWhenTold
  BY DEF IInv, Closed, ClosedWhenTold, Quiet, Away
<1> QED
  BY <1>1, AlwaysIInv, PTL

-----------------------------------------------------------------------------
(***************************************************************************)
(* AnyConnect. A password that is stored is the one whose hash is stored   *)
(* with it: a row of before that time has none, and nothing ever writes    *)
(* the one without the other.                                              *)
(***************************************************************************)
Credential == [has : BOOLEAN, hash : Secret \cup {0}, cipher : Secret \cup {0},
               under : Key \cup {0}, enabled : BOOLEAN]
StoredInv == /\ cred \in Credential /\ default \in BOOLEAN /\ key \in Key \cup {0}
             /\ cred.cipher # 0 => cred.hash = cred.cipher

LEMMA StoredInit ==
  Begins => StoredInv
<1> SUFFICES ASSUME Begins  PROVE StoredInv
  OBVIOUS
<1>1. default \in BOOLEAN /\ key \in Key \cup {0}
  BY DEF Begins, AnyConnect!Init, AnyConnect!None
<1>2. AnyConnect!NoCred \in Credential /\ AnyConnect!NoCred.cipher = 0
  BY DEF AnyConnect!NoCred, AnyConnect!None, Credential
<1>3. ASSUME NEW s \in Secret, NEW on \in BOOLEAN, cred = AnyConnect!Legacy(s, on)
      PROVE  cred \in Credential /\ cred.cipher = 0
  BY <1>3 DEF AnyConnect!Legacy, AnyConnect!NoCred, AnyConnect!None, Credential
<1>4. cred = AnyConnect!NoCred \/ \E s \in Secret, on \in BOOLEAN : cred = AnyConnect!Legacy(s, on)
  BY DEF Begins, AnyConnect!Init
<1>5. cred \in Credential /\ cred.cipher = 0
  BY <1>2, <1>3, <1>4
<1> QED
  BY <1>1, <1>5 DEF StoredInv

\* A password is stored with its hash.
LEMMA Provisions ==
  ASSUME StoredInv, NEW s \in Secret, NEW on \in BOOLEAN, NEW keep \in BOOLEAN,
         AnyConnect!Provision(s, on, keep), default' = default, key' = key
  PROVE  StoredInv'
<1>1. PICK to \in BOOLEAN : cred' = [has |-> TRUE, hash |-> s, cipher |-> s, under |-> key, enabled |-> to]
  BY DEF StoredInv, Credential, AnyConnect!Provision
<1> QED
  BY <1>1 DEF StoredInv, Credential

LEMMA Switches ==
  ASSUME StoredInv, NEW on \in BOOLEAN, cred' = [cred EXCEPT !.enabled = on], default' = default, key' = key
  PROVE  StoredInv'
BY DEF StoredInv, Credential

LEMMA StoredStep ==
  ASSUME StoredInv, AnyConnectSteps \/ UNCHANGED anyconnect
  PROVE  StoredInv'
<1>1. CASE UNCHANGED anyconnect
  BY <1>1 DEF anyconnect, StoredInv
<1>2. CASE \E r \in {"default", "on", "off"} : AnyConnect!CreateUser(r)
  <2>1. \/ UNCHANGED <<cred, default, key>>
        \/ (\E s \in Secret : AnyConnect!Provision(s, TRUE, FALSE)) /\ UNCHANGED <<default, key>>
    BY <1>2 DEF AnyConnect!CreateUser
  <2>2. CASE UNCHANGED <<cred, default, key>>
    BY <2>2 DEF StoredInv
  <2> QED
    BY <2>1, <2>2, Provisions
<1>3. CASE \E on \in BOOLEAN : AnyConnect!UpdateSettings(on)
  BY <1>3 DEF AnyConnect!UpdateSettings, StoredInv
<1>4. CASE \E s \in Secret : AnyConnect!RotatePassword(s) \/ AnyConnect!Authenticate(s)
  <2>1. PICK s \in Secret : AnyConnect!RotatePassword(s) \/ AnyConnect!Authenticate(s)
    BY <1>4
  <2>2. CASE AnyConnect!RotatePassword(s)
    BY <2>2, Provisions DEF AnyConnect!RotatePassword
  <2>3. CASE AnyConnect!Authenticate(s)
    BY <2>3 DEF AnyConnect!Authenticate, StoredInv
  <2> QED
    BY <2>1, <2>2, <2>3
<1>5. CASE AnyConnect!DeleteUser
  BY <1>5 DEF AnyConnect!DeleteUser, AnyConnect!NoCred, AnyConnect!None, StoredInv, Credential
<1>6. CASE AnyConnect!SwitchOn
  <2>1. CASE cred.cipher = 0
    BY <1>6, <2>1, Provisions DEF AnyConnect!SwitchOn, AnyConnect!None
  <2>2. CASE cred.cipher # 0
    BY <1>6, <2>2, Switches DEF AnyConnect!SwitchOn, AnyConnect!None
  <2> QED
    BY <2>1, <2>2
<1>7. CASE AnyConnect!SwitchOff
  BY <1>7, Switches DEF AnyConnect!SwitchOff
<1>8. CASE AnyConnect!Acquire \/ AnyConnect!Leave \/ AnyConnect!Served
  BY <1>8 DEF AnyConnect!Acquire, AnyConnect!Leave, AnyConnect!Served, StoredInv
<1>9. CASE \E k \in {AnyConnect!None} \cup Key : AnyConnect!KeyFile(k)
  BY <1>9 DEF AnyConnect!KeyFile, AnyConnect!None, StoredInv
<1> QED
  BY <1>1, <1>2, <1>3, <1>4, <1>5, <1>6, <1>7, <1>8, <1>9 DEF AnyConnectSteps, AnyConnect!Next

\* A password that the panel shows is one a login is accepted with, whatever
\* became of the key file, however credentials were rotated, switched or
\* created with a user in between.
THEOREM PasswordsWork ==
  Services => []ShownWorks
<1>1. Begins => StoredInv
  BY StoredInit
<1>2. StoredInv /\ [ServiceSteps]_<<part, router, anyconnect, reseller, backups>>
        => StoredInv'
  BY StoredStep DEF ServiceSteps, RouterSteps, ResellerSteps, BackupSteps
<1>3. StoredInv => ShownWorks
  <2> SUFFICES ASSUME StoredInv  PROVE ShownWorks
    OBVIOUS
  <2>1. AnyConnect!DecryptPassword(cred) \in {0, cred.cipher}
    BY DEF AnyConnect!DecryptPassword, AnyConnect!None
  <2> QED
    BY <2>1 DEF ShownWorks, AnyConnect!ShownWorks, AnyConnect!Revealed, AnyConnect!Subscription, AnyConnect!Accepted,
      AnyConnect!VerifyPassword, AnyConnect!None, StoredInv
<1> QED
  BY <1>1, <1>2, <1>3, PTL DEF Services

-----------------------------------------------------------------------------
(***************************************************************************)
(* A reseller. Whoever holds the row while it waits is a renewal that      *)
(* resets usage, whose request nobody else ends, and a stuck loop waits    *)
(* for that row.                                                           *)
(***************************************************************************)
HeldByReset == /\ req = [u \in User |-> req[u]]
               /\ adminRow # Reseller!Nobody => adminRow \in User /\ req[adminRow].at = "reset"
               /\ loop = "stuck" => adminRow # Reseller!Nobody

LEMMA HeldInit ==
  Begins => HeldByReset
<1> SUFFICES ASSUME Begins  PROVE HeldByReset
  OBVIOUS
<1>1. req = [u \in User |-> Reseller!NoRequest] /\ adminRow = Reseller!Nobody /\ loop = "runs"
  BY DEF Begins, Reseller!Init
<1> QED
  BY <1>1 DEF HeldByReset

\* A request is taken up while nobody waits for the row it may take.
LEMMA TakenUp ==
  ASSUME HeldByReset, NEW u \in User, NEW r, req' = [req EXCEPT ![u] = r], loop' = loop,
         \/ adminRow = Reseller!Nobody /\ adminRow' = u /\ r.at = "reset"
         \/ adminRow' = adminRow /\ req[u].at # "reset"
         \/ adminRow' = Reseller!Nobody /\ loop # "stuck"
  PROVE  HeldByReset'
<1>1. req' = [v \in User |-> req'[v]] /\ req'[u] = r /\ \A v \in User \ {u} : req'[v] = req[v]
  BY DEF HeldByReset
<1> QED
  BY <1>1 DEF HeldByReset

\* What changes no request and takes no row; and what stops the loop.
LEMMA Beside ==
  ASSUME HeldByReset, UNCHANGED <<req, adminRow>>, loop' = loop \/ adminRow # Reseller!Nobody
  PROVE  HeldByReset'
BY DEF HeldByReset

LEMMA UserRequests ==
  ASSUME HeldByReset, NEW u \in User, NEW t,
         \/ Reseller!CreateUser(u, t) \/ Reseller!UpdateUser(u, t) \/ Reseller!RenewAdding(u, t)
         \/ Reseller!RenewResetting(u) \/ Reseller!ResetUsage(u) \/ Reseller!ResetFails(u)
         \/ Reseller!DeleteFromNodes(u) \/ Reseller!DeleteUser(u)
  PROVE  HeldByReset'
<1>1. CASE Reseller!CreateUser(u, t) \/ Reseller!UpdateUser(u, t) \/ Reseller!RenewAdding(u, t)
  BY <1>1, Beside DEF Reseller!CreateUser, Reseller!UpdateUser, Reseller!RenewAdding, Reseller!WithRow
<1>2. CASE Reseller!RenewResetting(u)
  <2>1. CASE adminRow = Reseller!Nobody
    <3> DEFINE r == [at |-> "reset", total |-> acct[u].total, used |-> acct[u].used]
    <3>1. adminRow' = u /\ req' = [req EXCEPT ![u] = r] /\ loop' = loop
      BY <1>2, <2>1 DEF Reseller!RenewResetting, Reseller!WithRow
    <3>2. r.at = "reset"
      OBVIOUS
    <3> HIDE DEF r
    <3> QED
      BY <2>1, <3>1, <3>2, TakenUp
  <2>2. CASE adminRow # Reseller!Nobody
    BY <1>2, <2>2, Beside DEF Reseller!RenewResetting, Reseller!WithRow
  <2> QED
    BY <2>1, <2>2
<1>3. CASE Reseller!ResetUsage(u) \/ Reseller!ResetFails(u)
  BY <1>3, TakenUp DEF Reseller!ResetUsage, Reseller!ResetFails, Reseller!Runs
<1>4. CASE Reseller!DeleteFromNodes(u)
  <2> DEFINE r == [at |-> "delete", total |-> acct[u].total, used |-> acct[u].used]
  <2>1. adminRow' = adminRow /\ req' = [req EXCEPT ![u] = r] /\ loop' = loop /\ req[u].at = "none"
    BY <1>4 DEF Reseller!DeleteFromNodes, Reseller!Idle, Reseller!NoRequest
  <2> HIDE DEF r
  <2> QED
    BY <2>1, TakenUp
<1>5. CASE Reseller!DeleteUser(u)
  <2>1. \/ UNCHANGED <<req, adminRow>> /\ adminRow # Reseller!Nobody
        \/ UNCHANGED <<adminRow, loop>> /\ req' = [req EXCEPT ![u] = Reseller!NoRequest]
    BY <1>5 DEF Reseller!DeleteUser, Reseller!WithRow
  <2>2. req[u].at # "reset"
    BY <1>5 DEF Reseller!DeleteUser
  <2> QED
    BY <2>1, <2>2, Beside, TakenUp
<1> QED
  BY <1>1, <1>2, <1>3, <1>4, <1>5

LEMMA HeldStep ==
  ASSUME HeldByReset, ResellerSteps \/ UNCHANGED reseller
  PROVE  HeldByReset'
<1>1. CASE UNCHANGED reseller
  BY <1>1, Beside DEF reseller
<1>2. ASSUME NEW u \in User, NEW t,
             \/ Reseller!EditByMain(u, t) \/ Reseller!DeleteByMain(u) \/ Reseller!ResetByMain(u) \/ Reseller!UsageSync(u)
      PROVE  HeldByReset'
  BY <1>2, Beside DEF Reseller!EditByMain, Reseller!DeleteByMain, Reseller!ResetByMain, Reseller!UsageSync
<1>3. ASSUME NEW q, NEW s, NEW on,
             \/ Reseller!CreateAdmin(q, s) \/ Reseller!UpdateAdmin(q, s, on) \/ Reseller!DeleteAdminAlone
             \/ Reseller!TransferUsers \/ Reseller!PurgeFromNodes \/ Reseller!PurgeUsers
      PROVE  HeldByReset'
  BY <1>3, Beside DEF Reseller!CreateAdmin, Reseller!UpdateAdmin, Reseller!DeleteAdminAlone, Reseller!TransferUsers,
    Reseller!PurgeFromNodes, Reseller!PurgeUsers, Reseller!WithRow
<1>4. CASE Reseller!PanelRestarts
  <2>1. req' = [u \in User |-> Reseller!NoRequest] /\ adminRow' = Reseller!Nobody /\ loop' = "runs"
    BY <1>4 DEF Reseller!PanelRestarts
  <2> QED
    BY <2>1 DEF HeldByReset
<1>5. CASE Reseller!Next
  BY <1>2, <1>3, <1>4, <1>5, UserRequests DEF Reseller!Next
<1> QED
  BY <1>1, <1>5 DEF ResellerSteps

\* The panel is stuck only behind a renewal that resets usage, for any users,
\* entitlements and requests: no other request waits with the reseller's row.
THEOREM OnlyResetsBlock ==
  Services => []StuckBehindReset
<1>1. Begins => HeldByReset
  BY HeldInit
<1>2. HeldByReset /\ [ServiceSteps]_<<part, router, anyconnect, reseller, backups>>
        => HeldByReset'
  BY HeldStep DEF ServiceSteps, RouterSteps, AnyConnectSteps, BackupSteps
<1>3. HeldByReset => StuckBehindReset
  BY DEF HeldByReset, StuckBehindReset, Reseller!StuckBehindReset
<1> QED
  BY <1>1, <1>2, <1>3, PTL DEF Services

-----------------------------------------------------------------------------
(***************************************************************************)
(* What a reseller's users are allocated is covered. A refund is computed  *)
(* from what a request read before it asked the nodes; whatever that is,   *)
(* it gives back no more than the total it read, and what others took from *)
(* the user meanwhile is not taken twice.                                  *)
(***************************************************************************)
Account == [owner : {"none", "reseller", "owner"}, total : 0..MaxTotal, used : Nat]
Accounts == [User -> Account]
Requests == [User -> [at : {"none", "reset", "delete"}, total : 0..MaxTotal, used : Nat]]
Admins == [here : BOOLEAN, active : BOOLEAN, quota : Nat, used : Nat, slots : Nat, slotsUsed : Nat]
CreditTypes == acct \in Accounts /\ req \in Requests /\ admin \in Admins /\ given \in Int

CreditInv == CreditTypes /\ AllocationCovered

\* What is allocated is a user's share and the others' shares.
Share(a) == IF a.owner = "reseller" THEN a.total ELSE 0
Others(a, u) ==
  {p \in User \X (1..MaxTotal) : p[1] # u /\ a[p[1]].owner = "reseller" /\ p[2] <= a[p[1]].total}

LEMMA BoxFinite == IsFiniteSet(User \X (1..MaxTotal))
<1>1. 1 \in Int /\ MaxTotal \in Int
  BY ResellerAssumption
<1> QED
  BY <1>1, ResellerAssumption, FS_Interval, FS_Product, Zenon

\* The instance counts as this module does.
LEMMA SameCardinality ==
  ASSUME NEW S
  PROVE  Reseller!Cardinality(S) = Cardinality(S)
BY DEF Reseller!Cardinality, Cardinality

LEMMA AllocatedSplit ==
  ASSUME NEW a \in Accounts, NEW u \in User
  PROVE  /\ Reseller!Allocated(a) = Share(a[u]) + Cardinality(Others(a, u))
         /\ Cardinality(Others(a, u)) \in Nat /\ Share(a[u]) \in Nat
<1> DEFINE All == {p \in User \X (1..MaxTotal) : a[p[1]].owner = "reseller" /\ p[2] <= a[p[1]].total}
           Own == {u} \X (1..Share(a[u]))
<1>1. Share(a[u]) \in Nat /\ Share(a[u]) <= MaxTotal /\ 1 \in Int /\ MaxTotal \in Int
  BY ResellerAssumption DEF Share, Accounts, Account
<1>2. IsFiniteSet(Own) /\ Cardinality(Own) = Share(a[u])
  <2>1. IsFiniteSet({u}) /\ Cardinality({u}) = 1
    BY FS_Singleton
  <2>2. /\ IsFiniteSet(1..Share(a[u]))
        /\ Cardinality(1..Share(a[u])) = IF 1 > Share(a[u]) THEN 0 ELSE Share(a[u]) - 1 + 1
    <3>1. Share(a[u]) \in Int
      BY <1>1
    <3> QED
      BY <1>1, <3>1, FS_Interval, Zenon
  <2>3. IsFiniteSet(Own) /\ Cardinality(Own) = Cardinality({u}) * Cardinality(1..Share(a[u]))
    BY <2>1, <2>2, FS_Product, Zenon
  <2> QED
    BY <1>1, <2>1, <2>2, <2>3
<1>3. IsFiniteSet(Others(a, u)) /\ Cardinality(Others(a, u)) \in Nat
  <2>1. Others(a, u) \in SUBSET (User \X (1..MaxTotal))
    BY DEF Others
  <2>2. IsFiniteSet(Others(a, u))
    BY <2>1, BoxFinite, FS_Subset, Zenon
  <2> QED
    BY <2>2, FS_CardinalityType, Zenon
<1>4. All = Own \cup Others(a, u) /\ Own \cap Others(a, u) = {}
  <2>1. ASSUME NEW p \in All, p \notin Others(a, u)
        PROVE  p \in Own
    BY <1>1, <2>1 DEF Others, Share
  <2>2. ASSUME NEW p \in Own
        PROVE  p \in All /\ p \notin Others(a, u)
    BY <1>1, <2>2 DEF Others, Share, Accounts, Account
  <2>3. Others(a, u) \subseteq All
    BY DEF Others
  <2> QED
    BY <2>1, <2>2, <2>3
<1>5. Cardinality(Own \cup Others(a, u)) =
        Cardinality(Own) + Cardinality(Others(a, u)) - Cardinality(Own \cap Others(a, u))
  BY <1>2, <1>3, FS_Union, Zenon
<1>6. Cardinality(Own \cap Others(a, u)) = 0
  BY <1>4, FS_EmptySet, Zenon
<1>7. Reseller!Allocated(a) = Cardinality(Own \cup Others(a, u))
  BY <1>4, SameCardinality DEF Reseller!Allocated
<1> QED
  BY <1>1, <1>2, <1>3, <1>5, <1>6, <1>7

LEMMA AllocatedChange ==
  ASSUME NEW a \in Accounts, NEW b \in Accounts, NEW u \in User, \A v \in User \ {u} : a[v] = b[v]
  PROVE  /\ Reseller!Allocated(b) + Share(a[u]) = Reseller!Allocated(a) + Share(b[u])
         /\ Reseller!Allocated(a) \in Nat /\ Reseller!Allocated(b) \in Nat
<1>1. Others(a, u) = Others(b, u)
  BY DEF Others
<1> QED
  BY <1>1, AllocatedSplit

LEMMA AllocatedType ==
  ASSUME NEW a \in Accounts
  PROVE  Reseller!Allocated(a) \in Nat
<1> DEFINE All == {p \in User \X (1..MaxTotal) : a[p[1]].owner = "reseller" /\ p[2] <= a[p[1]].total}
<1>1. IsFiniteSet(All)
  BY BoxFinite, FS_Subset
<1>2. Cardinality(All) \in Nat
  BY <1>1, FS_CardinalityType, Zenon
<1> QED
  BY <1>2, SameCardinality DEF Reseller!Allocated

LEMMA Records ==
  /\ Reseller!NoAccount.owner = "none" /\ Reseller!NoRequest.at = "none"
  /\ Reseller!Total = 0..MaxTotal
  /\ Reseller!NoAccount \in Account
  /\ Reseller!NoRequest \in [at : {"none", "reset", "delete"}, total : 0..MaxTotal, used : Nat]
  /\ Reseller!NoAdmin \in Admins /\ ~Reseller!NoAdmin.here
BY ResellerAssumption DEF Account, Reseller!NoAccount, Reseller!NoRequest, Reseller!Total, Reseller!NoAdmin, Admins

\* What a change of the entitlements pays for.
Paid(traffic, slots) ==
  /\ admin' = [admin EXCEPT !.used = @ + traffic, !.slotsUsed = @ + slots]
  /\ admin.used + traffic \in Nat /\ admin.slotsUsed + slots \in Nat

LEMMA PaidTypes ==
  ASSUME CreditTypes, NEW traffic \in Int, NEW slots \in Int, Paid(traffic, slots)
  PROVE  admin' \in Admins /\ admin'.here = admin.here /\ admin'.used = admin.used + traffic
BY DEF CreditTypes, Admins, Paid

LEMMA Changes ==
  ASSUME CreditTypes, NEW traffic \in Int, NEW slots \in Int,
         Reseller!MayChange(traffic, slots), Reseller!ChangeEntitlements(traffic, slots)
  PROVE  Paid(traffic, slots)
<1>1. admin.quota \in Nat /\ admin.slots \in Nat /\ admin.used \in Nat /\ admin.slotsUsed \in Nat
  BY DEF CreditTypes, Admins
<1> QED
  BY <1>1 DEF Reseller!MayChange, Reseller!ChangeEntitlements, Paid

\* One user's account changes, and what it costs is paid or given.
LEMMA OneAccount ==
  ASSUME CreditInv, NEW u \in User, NEW traffic \in Int, NEW slots \in Int, Paid(traffic, slots),
         NEW g \in Int, given' = given + g,
         NEW r \in Account, acct' = [acct EXCEPT ![u] = r], Share(r) <= Share(acct[u]) + traffic + g,
         req' \in Requests
  PROVE  CreditInv'
<1>1. acct \in Accounts /\ admin \in Admins /\ given \in Int
  BY DEF CreditInv, CreditTypes
<1>2. acct' \in Accounts /\ acct'[u] = r /\ \A v \in User \ {u} : acct'[v] = acct[v]
  BY <1>1 DEF Accounts, Account
<1>3. admin' \in Admins /\ admin'.here = admin.here /\ admin'.used = admin.used + traffic /\ admin.used \in Nat
  BY <1>1, PaidTypes DEF CreditInv, CreditTypes, Admins
<1>4. /\ Reseller!Allocated(acct') + Share(acct[u]) = Reseller!Allocated(acct) + Share(acct'[u])
      /\ Reseller!Allocated(acct) \in Nat /\ Reseller!Allocated(acct') \in Nat
      /\ Share(acct[u]) \in Nat /\ Share(acct'[u]) \in Nat
  BY <1>1, <1>2, AllocatedChange, AllocatedSplit
<1>5. AllocationCovered' /\ given' \in Int
  BY <1>1, <1>2, <1>3, <1>4 DEF CreditInv, AllocationCovered, Reseller!AllocationCovered
<1> QED
  BY <1>2, <1>3, <1>5 DEF CreditInv, CreditTypes

\* The reseller's entitlements stay as they are.
LEMMA NothingPaid ==
  ASSUME CreditInv, UNCHANGED admin
  PROVE  Paid(0, 0)
<1>1. admin \in Admins
  BY DEF CreditInv, CreditTypes
<1>2. admin.used \in Nat /\ admin.slotsUsed \in Nat /\ admin.used + 0 = admin.used /\ admin.slotsUsed + 0 = admin.slotsUsed
  BY <1>1 DEF Admins
<1>3. [admin EXCEPT !.used = admin.used, !.slotsUsed = admin.slotsUsed] = admin
  BY <1>1 DEF Admins
<1> QED
  BY <1>2, <1>3 DEF Paid

\* A request that waits for the row it needs changes nothing.
LEMMA Waits ==
  ASSUME CreditInv, UNCHANGED <<admin, acct, req, given>>
  PROVE  CreditInv'
BY DEF CreditInv, CreditTypes, AllocationCovered, Reseller!AllocationCovered

\* Without a reseller there is nothing to cover.
LEMMA Gone ==
  ASSUME CreditInv, admin' = Reseller!NoAdmin, acct' \in Accounts, UNCHANGED <<req, given>>
  PROVE  CreditInv'
BY Records DEF CreditInv, CreditTypes, AllocationCovered, Reseller!AllocationCovered

LEMMA CreateCredit ==
  ASSUME CreditInv, NEW u \in User, NEW t \in Reseller!Total, Reseller!CreateUser(u, t)
  PROVE  CreditInv'
<1> DEFINE slots == IF t = 0 THEN 1 ELSE 0
           new == [owner |-> "reseller", total |-> t, used |-> 0]
<1>1. CASE adminRow # Reseller!Nobody
  BY <1>1, Waits DEF Reseller!CreateUser, Reseller!WithRow
<1>2. CASE adminRow = Reseller!Nobody
  <2>1. /\ Reseller!MayChange(t, slots) /\ Reseller!ChangeEntitlements(t, slots)
        /\ acct' = [acct EXCEPT ![u] = new] /\ req' = req /\ given' = given
        /\ acct[u] = Reseller!NoAccount
    BY <1>2 DEF Reseller!CreateUser, Reseller!WithRow
  <2>2. t \in 0..MaxTotal /\ t \in Int /\ slots \in Int /\ 0 \in 0..MaxTotal
    BY Records, ResellerAssumption
  <2>3. Paid(t, slots)
    BY <2>1, <2>2, Changes DEF CreditInv
  <2>4. new \in Account /\ Share(new) = t /\ Share(acct[u]) = 0
    BY <2>1, <2>2, Records DEF Share, Account
  <2>5. req \in Requests /\ given \in Int /\ 0 \in Int /\ given' = given + 0
    BY <2>1 DEF CreditInv, CreditTypes
  <2>6. Share(new) <= Share(acct[u]) + t + 0
    BY <2>2, <2>4
  <2> HIDE DEF new, slots
  <2> QED
    BY <2>1, <2>2, <2>3, <2>4, <2>5, <2>6, OneAccount
<1> QED
  BY <1>1, <1>2

LEMMA UpdateCredit ==
  ASSUME CreditInv, NEW u \in User, NEW t \in Reseller!Total, Reseller!UpdateUser(u, t)
  PROVE  CreditInv'
<1> DEFINE traffic == Reseller!TrafficDelta(acct[u], t)
           slots == IF acct[u].total > 0 /\ t = 0 THEN 1 ELSE 0
           new == [acct[u] EXCEPT !.total = t]
<1>1. CASE adminRow # Reseller!Nobody
  BY <1>1, Waits DEF Reseller!UpdateUser, Reseller!WithRow
<1>2. CASE adminRow = Reseller!Nobody
  <2>1. /\ Reseller!MayChange(traffic, slots) /\ Reseller!ChangeEntitlements(traffic, slots)
        /\ acct' = [acct EXCEPT ![u].total = t] /\ req' = req /\ given' = given
        /\ acct[u].owner = "reseller"
    BY <1>2 DEF Reseller!UpdateUser, Reseller!WithRow, Reseller!Owned
  <2>2. t \in 0..MaxTotal /\ t \in Nat /\ slots \in Int /\ acct[u] \in Account
    BY Records, ResellerAssumption DEF CreditInv, CreditTypes, Accounts
  <2>3. acct[u].total \in Nat /\ acct[u].used \in Nat
    BY <2>2, ResellerAssumption DEF Account
  <2>4. traffic \in Int /\ t <= acct[u].total + traffic
    BY <2>2, <2>3 DEF Reseller!TrafficDelta, Reseller!Refundable
  <2>5. Paid(traffic, slots)
    BY <2>1, <2>2, <2>4, Changes DEF CreditInv
  <2>6. new \in Account /\ Share(new) = t /\ Share(acct[u]) = acct[u].total /\ acct' = [acct EXCEPT ![u] = new]
    BY <2>1, <2>2 DEF Share, Account
  <2>7. req' \in Requests /\ 0 \in Int /\ given' = given + 0
    BY <2>1 DEF CreditInv, CreditTypes
  <2>8. Share(new) <= Share(acct[u]) + traffic + 0
    BY <2>3, <2>4, <2>6
  <2> HIDE DEF new, slots, traffic
  <2> QED
    BY <2>1, <2>2, <2>4, <2>5, <2>6, <2>7, <2>8, OneAccount
<1> QED
  BY <1>1, <1>2

LEMMA AddCredit ==
  ASSUME CreditInv, NEW u \in User, NEW t \in Reseller!Total, Reseller!RenewAdding(u, t)
  PROVE  CreditInv'
<1> DEFINE new == [acct[u] EXCEPT !.total = @ + t]
<1>1. CASE adminRow # Reseller!Nobody
  BY <1>1, Waits DEF Reseller!RenewAdding, Reseller!WithRow
<1>2. CASE adminRow = Reseller!Nobody
  <2>1. /\ Reseller!MayChange(t, 0) /\ Reseller!ChangeEntitlements(t, 0)
        /\ acct' = [acct EXCEPT ![u].total = @ + t] /\ req' = req /\ given' = given
        /\ acct[u].owner = "reseller" /\ acct[u].total + t \in 0..MaxTotal
    BY <1>2, Records DEF Reseller!RenewAdding, Reseller!WithRow, Reseller!Owned
  <2>2. t \in Int /\ 0 \in Int /\ acct[u] \in Account /\ acct[u].total \in Int
    BY Records, ResellerAssumption DEF CreditInv, CreditTypes, Accounts, Account
  <2>3. Paid(t, 0)
    BY <2>1, <2>2, Changes DEF CreditInv
  <2>4. /\ new \in Account /\ Share(new) <= Share(acct[u]) + t + 0 /\ acct' = [acct EXCEPT ![u] = new]
    BY <2>1, <2>2 DEF Share, Account
  <2>5. req' \in Requests /\ given' = given + 0
    BY <2>1 DEF CreditInv, CreditTypes
  <2> HIDE DEF new
  <2> QED
    BY <2>1, <2>2, <2>3, <2>4, <2>5, OneAccount
<1> QED
  BY <1>1, <1>2

\* A request is taken up, with what it reads of the user.
LEMMA AskCredit ==
  ASSUME CreditInv, NEW u \in User, Reseller!RenewResetting(u) \/ Reseller!DeleteFromNodes(u)
  PROVE  CreditInv'
<1>1. CASE UNCHANGED <<admin, acct, req, given>>
  BY <1>1, Waits
<1>2. ASSUME NEW at \in {"reset", "delete"},
             req' = [req EXCEPT ![u] = [at |-> at, total |-> acct[u].total, used |-> acct[u].used]],
             UNCHANGED <<admin, acct, given>>
      PROVE  CreditInv'
  <2>1. req' \in Requests
    BY <1>2 DEF CreditInv, CreditTypes, Requests, Accounts, Account
  <2> QED
    BY <1>2, <2>1 DEF CreditInv, CreditTypes, AllocationCovered, Reseller!AllocationCovered
<1> QED
  BY <1>1, <1>2 DEF Reseller!RenewResetting, Reseller!DeleteFromNodes, Reseller!WithRow

\* A reset pays for the whole total it leaves, whatever the total was.
LEMMA ResetCredit ==
  ASSUME CreditInv, NEW u \in User, Reseller!ResetUsage(u) \/ Reseller!ResetFails(u)
  PROVE  CreditInv'
<1> DEFINE paid == req[u].total
           new == [acct[u] EXCEPT !.total = paid, !.used = 0]
<1>1. /\ paid \in Nat /\ paid \in Int /\ paid \in 0..MaxTotal /\ 0 \in Int /\ acct[u] \in Account
      /\ Share(acct[u]) \in Nat
  BY ResellerAssumption DEF CreditInv, CreditTypes, Accounts, Account, Requests, Share
<1>2. req' = [req EXCEPT ![u] = Reseller!NoRequest] /\ given' = given
  BY DEF Reseller!ResetUsage, Reseller!ResetFails
<1>3. req' \in Requests /\ given' = given + 0
  BY <1>2, Records DEF CreditInv, CreditTypes, Requests
<1>4. Paid(paid, 0) \/ UNCHANGED <<admin, acct>>
  BY <1>1 DEF Reseller!ResetUsage, Reseller!ResetFails, Reseller!ChangeEntitlements, Paid, CreditInv, CreditTypes, Admins
<1>5. CASE UNCHANGED <<admin, acct>>
  BY <1>2, <1>3, <1>5 DEF CreditInv, CreditTypes, AllocationCovered, Reseller!AllocationCovered
<1>6. CASE Paid(paid, 0) /\ acct' = [acct EXCEPT ![u] = new]
  <2>1. new \in Account /\ new.total = paid
    BY <1>1 DEF Account
  <2>2. Share(new) <= Share(acct[u]) + paid + 0
    <3> HIDE DEF new, paid
    <3> QED
      BY <1>1, <2>1 DEF Share
  <2> HIDE DEF new, paid
  <2> QED
    BY <1>1, <1>3, <1>6, <2>1, <2>2, OneAccount
<1>7. CASE Paid(paid, 0) /\ UNCHANGED acct
  <2>1. acct' = [acct EXCEPT ![u] = acct[u]]
    BY <1>7 DEF CreditInv, CreditTypes, Accounts
  <2>2. Share(acct[u]) <= Share(acct[u]) + paid + 0
    BY <1>1
  <2> HIDE DEF paid
  <2> QED
    BY <1>1, <1>3, <1>7, <2>1, <2>2, OneAccount
<1>8. UNCHANGED acct \/ acct' = [acct EXCEPT ![u] = new]
  <2>1. acct \in [User -> Account]
    BY DEF CreditInv, CreditTypes, Accounts
  <2> QED
    BY <2>1 DEF Reseller!ResetUsage, Reseller!ResetFails, Account
<1> QED
  BY <1>4, <1>5, <1>6, <1>7, <1>8

\* A deletion gives back at most the total it read.
LEMMA DeleteCredit ==
  ASSUME CreditInv, NEW u \in User, Reseller!DeleteUser(u)
  PROVE  CreditInv'
<1> DEFINE refund == Reseller!Refunded(u)
           back == req[u].total - Share(acct[u])
<1>1. CASE adminRow # Reseller!Nobody
  BY <1>1, Waits DEF Reseller!DeleteUser, Reseller!WithRow
<1>2. CASE adminRow = Reseller!Nobody
  <2>1. req' = [req EXCEPT ![u] = Reseller!NoRequest]
    BY <1>2 DEF Reseller!DeleteUser, Reseller!WithRow
  <2>2. req' \in Requests
    BY <2>1, Records DEF CreditInv, CreditTypes, Requests
  <2>3. CASE UNCHANGED <<admin, acct, given>>
    BY <2>2, <2>3 DEF CreditInv, CreditTypes, AllocationCovered, Reseller!AllocationCovered
  <2>4. CASE /\ Reseller!MayChange(refund, 0) /\ Reseller!ChangeEntitlements(refund, 0)
             /\ Reseller!Returned(u) /\ acct' = [acct EXCEPT ![u] = Reseller!NoAccount]
    <3>1. given' = given + req[u].total - Share(acct[u])
      BY <2>4 DEF Reseller!Returned, Reseller!Owned, Share
    <3>2. req[u].total \in Nat /\ req[u].used \in Nat /\ Share(acct[u]) \in Nat /\ given \in Int
      BY ResellerAssumption DEF CreditInv, CreditTypes, Requests, Accounts, Account, Share
    <3>3. refund \in Int /\ 0 \in Int /\ 0 <= req[u].total + refund
      BY <3>2 DEF Reseller!Refunded, Reseller!Refundable
    <3>4. Paid(refund, 0)
      BY <2>4, <3>3, Changes DEF CreditInv
    <3>5. Reseller!NoAccount \in Account /\ Share(Reseller!NoAccount) = 0
      BY Records DEF Share
    <3>6. back \in Int /\ given' = given + back
      BY <3>1, <3>2
    <3>7. Share(Reseller!NoAccount) <= Share(acct[u]) + refund + back
      <4> HIDE DEF refund
      <4> QED
        BY <3>2, <3>3, <3>5
    <3> HIDE DEF refund, back
    <3> QED
      BY <2>2, <2>4, <3>3, <3>4, <3>5, <3>6, <3>7, OneAccount
  <2> QED
    BY <1>2, <2>3, <2>4 DEF Reseller!DeleteUser, Reseller!WithRow
<1> QED
  BY <1>1, <1>2

\* The main administrator and the integration give what they add to an
\* account, and take what they remove from it.
LEMMA GivenCredit ==
  ASSUME CreditInv, NEW u \in User, NEW r \in Account, acct' = [acct EXCEPT ![u] = r],
         Reseller!Given, UNCHANGED <<admin, req>>
  PROVE  CreditInv'
<1>1. acct \in Accounts /\ acct' \in Accounts /\ \A v \in User \ {u} : acct'[v] = acct[v]
  BY DEF CreditInv, CreditTypes, Accounts, Account
<1>2. Reseller!Allocated(acct) \in Nat /\ Reseller!Allocated(acct') \in Nat
  BY <1>1, AllocatedChange
<1>3. given' \in Int /\ AllocationCovered'
  BY <1>2 DEF CreditInv, CreditTypes, Admins, AllocationCovered, Reseller!AllocationCovered, Reseller!Given
<1> QED
  BY <1>1, <1>3 DEF CreditInv, CreditTypes

LEMMA MainCredit ==
  ASSUME CreditInv, NEW u \in User,
         (\E t \in Reseller!Total : Reseller!EditByMain(u, t)) \/ Reseller!DeleteByMain(u)
  PROVE  CreditInv'
<1>1. ASSUME NEW t \in Reseller!Total, Reseller!EditByMain(u, t)
      PROVE  CreditInv'
  <2> DEFINE new == [acct[u] EXCEPT !.total = t]
  <2>1. acct' = [acct EXCEPT ![u] = new] /\ Reseller!Given /\ UNCHANGED <<admin, req>>
    BY <1>1 DEF Reseller!EditByMain
  <2>2. new \in Account
    BY Records DEF CreditInv, CreditTypes, Accounts, Account
  <2> HIDE DEF new
  <2> QED
    BY <2>1, <2>2, GivenCredit
<1>2. CASE Reseller!DeleteByMain(u)
  BY <1>2, Records, GivenCredit DEF Reseller!DeleteByMain
<1> QED
  BY <1>1, <1>2

\* Usage that is counted or reset leaves what is allocated.
LEMMA UsageCredit ==
  ASSUME CreditInv, NEW u \in User, Reseller!UsageSync(u) \/ Reseller!ResetByMain(u)
  PROVE  CreditInv'
<1>1. PICK n \in Nat : acct' = [acct EXCEPT ![u] = [acct[u] EXCEPT !.used = n]]
  BY DEF Reseller!UsageSync, Reseller!ResetByMain, CreditInv, CreditTypes, Accounts, Account
<1> DEFINE new == [acct[u] EXCEPT !.used = n]
<1>2. new \in Account /\ Share(new) = Share(acct[u]) /\ Share(acct[u]) \in Nat
  BY ResellerAssumption DEF CreditInv, CreditTypes, Accounts, Account, Share
<1>3. req' \in Requests /\ given' = given + 0 /\ 0 \in Int /\ Paid(0, 0)
  BY NothingPaid DEF Reseller!UsageSync, Reseller!ResetByMain, CreditInv, CreditTypes
<1>4. Share(new) <= Share(acct[u]) + 0 + 0
  BY <1>2
<1> HIDE DEF new
<1> QED
  BY <1>1, <1>2, <1>3, <1>4, OneAccount DEF new

\* The main administrator creates, changes and removes the reseller.
LEMMA AdminCredit ==
  ASSUME CreditInv,
         \/ \E q \in Quota, s \in Slots : Reseller!CreateAdmin(q, s) \/ \E on \in BOOLEAN : Reseller!UpdateAdmin(q, s, on)
         \/ Reseller!DeleteAdminAlone \/ Reseller!PurgeFromNodes
  PROVE  CreditInv'
<1>1. ASSUME NEW q \in Quota, NEW s \in Slots, Reseller!CreateAdmin(q, s)
      PROVE  CreditInv'
  <2>1. /\ admin' = [here |-> TRUE, active |-> TRUE, quota |-> q, used |-> 0, slots |-> s, slotsUsed |-> 0]
        /\ given' = Reseller!Allocated(acct) /\ UNCHANGED <<acct, req>>
    BY <1>1 DEF Reseller!CreateAdmin
  <2>2. Reseller!Allocated(acct) \in Nat
    BY AllocatedType DEF CreditInv, CreditTypes
  <2>3. admin' \in Admins /\ given' \in Int
    BY <2>1, <2>2, ResellerAssumption DEF Admins
  <2>4. AllocationCovered'
    BY <2>1, <2>2 DEF AllocationCovered, Reseller!AllocationCovered
  <2> QED
    BY <2>1, <2>3, <2>4 DEF CreditInv, CreditTypes
<1>2. ASSUME NEW q \in Quota, NEW s \in Slots, NEW on \in BOOLEAN, Reseller!UpdateAdmin(q, s, on)
      PROVE  CreditInv'
  <2>1. CASE adminRow # Reseller!Nobody
    BY <1>2, <2>1, Waits DEF Reseller!UpdateAdmin, Reseller!WithRow
  <2>2. CASE adminRow = Reseller!Nobody
    <3>1. admin' = [admin EXCEPT !.quota = q, !.slots = s, !.active = on] /\ UNCHANGED <<acct, req, given>>
      BY <1>2, <2>2 DEF Reseller!UpdateAdmin, Reseller!WithRow
    <3>2. admin' \in Admins /\ admin'.here = admin.here /\ admin'.used = admin.used
      BY <3>1, ResellerAssumption DEF CreditInv, CreditTypes, Admins
    <3> QED
      BY <3>1, <3>2 DEF CreditInv, CreditTypes, AllocationCovered, Reseller!AllocationCovered
  <2> QED
    BY <2>1, <2>2
<1>3. CASE Reseller!DeleteAdminAlone
  BY <1>3, Gone, Waits DEF Reseller!DeleteAdminAlone, Reseller!WithRow, CreditInv, CreditTypes
<1>4. CASE Reseller!PurgeFromNodes
  BY <1>4, Waits DEF Reseller!PurgeFromNodes
<1> QED
  BY <1>1, <1>2, <1>3, <1>4

\* A user who is left behind is the owner's.
LEMMA LeaveCredit ==
  ASSUME CreditInv, Reseller!TransferUsers \/ Reseller!PurgeUsers
  PROVE  CreditInv'
<1>1. CASE adminRow # Reseller!Nobody
  BY <1>1, Waits DEF Reseller!TransferUsers, Reseller!PurgeUsers, Reseller!WithRow
<1>2. CASE adminRow = Reseller!Nobody /\ Reseller!TransferUsers
  <2>1. /\ admin' = Reseller!NoAdmin /\ UNCHANGED <<req, given>>
        /\ acct' = [u \in User |-> IF acct[u].owner = "reseller" THEN [acct[u] EXCEPT !.owner = "owner"] ELSE acct[u]]
    BY <1>2 DEF Reseller!TransferUsers, Reseller!WithRow, Reseller!Owned
  <2>2. acct' \in Accounts
    BY <2>1 DEF CreditInv, CreditTypes, Accounts, Account
  <2> QED
    BY <2>1, <2>2, Gone
<1>3. CASE adminRow = Reseller!Nobody /\ Reseller!PurgeUsers
  <2>1. /\ admin' = Reseller!NoAdmin /\ UNCHANGED <<req, given>>
        /\ acct' = [u \in User |-> IF u \in purge THEN Reseller!NoAccount ELSE acct[u]]
    BY <1>3 DEF Reseller!PurgeUsers, Reseller!WithRow
  <2>2. acct' \in Accounts
    BY <2>1, Records DEF CreditInv, CreditTypes, Accounts
  <2> QED
    BY <2>1, <2>2, Gone
<1> QED
  BY <1>1, <1>2, <1>3

LEMMA RestartCredit ==
  ASSUME CreditInv, Reseller!PanelRestarts
  PROVE  CreditInv'
<1>1. req' = [u \in User |-> Reseller!NoRequest] /\ UNCHANGED <<admin, acct, given>>
  BY DEF Reseller!PanelRestarts
<1>2. req' \in Requests
  BY <1>1, Records DEF Requests
<1> QED
  BY <1>1, <1>2 DEF CreditInv, CreditTypes, AllocationCovered, Reseller!AllocationCovered

LEMMA CreditStep ==
  ASSUME CreditInv, ResellerSteps \/ UNCHANGED reseller
  PROVE  CreditInv'
<1>1. CASE UNCHANGED reseller
  BY <1>1, Waits DEF reseller
<1>2. CASE Reseller!Next
  <2>1. ASSUME NEW u \in User, NEW t \in Reseller!Total,
               Reseller!CreateUser(u, t) \/ Reseller!UpdateUser(u, t) \/ Reseller!EditByMain(u, t) \/ Reseller!RenewAdding(u, t)
        PROVE  CreditInv'
    BY <2>1, CreateCredit, UpdateCredit, MainCredit, AddCredit
  <2>2. ASSUME NEW u \in User,
               \/ Reseller!RenewResetting(u) \/ Reseller!ResetUsage(u) \/ Reseller!ResetFails(u)
               \/ Reseller!DeleteFromNodes(u) \/ Reseller!DeleteUser(u) 
               \/ Reseller!DeleteByMain(u) \/ Reseller!ResetByMain(u) \/ Reseller!UsageSync(u)
        PROVE  CreditInv'
    BY <2>2, AskCredit, ResetCredit, DeleteCredit, MainCredit, UsageCredit
  <2> QED
    BY <1>2, <2>1, <2>2, AdminCredit, LeaveCredit, RestartCredit, Zenon DEF Reseller!Next
<1> QED
  BY <1>1, <1>2 DEF ResellerSteps

LEMMA CreditInit ==
  Begins => CreditInv
<1> SUFFICES ASSUME Begins  PROVE CreditInv
  OBVIOUS
<1>1. /\ req = [u \in User |-> Reseller!NoRequest] /\ acct = [u \in User |-> Reseller!NoAccount]
      /\ admin = Reseller!NoAdmin /\ given = 0
  BY DEF Begins, Reseller!Init
<1>2. req \in Requests /\ acct \in Accounts /\ admin \in Admins /\ given \in Int
  BY <1>1, Records DEF Requests, Accounts
<1> QED
  BY <1>1, <1>2, Records DEF CreditInv, CreditTypes, AllocationCovered, Reseller!AllocationCovered

\* What is allocated to a reseller's users has been paid for or was given, for
\* any users, entitlements, totals and orders of requests and restarts.
THEOREM PaidFor ==
  Services => []AllocationCovered
<1>1. Begins => CreditInv
  BY CreditInit
<1>2. CreditInv /\ [ServiceSteps]_<<part, router, anyconnect, reseller, backups>>
        => CreditInv'
  BY CreditStep DEF ServiceSteps, RouterSteps, AnyConnectSteps, BackupSteps
<1>3. CreditInv => AllocationCovered
  BY DEF CreditInv
<1> QED
  BY <1>1, <1>2, <1>3, PTL DEF Services

-----------------------------------------------------------------------------
(***************************************************************************)
(* The backups. A directory that a command is writing is young, unpinned   *)
(* and nobody else's (UnderWay), so neither retention nor pruning touches  *)
(* it before it is pinned, and what is pinned stays. Pruning spares what   *)
(* the journals name, and until its next backup is made a transaction      *)
(* knows of no other (Known).                                              *)
(***************************************************************************)
Dir == [state : {"none", "partial", "verified", "failed"}, whole : BOOLEAN,
        pinned : BOOLEAN, old : BOOLEAN, record : BOOLEAN]
Making == {"dump", "create", "restored", "verify", "sealed", "made", "pin", "journal"}
TaskKinds == /\ task.kind = "none" <=> task.at = "idle"
             /\ task.at \in Making => task.cur \in 1..made
Unused == \A b \in Backups!Backup : b > made =>
            dirs[b].state = "none" /\ ~dirs[b].pinned /\ ~dirs[b].record /\ b \notin clones
WrittenDown == /\ \A b \in Backups!Backup : dirs[b].state = "verified" => ~dirs[b].record
               /\ \A b \in clones : dirs[b].record \/ b \in removed \cup stray
UnderWay ==
  /\ task.at \in Making => ~dirs[task.cur].old
  /\ task.at \in {"dump", "create", "restored", "verify"} => dirs[task.cur].state = "partial"
  /\ task.at \in {"sealed", "made", "pin", "journal"} => dirs[task.cur].state = "verified"
  /\ task.at \in Making \ {"journal"} => ~dirs[task.cur].pinned
  /\ task.at = "journal" => dirs[task.cur].pinned
  /\ task.at \in {"create", "restored"} => dirs[task.cur].record
  /\ task.at \in {"dump", "verify"} => ~dirs[task.cur].record
  /\ task.at \in {"dump", "create"} => task.cur \notin clones

Kept(refs, back) == /\ back # 0 => dirs[back].state = "verified" /\ dirs[back].pinned
                    /\ \A b \in refs : dirs[b].state # "none" \/ b \in removed
JournalsKept == \A j \in Backups!Journal : Backups!Open(j) => Kept(Backups!Refs(j), journal[j].back)
TaskKept == Kept(task.refs, task.back)
Known == /\ task.at \in {"prune", "made"} => \A j \in Backups!Journal : Backups!Refs(j) \subseteq task.spared
         /\ task.at \in {"probe", "rehearsals", "prune", "dump", "create", "restored", "verify", "sealed",
                         "made", "forward"} => task.refs \subseteq Backups!Refs(task.of)

BackupInv == /\ Backups!TypeOK /\ TaskKinds /\ Unused /\ WrittenDown /\ UnderWay
             /\ JournalsKept /\ TaskKept /\ Known

\* The records an operation starts and ends with.
LEMMA BackupRecords ==
  /\ Backups!Absent \in Dir
  /\ Backups!Absent.state = "none" /\ Backups!Absent.pinned = FALSE /\ Backups!Absent.record = FALSE
  /\ Backups!NoTask.at = "idle" /\ Backups!NoTask.kind = "none" /\ Backups!NoTask.refs = {}
  /\ Backups!NoTask.back = 0 /\ Backups!NoTask.cur = 0
BY DEF Dir, Backups!Absent, Backups!Directory, Backups!NoTask, Backups!Command

\* What a step does to the directory it writes, and to the others.
LEMMA Writes ==
  ASSUME dirs \in [Backups!Backup -> Dir], NEW b \in Backups!Backup, NEW d \in Dir, Backups!Write(b, d)
  PROVE  /\ dirs' \in [Backups!Backup -> Dir]
         /\ dirs'[b].state = d.state /\ dirs'[b].whole = d.whole /\ dirs'[b].pinned = d.pinned
         /\ dirs'[b].record = d.record /\ dirs'[b].old = FALSE
         /\ \A c \in Backups!Backup \ {b} : dirs'[c] = dirs[c]
<1>1. [d EXCEPT !.old = FALSE] \in Dir
  BY DEF Dir
<1> QED
  BY <1>1 DEF Backups!Write, Dir

\* There is nothing to find at the start.
LEMMA BackupInit ==
  ASSUME Begins, BackupAssumption
  PROVE  BackupInv
<1> USE DEF Begins, Backups!Init
<1>1. Backups!TypeOK
  BY BackupAssumption DEF Backups!TypeOK, Backups!Absent, Backups!Directory, Backups!NoJournal, Backups!NoTask, Backups!Command, Backups!Journal, Backups!Backup
<1>2. \A b \in Backups!Backup : dirs[b] = Backups!Absent
  OBVIOUS
<1>3. \A j \in Backups!Journal : journal[j].state = "none"
  BY DEF Backups!NoJournal
<1> QED
  BY <1>1, <1>2, <1>3, BackupRecords DEF BackupInv, TaskKinds, Unused, WrittenDown, UnderWay, JournalsKept, TaskKept,
    Kept, Known, Making, Backups!Open

Task == [kind : {"none", "backup", "update", "restore", "rollback", "recover"},
         at : {"idle", "cleanup", "probe", "rehearsals", "prune", "dump", "create", "restored",
               "verify", "sealed", "made", "pin", "journal", "forward", "undo"},
         of : Backups!Journal, cur : 0..MaxBackup, refs : SUBSET Backups!Backup, back : 0..MaxBackup,
         spared : SUBSET Backups!Backup]
JournalFile == [state : {"none", "open", "complete", "rolled_back"},
                refs : SUBSET Backups!Backup, back : 0..MaxBackup]

\* The type invariant, by the names of its parts.
LEMMA Types ==
  Backups!TypeOK <=> /\ postgres \in BOOLEAN /\ made \in 0..MaxBackup /\ dirs \in [Backups!Backup -> Dir]
                     /\ clones \subseteq Backups!Backup /\ last \in 0..MaxBackup
                     /\ journal \in [Backups!Journal -> JournalFile] /\ task \in Task
                     /\ removed \subseteq Backups!Backup /\ stray \subseteq Backups!Backup /\ hurt \in Nat
BY DEF Backups!TypeOK, Dir, Task, JournalFile

\* Pruning spares backups, before and after the last one is noted.
LEMMA Spares == Backups!TypeOK => Backups!Spared(last) \subseteq Backups!Backup /\ Backups!Spared(last') \subseteq Backups!Backup
<1>1. Backups!Newest(Backups!Intact) \subseteq Backups!Backup
  BY DEF Backups!Newest, Backups!Intact
<1>2. Backups!TypeOK => \A j \in Backups!Journal : Backups!Refs(j) \subseteq Backups!Backup
  BY Types DEF JournalFile, Backups!Refs
<1> QED
  BY <1>1, <1>2 DEF Backups!Spared, Backups!Journal

\* A command begins with nothing made and nothing spared.
LEMMA CommandType ==
  ASSUME BackupAssumption, NEW k \in {"none", "backup", "update", "restore", "rollback", "recover"},
         NEW w \in {"idle", "cleanup", "probe", "rehearsals", "forward", "undo"}, NEW j \in Backups!Journal,
         NEW refs \in SUBSET Backups!Backup, NEW back \in 0..MaxBackup
  PROVE  Backups!Command(k, w, j, refs, back) \in Task
<1>1. 0 \in 0..MaxBackup /\ {} \in SUBSET Backups!Backup
  BY DEF BackupAssumption
<1> QED
  BY <1>1 DEF Backups!Command, Task

\* What a command begins with.
LEMMA CommandFields ==
  ASSUME NEW k, NEW w, NEW j, NEW refs, NEW back
  PROVE  LET c == Backups!Command(k, w, j, refs, back)
         IN  /\ c.kind = k /\ c.at = w /\ c.of = j /\ c.refs = refs /\ c.back = back /\ c.cur = 0
BY DEF Backups!Command

\* Fields of a directory that a step sets.
LEMMA DirFields ==
  ASSUME NEW d \in Dir, NEW p \in BOOLEAN, NEW q \in {"none", "partial", "verified", "failed"}
  PROVE  /\ [d EXCEPT !.record = p] \in Dir /\ [d EXCEPT !.pinned = p] \in Dir /\ [d EXCEPT !.state = q] \in Dir
         /\ [d EXCEPT !.whole = p] \in Dir /\ [d EXCEPT !.old = p] \in Dir
         /\ [d EXCEPT !.record = p, !.state = q] \in Dir /\ [d EXCEPT !.state = q, !.whole = p] \in Dir
         /\ d.state \in {"none", "partial", "verified", "failed"}
<1> USE DEF Dir
<1>1. [d EXCEPT !.record = p] \in Dir /\ [d EXCEPT !.pinned = p] \in Dir /\ [d EXCEPT !.state = q] \in Dir
  OBVIOUS
<1>2. [d EXCEPT !.whole = p] \in Dir /\ [d EXCEPT !.old = p] \in Dir
  OBVIOUS
<1>3. [d EXCEPT !.record = p, !.state = q] \in Dir /\ [d EXCEPT !.state = q, !.whole = p] \in Dir
  OBVIOUS
<1> QED
  BY <1>1, <1>2, <1>3

\* The numbers of backups.
LEMMA BackupIds ==
  ASSUME BackupAssumption, made \in 0..MaxBackup
  PROVE  /\ 1..made \subseteq Backups!Backup
         /\ made < MaxBackup => made + 1 \in Backups!Backup /\ made + 1 \in 0..MaxBackup
BY DEF BackupAssumption, Backups!Backup

\* Every step leaves directories that are well-formed.
LEMMA StepDirs ==
  ASSUME BackupAssumption, Backups!TypeOK, TaskKinds, Backups!Next \/ UNCHANGED backups
  PROVE  dirs' \in [Backups!Backup -> Dir]
<1>1. dirs \in [Backups!Backup -> Dir] /\ made \in 0..MaxBackup /\ \A b \in Backups!Backup : dirs[b] \in Dir
  BY Types
<1>2. \A b \in Backups!Backup :
        /\ [dirs[b] EXCEPT !.record = FALSE] \in Dir /\ [dirs[b] EXCEPT !.record = TRUE] \in Dir
        /\ [dirs[b] EXCEPT !.pinned = TRUE] \in Dir /\ [dirs[b] EXCEPT !.whole = FALSE] \in Dir
        /\ [dirs[b] EXCEPT !.old = TRUE] \in Dir /\ [dirs[b] EXCEPT !.old = FALSE] \in Dir
        /\ [dirs[b] EXCEPT !.state = "verified", !.whole = TRUE] \in Dir
        /\ dirs[b].state \in {"none", "partial", "verified", "failed"}
  BY <1>1, DirFields
<1>3. Backups!Directory("verified", TRUE) \in Dir /\ Backups!Directory("partial", FALSE) \in Dir /\ Backups!Absent \in Dir
  BY DEF Backups!Directory, Backups!Absent, Dir
<1>4. ASSUME NEW b \in Backups!Backup, NEW d \in Dir, Backups!Write(b, d)
      PROVE  dirs' \in [Backups!Backup -> Dir]
  BY <1>1, <1>4, Writes
<1>5. task.at \in Making => task.cur \in Backups!Backup
  BY <1>1, BackupIds DEF TaskKinds
<1>6. made < MaxBackup => made + 1 \in Backups!Backup
  BY <1>1, BackupIds
<1>7. CASE Backups!RestoreUpload \/ Backups!UploadFails \/ Backups!Allocate
  BY <1>1, <1>3, <1>4, <1>6, <1>7 DEF Backups!RestoreUpload, Backups!UploadFails, Backups!Allocate
<1>8. ASSUME NEW b \in Backups!Backup, Backups!RecoverRehearsal(b) \/ Backups!CleanRehearsal(b)
      PROVE  dirs' \in [Backups!Backup -> Dir]
  <2>1. [dirs[b] EXCEPT !.record = FALSE, !.state = IF @ = "verified" THEN @ ELSE "failed"] \in Dir
    BY <1>1, <1>2, DirFields
  <2> QED
    BY <1>2, <1>4, <1>8, <2>1 DEF Backups!RecoverRehearsal, Backups!CleanRehearsal
<1>9. ASSUME NEW b \in Backups!Backup, Backups!Prune(b) \/ Backups!ApplyRetention(b)
      PROVE  dirs' \in [Backups!Backup -> Dir]
  BY <1>1, <1>3, <1>9 DEF Backups!Prune, Backups!ApplyRetention
<1>10. CASE Backups!Dump \/ Backups!DropClone \/ Backups!Seal \/ Backups!Pin
  BY <1>1, <1>2, <1>4, <1>5, <1>10 DEF Backups!Dump, Backups!DropClone, Backups!Seal, Backups!Pin, Backups!At, Making
<1>11. CASE Backups!BackupFails
  <2>1. task.cur \in Backups!Backup
    BY <1>5, <1>11 DEF Backups!BackupFails, Backups!At, Making
  <2>2. ASSUME NEW d \in Dir, Backups!MarkFailed(d)
        PROVE  dirs' \in [Backups!Backup -> Dir]
    <3>1. PICK s \in {"failed", d.state} : Backups!Write(task.cur, [d EXCEPT !.state = s])
      BY <2>2 DEF Backups!MarkFailed
    <3>3. [d EXCEPT !.state = s] \in Dir
      BY DirFields
    <3> QED
      BY <1>4, <2>1, <3>1, <3>3
  <2> QED
    BY <1>1, <1>2, <1>11, <2>1, <2>2 DEF Backups!BackupFails
<1>12. CASE Backups!Age
  BY <1>1, <1>2, <1>12 DEF Backups!Age
<1>13. ASSUME NEW b \in Backups!Backup, Backups!Damage(b)
      PROVE  dirs' \in [Backups!Backup -> Dir]
  <2>1. dirs' = [dirs EXCEPT ![b] = [dirs[b] EXCEPT !.whole = FALSE]]
    BY <1>13 DEF Backups!Damage
  <2> QED
    BY <1>1, <1>2, <2>1
<1>14. CASE UNCHANGED dirs
  BY <1>1, <1>14
<1> QED
  BY <1>7, <1>8, <1>9, <1>10, <1>11, <1>12, <1>13, <1>14 DEF Backups!Next, backups, Backups!MakeBackup, Backups!Update,
    Backups!RestoreDatabase, Backups!RollbackRelease, Backups!Probe, Backups!EndRehearsals, Backups!CreateClone,
    Backups!NoteLast, Backups!Made, Backups!WriteJournal, Backups!Canary, Backups!Complete, Backups!Undo,
    Backups!Recover, Backups!EndCleanup, Backups!StepFails, Backups!Kill

\* A step of a command that goes on.
LEMMA TaskFields ==
  ASSUME task \in Task, NEW w \in {"probe", "rehearsals", "prune", "dump", "create", "restored", "verify", "sealed",
                                  "made", "pin", "journal", "forward"},
         NEW b \in 0..MaxBackup, NEW c \in 0..MaxBackup, NEW S \in SUBSET Backups!Backup
  PROVE  /\ [task EXCEPT !.at = w] \in Task /\ [task EXCEPT !.at = w, !.cur = b] \in Task
         /\ [task EXCEPT !.at = w, !.spared = S] \in Task /\ [task EXCEPT !.at = w, !.refs = S] \in Task
         /\ [task EXCEPT !.at = w, !.refs = S, !.back = c] \in Task
<1> USE DEF Task
<1>1. [task EXCEPT !.at = w] \in Task /\ [task EXCEPT !.at = w, !.cur = b] \in Task
  OBVIOUS
<1>2. [task EXCEPT !.at = w, !.spared = S] \in Task /\ [task EXCEPT !.at = w, !.refs = S] \in Task
  OBVIOUS
<1>3. [task EXCEPT !.at = w, !.refs = S, !.back = c] \in Task
  OBVIOUS
<1> QED
  BY <1>1, <1>2, <1>3

\* Every step leaves a command that is well-formed.
LEMMA StepTask ==
  ASSUME BackupAssumption, Backups!TypeOK, TaskKinds, Backups!Next \/ UNCHANGED backups
  PROVE  task' \in Task
<1>1. /\ task \in Task /\ task.kind \in {"none", "backup", "update", "restore", "rollback", "recover"}
      /\ task.of \in Backups!Journal /\ task.refs \in SUBSET Backups!Backup /\ task.back \in 0..MaxBackup
      /\ task.cur \in 0..MaxBackup
  BY Types DEF Task
<1>2. \A j \in Backups!Journal : Backups!Refs(j) \in SUBSET Backups!Backup /\ journal[j].back \in 0..MaxBackup
  BY Types DEF JournalFile, Backups!Refs
<1>3. /\ 0 \in 0..MaxBackup /\ {} \in SUBSET Backups!Backup
      /\ "life" \in Backups!Journal /\ "data" \in Backups!Journal
  BY DEF BackupAssumption, Backups!Journal
<1>4. Backups!NoTask \in Task /\ Backups!Unwind \in Task
  BY <1>1, <1>3, CommandType DEF Backups!NoTask, Backups!Unwind
<1>5. \A j \in Backups!Journal : Backups!UndoOf(j) \in Task
  BY <1>2, CommandType DEF Backups!UndoOf
<1>6. made \in 0..MaxBackup /\ (made < MaxBackup => made + 1 \in Backups!Backup /\ made + 1 \in 0..MaxBackup)
  BY Types, BackupIds
<1>7. CASE Backups!MakeBackup \/ Backups!Update \/ Backups!Recover \/ Backups!RollbackRelease
  BY <1>3, <1>7, CommandType DEF Backups!MakeBackup, Backups!Update, Backups!Recover, Backups!RollbackRelease, Backups!Starts
<1>8. ASSUME NEW b \in Backups!Backup, Backups!RestoreFrom(b)  PROVE task' \in Task
  <2>1. {b} \in SUBSET Backups!Backup
    OBVIOUS
  <2> QED
    BY <1>3, <1>8, <2>1, CommandType DEF Backups!RestoreFrom
<1>9. CASE Backups!RestoreUpload \/ \E b \in Backups!Backup : Backups!RestoreDatabase(b)
  BY <1>6, <1>8, <1>9 DEF Backups!RestoreUpload, Backups!RestoreDatabase
<1>10. CASE Backups!Probe \/ Backups!CreateClone \/ Backups!DropClone \/ Backups!Seal \/ Backups!Canary \/ Backups!Dump
  BY <1>1, <1>10, TaskFields DEF Backups!Probe, Backups!CreateClone, Backups!DropClone, Backups!Seal, Backups!Canary,
    Backups!Dump, Backups!Goto
<1>11. CASE Backups!EndRehearsals \/ Backups!NoteLast
  <2>1. PICK S \in SUBSET Backups!Backup, w \in {"prune", "made"} : task' = [task EXCEPT !.at = w, !.spared = S]
    BY <1>11, Spares DEF Backups!EndRehearsals, Backups!NoteLast
  <2> QED
    BY <1>1, <2>1, TaskFields
<1>12. CASE Backups!Allocate
  BY <1>1, <1>6, <1>12, TaskFields DEF Backups!Allocate
<1>13. CASE Backups!Made
  <2>1. task.cur \in Backups!Backup
    BY <1>6, <1>13, BackupIds DEF Backups!Made, Backups!At, TaskKinds, Making
  <2>2. (IF task.kind = "update" THEN {task.cur} ELSE task.refs) \in SUBSET Backups!Backup
    BY <1>1, <2>1
  <2> QED
    BY <1>1, <1>4, <1>13, <2>2, TaskFields DEF Backups!Made
<1>14. CASE Backups!Pin
  <2>1. task.cur \in Backups!Backup
    BY <1>6, <1>14, BackupIds DEF Backups!Pin, Backups!At, TaskKinds, Making
  <2>2. /\ task.refs \cup {task.cur} \in SUBSET Backups!Backup
        /\ (IF Backups!Open(task.of) THEN task.cur ELSE 0) \in 0..MaxBackup
    BY <1>1, <1>3, <2>1
  <2> QED
    BY <1>1, <1>14, <2>2, TaskFields DEF Backups!Pin
<1>15. CASE Backups!WriteJournal
  BY <1>1, <1>3, <1>15, TaskFields DEF Backups!WriteJournal
<1>16. CASE Backups!Complete \/ Backups!Undo \/ Backups!Kill \/ Backups!StepFails \/ Backups!BackupFails \/ Backups!EndCleanup
  BY <1>3, <1>4, <1>5, <1>16 DEF Backups!Complete, Backups!Undo, Backups!Kill, Backups!StepFails, Backups!BackupFails, Backups!EndCleanup
<1>17. CASE UNCHANGED task
  BY <1>1, <1>17
<1> QED
  BY <1>7, <1>9, <1>10, <1>11, <1>12, <1>13, <1>14, <1>15, <1>16, <1>17 DEF Backups!Next, backups, Backups!UploadFails,
    Backups!RecoverRehearsal, Backups!Prune, Backups!CleanRehearsal, Backups!Damage, Backups!Age, Backups!ApplyRetention

\* The database does not change its kind, and what is counted goes up by one.
LEMMA Counters ==
  ASSUME Backups!Next \/ UNCHANGED backups
  PROVE  /\ UNCHANGED postgres
         /\ UNCHANGED made \/ (made < MaxBackup /\ made' = made + 1)
         /\ UNCHANGED last \/ (task.at \in Making /\ last' = task.cur)
         /\ UNCHANGED hurt \/ hurt' = hurt + 1
BY DEF Backups!Next, backups, Making, Backups!At, Backups!Hurt, Backups!Starts,
  Backups!MakeBackup, Backups!Update, Backups!RestoreUpload, Backups!UploadFails, Backups!RollbackRelease,
  Backups!Probe, Backups!EndRehearsals, Backups!Allocate, Backups!Dump, Backups!CreateClone, Backups!DropClone,
  Backups!Seal, Backups!NoteLast, Backups!Made, Backups!Pin, Backups!WriteJournal, Backups!Canary, Backups!Complete,
  Backups!Undo, Backups!Recover, Backups!EndCleanup, Backups!BackupFails, Backups!StepFails, Backups!Kill,
  Backups!Age, Backups!RestoreDatabase, Backups!RecoverRehearsal, Backups!Prune, Backups!CleanRehearsal,
  Backups!Damage, Backups!ApplyRetention

\* What a step does to the rehearsal databases and to the histories.
LEMMA Histories ==
  ASSUME Backups!Next \/ UNCHANGED backups
  PROVE  /\ \/ UNCHANGED <<clones, stray>>
            \/ \E b \in Backups!Backup : clones' = clones \ {b} /\ UNCHANGED stray
            \/ task.at \in Making /\ clones' = clones \ {task.cur} /\ UNCHANGED stray
            \/ task.at \in Making /\ clones' = clones \cup {task.cur} /\ stray' \in {stray, stray \cup {task.cur}}
            \/ made < MaxBackup /\ clones' = clones \cup {made + 1} /\ stray' = stray \cup {made + 1}
         /\ UNCHANGED removed \/ \E b \in Backups!Backup : removed' = removed \cup {b}
BY DEF Backups!Next, backups, Making, Backups!At,
  Backups!MakeBackup, Backups!Update, Backups!RestoreUpload, Backups!UploadFails, Backups!RollbackRelease,
  Backups!Probe, Backups!EndRehearsals, Backups!Allocate, Backups!Dump, Backups!CreateClone, Backups!DropClone,
  Backups!Seal, Backups!NoteLast, Backups!Made, Backups!Pin, Backups!WriteJournal, Backups!Canary, Backups!Complete,
  Backups!Undo, Backups!Recover, Backups!EndCleanup, Backups!BackupFails, Backups!StepFails, Backups!Kill,
  Backups!Age, Backups!RestoreDatabase, Backups!RecoverRehearsal, Backups!Prune, Backups!CleanRehearsal,
  Backups!Damage, Backups!ApplyRetention

\* Every step leaves journals that are well-formed.
LEMMA Journals ==
  ASSUME BackupAssumption, Backups!TypeOK, Backups!Next \/ UNCHANGED backups
  PROVE  journal' \in [Backups!Journal -> JournalFile]
<1>1. /\ journal \in [Backups!Journal -> JournalFile] /\ task.of \in Backups!Journal
      /\ task.refs \in SUBSET Backups!Backup /\ task.back \in 0..MaxBackup /\ made \in 0..MaxBackup
  BY Types DEF Task
<1>2. 0 \in 0..MaxBackup /\ {} \in SUBSET Backups!Backup /\ "data" \in Backups!Journal
  BY DEF BackupAssumption, Backups!Journal
<1>3. ASSUME NEW j \in Backups!Journal, NEW s \in {"none", "open", "complete", "rolled_back"},
             NEW refs \in SUBSET Backups!Backup, NEW back \in 0..MaxBackup, Backups!SetJournal(j, s, refs, back)
      PROVE  journal' \in [Backups!Journal -> JournalFile]
  <2>1. [state |-> s, refs |-> refs, back |-> back] \in JournalFile
    BY DEF JournalFile
  <2> QED
    BY <1>1, <1>3, <2>1 DEF Backups!SetJournal
<1>4. ASSUME NEW b \in Backups!Backup, Backups!RestoreFrom(b)
      PROVE  journal' \in [Backups!Journal -> JournalFile]
  <2>1. {b} \in SUBSET Backups!Backup
    OBVIOUS
  <2> QED
    BY <1>2, <1>3, <1>4, <2>1 DEF Backups!RestoreFrom
<1>5. CASE Backups!RestoreUpload \/ \E b \in Backups!Backup : Backups!RestoreDatabase(b)
  <2>1. made < MaxBackup => made + 1 \in Backups!Backup
    BY <1>1, BackupIds
  <2> QED
    BY <1>4, <1>5, <2>1 DEF Backups!RestoreUpload, Backups!RestoreDatabase
<1>6. CASE Backups!RollbackRelease \/ Backups!WriteJournal \/ Backups!Undo
  BY <1>1, <1>2, <1>3, <1>6 DEF Backups!RollbackRelease, Backups!WriteJournal, Backups!Undo
<1>7. CASE Backups!Complete
  <2>1. \A j \in Backups!Journal : [journal[j] EXCEPT !.state = "rolled_back"] \in JournalFile /\ journal[j] \in JournalFile
    BY <1>1 DEF JournalFile
  <2>2. [state |-> "complete", refs |-> task.refs, back |-> task.back] \in JournalFile
    BY <1>1 DEF JournalFile
  <2> QED
    BY <1>7, <2>1, <2>2 DEF Backups!Complete
<1>8. CASE UNCHANGED journal
  BY <1>1, <1>8
<1> QED
  BY <1>5, <1>6, <1>7, <1>8 DEF Backups!Next, backups,
  Backups!MakeBackup, Backups!Update, Backups!UploadFails, Backups!Probe, Backups!EndRehearsals, Backups!Allocate,
  Backups!Dump, Backups!CreateClone, Backups!DropClone, Backups!Seal, Backups!NoteLast, Backups!Made, Backups!Pin,
  Backups!Canary, Backups!Recover, Backups!EndCleanup, Backups!BackupFails, Backups!StepFails, Backups!Kill,
  Backups!Age, Backups!RecoverRehearsal, Backups!Prune, Backups!CleanRehearsal, Backups!Damage,
  Backups!ApplyRetention

\* Type correctness of a step.
LEMMA StepTypes ==
  ASSUME BackupAssumption, Backups!TypeOK, TaskKinds, Backups!Next \/ UNCHANGED backups
  PROVE  Backups!TypeOK'
<1>1. dirs' \in [Backups!Backup -> Dir] /\ task' \in Task
  BY StepDirs, StepTask
<1>2. /\ made \in 0..MaxBackup /\ clones \subseteq Backups!Backup /\ stray \subseteq Backups!Backup
      /\ removed \subseteq Backups!Backup /\ last \in 0..MaxBackup /\ postgres \in BOOLEAN /\ hurt \in Nat
      /\ journal \in [Backups!Journal -> JournalFile]
      /\ task.of \in Backups!Journal /\ task.refs \in SUBSET Backups!Backup /\ task.back \in 0..MaxBackup
  BY Types DEF Task
<1>3. /\ task.at \in Making => task.cur \in Backups!Backup /\ task.cur \in 0..MaxBackup
      /\ made < MaxBackup => made + 1 \in Backups!Backup /\ made + 1 \in 0..MaxBackup
  BY <1>2, BackupIds DEF TaskKinds, Backups!Backup
<1>4. made' \in 0..MaxBackup /\ last' \in 0..MaxBackup /\ postgres' \in BOOLEAN /\ hurt' \in Nat
  BY <1>2, <1>3, Counters DEF Backups!Hurt
<1>5. clones' \subseteq Backups!Backup /\ stray' \subseteq Backups!Backup /\ removed' \subseteq Backups!Backup
  BY <1>2, <1>3, Histories
<1>6. journal' \in [Backups!Journal -> JournalFile]
  BY <1>2, <1>3, Journals
<1> QED
  BY <1>1, <1>4, <1>5, <1>6 DEF Backups!TypeOK, Dir, Task, JournalFile

\* Settled steps write no directory and touch no rehearsal database.
Settled == UNCHANGED <<dirs, clones, made, removed, stray>>

\* What a step may not do to what a journal or a transaction names.
Held ==
  /\ removed \subseteq removed'
  /\ \A b \in Backups!Backup :
       /\ dirs[b].state = "verified" /\ dirs[b].pinned => dirs'[b].state = "verified" /\ dirs'[b].pinned
       /\ \/ dirs[b].state # "none" => dirs'[b].state # "none" \/ b \in removed'
          \/ b \notin task.refs /\ \A j \in Backups!Journal : b \notin Backups!Refs(j)

\* The directories after a step, but for which of them are old.
Tidy == /\ \A b \in Backups!Backup : b > made' => dirs'[b].state = "none" /\ ~dirs'[b].pinned /\ ~dirs'[b].record
        /\ \A b \in Backups!Backup : dirs'[b].state = "verified" => ~dirs'[b].record

\* The steps that do touch a directory or a rehearsal database.
LEMMA SettledSteps ==
  ASSUME Backups!Next \/ UNCHANGED backups
  PROVE  Settled \/ Backups!RestoreUpload \/ Backups!UploadFails \/ Backups!Allocate \/ Backups!Dump \/ Backups!CreateClone
         \/ Backups!DropClone \/ Backups!Seal \/ Backups!Pin \/ Backups!BackupFails \/ Backups!Age
         \/ \E b \in Backups!Backup : \/ Backups!RecoverRehearsal(b) \/ Backups!Prune(b) \/ Backups!CleanRehearsal(b)
                                      \/ Backups!Damage(b) \/ Backups!ApplyRetention(b)
BY DEF Backups!Next, backups, Settled,
  Backups!MakeBackup, Backups!Update, Backups!RollbackRelease, Backups!Probe, Backups!EndRehearsals,
  Backups!NoteLast, Backups!Made, Backups!WriteJournal, Backups!Canary, Backups!Complete, Backups!Undo,
  Backups!Recover, Backups!EndCleanup, Backups!StepFails, Backups!Kill, Backups!RestoreDatabase

\* A write to one directory, unless it takes back a pin or the verdict, is harmless.
LEMMA WriteHolds ==
  ASSUME BackupAssumption, BackupInv, NEW b \in Backups!Backup, NEW d \in Dir, Backups!Write(b, d), UNCHANGED removed,
         d.state # "none", d.state = "verified" => ~d.record,
         dirs[b].state = "verified" /\ dirs[b].pinned => d.state = "verified" /\ d.pinned,
         b <= made', made <= made', made \in Nat, made' \in Nat
  PROVE  Held /\ Tidy /\ (\A c \in Backups!Backup \ {b} : dirs'[c] = dirs[c])
         /\ dirs'[b].state = d.state /\ dirs'[b].pinned = d.pinned /\ dirs'[b].record = d.record /\ ~dirs'[b].old
<1>1. /\ dirs \in [Backups!Backup -> Dir]
      /\ \A c \in Backups!Backup : dirs[c].state = "verified" => ~dirs[c].record
      /\ \A c \in Backups!Backup : c > made => dirs[c].state = "none" /\ ~dirs[c].pinned /\ ~dirs[c].record
  BY Types DEF BackupInv, WrittenDown, Unused
<1>2. /\ dirs'[b].state = d.state /\ dirs'[b].pinned = d.pinned /\ dirs'[b].record = d.record /\ ~dirs'[b].old
      /\ \A c \in Backups!Backup \ {b} : dirs'[c] = dirs[c]
  BY <1>1, Writes
<1>3. \A c \in Backups!Backup : c > made' => c > made /\ c # b
  BY DEF Backups!Backup
<1>4. Tidy
  <2>1. \A c \in Backups!Backup : c > made' => dirs'[c].state = "none" /\ ~dirs'[c].pinned /\ ~dirs'[c].record
    BY <1>1, <1>2, <1>3
  <2>2. \A c \in Backups!Backup : dirs'[c].state = "verified" => ~dirs'[c].record
    BY <1>1, <1>2
  <2> QED
    BY <2>1, <2>2 DEF Tidy
<1>5. Held
  BY <1>2 DEF Held
<1> QED
  BY <1>2, <1>4, <1>5

\* What each update of a directory leaves.
LEMMA DirSets ==
  ASSUME NEW d \in Dir
  PROVE  /\ LET e == [d EXCEPT !.record = TRUE]
            IN e \in Dir /\ e.state = d.state /\ e.pinned = d.pinned /\ e.record = TRUE
         /\ LET e == [d EXCEPT !.record = FALSE]
            IN e \in Dir /\ e.state = d.state /\ e.pinned = d.pinned /\ e.record = FALSE
         /\ LET e == [d EXCEPT !.pinned = TRUE]
            IN e \in Dir /\ e.state = d.state /\ e.pinned = TRUE /\ e.record = d.record
         /\ \A s \in {"none", "partial", "verified", "failed"} :
              LET e == [d EXCEPT !.state = s]
              IN e \in Dir /\ e.state = s /\ e.pinned = d.pinned /\ e.record = d.record
         /\ LET e == [d EXCEPT !.record = FALSE, !.state = "failed"]
            IN e \in Dir /\ e.state = "failed" /\ e.record = FALSE
         /\ LET e == [d EXCEPT !.state = "verified", !.whole = TRUE]
            IN e \in Dir /\ e.state = "verified" /\ e.pinned = d.pinned /\ e.record = d.record
BY DEF Dir

\* What journals and transactions name stays, and rehearsal databases are written down.
LEMMA StepHolds ==
  ASSUME BackupAssumption, BackupInv, Backups!TypeOK', Backups!Next \/ UNCHANGED backups
  PROVE  Held /\ Unused' /\ WrittenDown'
<1>1. /\ dirs \in [Backups!Backup -> Dir] /\ made \in 0..MaxBackup /\ made' \in 0..MaxBackup /\ clones \subseteq Backups!Backup
      /\ \A b \in Backups!Backup : dirs[b] \in Dir
      /\ dirs' \in [Backups!Backup -> Dir] /\ clones' \subseteq Backups!Backup
  BY Types DEF BackupInv, Backups!TypeOK, Dir
<1>2. /\ \A b \in Backups!Backup : dirs[b].state = "verified" => ~dirs[b].record
      /\ \A b \in clones : dirs[b].record \/ b \in removed \cup stray
      /\ \A b \in Backups!Backup : b > made => dirs[b].state = "none" /\ ~dirs[b].pinned /\ ~dirs[b].record /\ b \notin clones
  BY DEF BackupInv, WrittenDown, Unused
<1>3. made < MaxBackup => made + 1 \in Backups!Backup /\ dirs[made + 1].state = "none"
  BY <1>1, <1>2, BackupIds
<1>4. task.at \in Making => task.cur \in Backups!Backup /\ task.cur <= made /\ dirs[task.cur] \in Dir
  BY <1>1, BackupIds DEF BackupInv, TaskKinds
<1>5. /\ Backups!Directory("verified", TRUE) \in Dir /\ Backups!Directory("partial", FALSE) \in Dir
      /\ \A w \in BOOLEAN, s \in {"verified", "partial"} : LET d == Backups!Directory(s, w)
           IN d.state = s /\ ~d.pinned /\ ~d.record
  BY DEF Backups!Directory, Dir
<1>6. CASE Settled
  BY <1>1, <1>2, <1>6 DEF Settled, Held, Unused, WrittenDown
<1>7. ASSUME Tidy, \A b \in clones' : b <= made', \A b \in clones' : dirs'[b].record \/ b \in removed' \cup stray'
      PROVE  Unused' /\ WrittenDown'
  BY <1>1, <1>7 DEF Unused, WrittenDown, Tidy, Backups!Backup
<1>8. \A b \in clones : b <= made /\ b <= made + 1
  BY <1>1, <1>2 DEF Backups!Backup
<1>9. CASE Backups!RestoreUpload \/ Backups!Allocate
  <2>1. /\ made < MaxBackup /\ made' = made + 1 /\ UNCHANGED <<removed, stray, clones>>
        /\ \E s \in {"verified", "partial"}, w \in BOOLEAN : Backups!Write(made + 1, Backups!Directory(s, w)) /\ Backups!Directory(s, w) \in Dir
    BY <1>5, <1>9 DEF Backups!RestoreUpload, Backups!Allocate
  <2>2. Held /\ Tidy /\ \A c \in Backups!Backup \ {made + 1} : dirs'[c] = dirs[c]
    BY <1>1, <1>2, <1>3, <1>5, <2>1, WriteHolds
  <2>3. \A b \in clones : b # made + 1
    BY <1>1, <1>8
  <2> QED
    BY <1>1, <1>2, <1>7, <1>8, <2>1, <2>2, <2>3
<1>10. CASE Backups!UploadFails
  <2>1. made < MaxBackup /\ made' = made + 1 /\ UNCHANGED removed
    BY <1>10 DEF Backups!UploadFails
  <2>2. \A b \in clones : b # made + 1
    BY <1>1, <1>8
  <2>3. CASE Backups!Write(made + 1, Backups!Directory("partial", FALSE)) /\ UNCHANGED <<clones, stray>>
    <3>1. \E s \in {"verified", "partial"}, w \in BOOLEAN : Backups!Write(made + 1, Backups!Directory(s, w)) /\ Backups!Directory(s, w) \in Dir
      BY <1>5, <2>3
    <3>3. Held /\ Tidy /\ \A c \in Backups!Backup \ {made + 1} : dirs'[c] = dirs[c]
      BY <1>1, <1>2, <1>3, <1>5, <2>1, <3>1, WriteHolds
    <3> QED
      BY <1>1, <1>2, <1>7, <1>8, <2>1, <2>2, <2>3, <3>3
  <2>4. CASE clones' = clones \cup {made + 1} /\ stray' = stray \cup {made + 1} /\ UNCHANGED dirs
    <3>1. Held /\ Tidy
      BY <1>1, <1>2, <2>1, <2>4 DEF Held, Tidy, Backups!Backup
    <3> QED
      BY <1>1, <1>2, <1>7, <1>8, <2>1, <2>4, <3>1
  <2> QED
    BY <1>10, <2>3, <2>4 DEF Backups!UploadFails
<1>11. ASSUME task.at \in Making, UNCHANGED <<made, removed>>, NEW d \in Dir, Backups!Write(task.cur, d), d.state # "none",
              d.state = "verified" => ~d.record, dirs[task.cur].state = "verified" /\ dirs[task.cur].pinned => d.state = "verified" /\ d.pinned,
              \/ UNCHANGED <<clones, stray>> /\ (d.record = dirs[task.cur].record \/ task.cur \notin clones)
              \/ clones' = clones \ {task.cur} /\ UNCHANGED stray
              \/ clones' = clones \cup {task.cur} /\ stray' = stray \cup {task.cur}
       PROVE  Held /\ Unused' /\ WrittenDown'
  <2>1. Held /\ Tidy /\ (\A c \in Backups!Backup \ {task.cur} : dirs'[c] = dirs[c]) /\ dirs'[task.cur].record = d.record
    BY <1>1, <1>4, <1>11, WriteHolds
  <2>2. \A b \in clones' : b <= made'
    BY <1>4, <1>8, <1>11
  <2>3. \A b \in clones' : dirs'[b].record \/ b \in removed' \cup stray'
    BY <1>1, <1>2, <1>4, <1>11, <2>1
  <2> QED
    BY <1>7, <2>1, <2>2, <2>3
<1>12. CASE Backups!Dump
  <2>1. CASE UNCHANGED dirs
    BY <1>1, <1>2, <1>12, <2>1 DEF Backups!Dump, Held, Unused, WrittenDown
  <2>2. CASE Backups!Write(task.cur, [dirs[task.cur] EXCEPT !.record = TRUE])
    <3>1. task.at \in Making /\ dirs[task.cur].state = "partial" /\ task.cur \notin clones
      BY <1>12 DEF Backups!Dump, Backups!At, Making, BackupInv, UnderWay
    <3>3. LET e == [dirs[task.cur] EXCEPT !.record = TRUE] IN e \in Dir /\ e.state = "partial"
      BY <1>4, <3>1, DirSets
    <3> QED
      BY <1>11, <1>12, <2>2, <3>1, <3>3 DEF Backups!Dump
  <2> QED
    BY <1>12, <2>1, <2>2 DEF Backups!Dump
<1>13. CASE Backups!CreateClone
  <2>1. task.at \in Making /\ dirs[task.cur].record
    BY <1>13 DEF Backups!CreateClone, Backups!At, Making, BackupInv, UnderWay
  <2> QED
    BY <1>1, <1>2, <1>4, <1>13, <2>1 DEF Backups!CreateClone, Held, Unused, WrittenDown
<1>14. CASE Backups!DropClone
  <2>1. task.at \in Making /\ dirs[task.cur].state = "partial"
    BY <1>14 DEF Backups!DropClone, Backups!At, Making, BackupInv, UnderWay
  <2>2. LET e == [dirs[task.cur] EXCEPT !.record = FALSE] IN e \in Dir /\ e.state = "partial"
    BY <1>4, <2>1, DirSets
  <2> QED
    BY <1>11, <1>14, <2>1, <2>2 DEF Backups!DropClone
<1>15. CASE Backups!Seal
  <2>1. task.at \in Making /\ dirs[task.cur].state = "partial" /\ ~dirs[task.cur].record
    BY <1>15 DEF Backups!Seal, Backups!At, Making, BackupInv, UnderWay
  <2>2. LET d == [dirs[task.cur] EXCEPT !.state = "verified", !.whole = TRUE]
        IN d \in Dir /\ d.state = "verified" /\ d.record = dirs[task.cur].record
    BY <1>4, <2>1, DirSets
  <2> QED
    BY <1>11, <1>15, <2>1, <2>2 DEF Backups!Seal
<1>16. CASE Backups!Pin
  <2>1. task.at \in Making /\ dirs[task.cur].state = "verified"
    BY <1>16 DEF Backups!Pin, Backups!At, Making, BackupInv, UnderWay
  <2>2. LET d == [dirs[task.cur] EXCEPT !.pinned = TRUE]
        IN d \in Dir /\ d.state = "verified" /\ d.record = dirs[task.cur].record /\ d.pinned
    BY <1>4, <2>1, DirSets
  <2>3. ~dirs[task.cur].record
    BY <1>2, <1>4, <2>1
  <2> QED
    BY <1>11, <1>16, <2>1, <2>2, <2>3 DEF Backups!Pin
<1>17. CASE Backups!BackupFails
  <2>1. task.at \in Making /\ dirs[task.cur].state \in {"partial", "verified"} /\ ~dirs[task.cur].pinned
    BY <1>17 DEF Backups!BackupFails, Backups!At, Making, BackupInv, UnderWay
  <2>2. ASSUME NEW d \in Dir, d.state = dirs[task.cur].state, d.record => dirs[task.cur].record, Backups!MarkFailed(d),
               \/ UNCHANGED <<clones, stray>> /\ (d.record = dirs[task.cur].record \/ task.cur \notin clones)
               \/ clones' = clones \ {task.cur} /\ UNCHANGED stray
               \/ clones' = clones \cup {task.cur} /\ stray' = stray \cup {task.cur}
        PROVE  Held /\ Unused' /\ WrittenDown'
    <3>1. PICK s \in {"failed", d.state} : Backups!Write(task.cur, [d EXCEPT !.state = s])
      BY <2>2 DEF Backups!MarkFailed
    <3>2. s \in {"none", "partial", "verified", "failed"}
      BY DirFields
    <3>3. LET e == [d EXCEPT !.state = s] IN e \in Dir /\ e.state = s /\ e.record = d.record
      BY <2>2, <3>2 DEF Dir
    <3>4. s # "none" /\ (s = "verified" => ~d.record)
      BY <1>2, <1>4, <2>1, <2>2
    <3> QED
      BY <1>11, <1>17, <2>1, <2>2, <3>1, <3>3, <3>4 DEF Backups!BackupFails
  <2>3. LET d == [dirs[task.cur] EXCEPT !.record = FALSE]
        IN d \in Dir /\ d.state = dirs[task.cur].state /\ ~d.record
    BY <1>4, <2>1, DirSets
  <2>4. task.at = "create" => task.cur \notin clones
    BY DEF BackupInv, UnderWay
  <2> QED
    BY <1>1, <1>4, <1>17, <2>1, <2>2, <2>3, <2>4 DEF Backups!BackupFails, Backups!At
<1>18. ASSUME NEW b \in Backups!Backup, Backups!RecoverRehearsal(b) \/ Backups!CleanRehearsal(b)
       PROVE  Held /\ Unused' /\ WrittenDown'
  <2>1. /\ dirs[b].record /\ dirs[b].state # "verified" /\ clones' = clones \ {b} /\ UNCHANGED <<made, removed, stray>>
        /\ b <= made
    BY <1>1, <1>2, <1>18 DEF Backups!RecoverRehearsal, Backups!CleanRehearsal, Backups!Backup
  <2>2. PICK d \in Dir : Backups!Write(b, d) /\ d.state # "verified" /\ ~d.record
                         /\ (dirs[b].state # "none" => d.state # "none")
    <3>1. LET d == [dirs[b] EXCEPT !.record = FALSE, !.state = IF @ = "verified" THEN @ ELSE "failed"]
          IN d \in Dir /\ d.state = "failed" /\ ~d.record
      <4>1. (IF dirs[b].state = "verified" THEN dirs[b].state ELSE "failed") = "failed"
        BY <2>1
      <4>2. LET d == [dirs[b] EXCEPT !.record = FALSE, !.state = "failed"] IN d \in Dir /\ d.state = "failed" /\ ~d.record
        BY <1>1, DirSets
      <4> QED
        BY <1>1, <4>1, <4>2 DEF Dir
    <3>2. LET d == [dirs[b] EXCEPT !.record = FALSE]
          IN d \in Dir /\ d.state = dirs[b].state /\ ~d.record
      BY <1>1, <2>1, DirSets
    <3> QED
      BY <1>18, <2>1, <3>1, <3>2 DEF Backups!RecoverRehearsal, Backups!CleanRehearsal
  <2>3. (\A c \in Backups!Backup \ {b} : dirs'[c] = dirs[c]) /\ dirs'[b].record = FALSE /\ dirs'[b].state = d.state
    BY <1>1, <2>2, Writes DEF Dir
  <2>4. Held /\ Tidy
    BY <1>1, <1>2, <2>1, <2>2, <2>3 DEF Held, Tidy, Backups!Backup
  <2> QED
    BY <1>1, <1>2, <1>7, <1>8, <2>1, <2>3, <2>4
<1>19. ASSUME NEW b \in Backups!Backup, Backups!Prune(b)
       PROVE  Held /\ Unused' /\ WrittenDown'
  <2>1. dirs'[b] = Backups!Absent /\ \A c \in Backups!Backup \ {b} : dirs'[c] = dirs[c]
    BY <1>1, <1>19 DEF Backups!Prune
  <2>2. /\ task.at \in {"prune", "made"} /\ b \notin task.spared /\ ~dirs[b].pinned /\ ~dirs[b].record
        /\ UNCHANGED <<made, clones, removed, stray, task, journal>>
    BY <1>2, <1>19 DEF Backups!Prune, Backups!At
  <2>3. \A j \in Backups!Journal : b \notin Backups!Refs(j)
    BY <2>2 DEF BackupInv, Known
  <2>4. b \notin task.refs
    <3>1. task.of \in Backups!Journal /\ task.refs \subseteq Backups!Refs(task.of)
      BY <2>2, Types DEF BackupInv, Known, Task
    <3> QED
      BY <2>3, <3>1
  <2>5. Held
    BY <2>1, <2>2, <2>3, <2>4 DEF Held
  <2>6. Tidy
    BY <1>1, <1>2, <2>1, <2>2, BackupRecords DEF Tidy
  <2> QED
    BY <1>2, <1>7, <1>8, <1>1, <2>1, <2>2, <2>5, <2>6
<1>20. ASSUME NEW b \in Backups!Backup, Backups!ApplyRetention(b)
       PROVE  Held /\ Unused' /\ WrittenDown'
  <2>1. /\ dirs'[b] = Backups!Absent /\ (\A c \in Backups!Backup \ {b} : dirs'[c] = dirs[c])
        /\ ~dirs[b].pinned /\ removed' = removed \cup {b} /\ UNCHANGED <<made, clones, stray>>
    BY <1>1, <1>20 DEF Backups!ApplyRetention
  <2>2. Held
    BY <2>1 DEF Held
  <2>3. Tidy
    BY <1>1, <1>2, <2>1, BackupRecords DEF Tidy
  <2> QED
    BY <1>1, <1>2, <1>7, <1>8, <2>1, <2>2, <2>3
<1>21. CASE Backups!Age \/ \E b \in Backups!Backup : Backups!Damage(b)
  <2>1. /\ \A c \in Backups!Backup : /\ dirs'[c].state = dirs[c].state /\ dirs'[c].pinned = dirs[c].pinned
                                     /\ dirs'[c].record = dirs[c].record
        /\ UNCHANGED <<made, clones, removed, stray>>
    BY <1>1, <1>21 DEF Backups!Age, Backups!Damage, Dir
  <2> QED
    BY <1>1, <1>2, <1>7, <1>8, <2>1 DEF Held, Tidy
<1> QED
  BY <1>6, <1>9, <1>10, <1>12, <1>13, <1>14, <1>15, <1>16, <1>17, <1>18, <1>19, <1>20, <1>21, SettledSteps

\* What a step of a command sets, and what it leaves.
LEMMA GoesOn ==
  ASSUME task \in Task
  PROVE  /\ \A w : LET t == [task EXCEPT !.at = w]
                   IN t.kind = task.kind /\ t.at = w /\ t.of = task.of /\ t.cur = task.cur /\ t.refs = task.refs
                      /\ t.back = task.back
         /\ \A w, S : LET t == [task EXCEPT !.at = w, !.spared = S]
                      IN t.kind = task.kind /\ t.at = w /\ t.of = task.of /\ t.cur = task.cur /\ t.refs = task.refs
                         /\ t.back = task.back /\ t.spared = S
         /\ \A w, b : LET t == [task EXCEPT !.at = w, !.cur = b]
                      IN t.kind = task.kind /\ t.at = w /\ t.of = task.of /\ t.cur = b /\ t.refs = task.refs
                         /\ t.back = task.back
         /\ \A w, S : LET t == [task EXCEPT !.at = w, !.refs = S]
                      IN t.kind = task.kind /\ t.at = w /\ t.of = task.of /\ t.cur = task.cur /\ t.refs = S
                         /\ t.back = task.back
         /\ \A w, S, b : LET t == [task EXCEPT !.at = w, !.refs = S, !.back = b]
                         IN t.kind = task.kind /\ t.at = w /\ t.of = task.of /\ t.cur = task.cur /\ t.refs = S
                            /\ t.back = b
BY DEF Task

\* A command rests where it is making no backup; elsewhere it advances.
Rests == /\ task'.at \in {"idle", "cleanup", "probe", "rehearsals", "forward", "undo"}
         /\ task'.kind = "none" <=> task'.at = "idle"
Advances ==
  /\ task'.kind = task.kind /\ task'.of = task.of
  /\ \/ /\ <<task.at, task'.at>> \in {<<"probe", "rehearsals">>, <<"forward", "rehearsals">>, <<"dump", "create">>,
                                     <<"dump", "verify">>, <<"create", "restored">>, <<"restored", "verify">>,
                                     <<"verify", "sealed">>, <<"journal", "forward">>}
        /\ task'.cur \in {task.cur, 0} /\ task'.refs = task.refs /\ task'.back = task.back
        /\ task'.at \in Making => task'.cur = task.cur
     \/ /\ <<task.at, task'.at>> \in {<<"rehearsals", "prune">>, <<"sealed", "made">>}
        /\ task'.cur = task.cur /\ task'.refs = task.refs /\ task'.back = task.back
        /\ task'.spared = Backups!Spared(last') /\ UNCHANGED <<dirs, journal>>
     \/ /\ task.at = "prune" /\ task'.at = "dump" /\ made' = made + 1
        /\ task'.cur = made' /\ task'.refs = task.refs /\ task'.back = task.back
     \/ /\ task.at = "made" /\ task'.at = "pin"
        /\ task'.cur = task.cur /\ task'.refs \in {task.refs, {task.cur}} /\ task'.back = task.back
     \/ /\ task.at = "pin" /\ task'.at = "journal"
        /\ task'.cur = task.cur /\ task'.refs = task.refs \cup {task.cur} /\ task'.back \in {task.cur, 0}

\* The steps after which no backup is being made.
LEMMA TaskRests ==
  ASSUME BackupAssumption, BackupInv,
         \/ Backups!MakeBackup \/ Backups!Update \/ Backups!Recover \/ Backups!RollbackRelease \/ Backups!RestoreUpload
         \/ Backups!Complete \/ Backups!Undo \/ Backups!Kill \/ (Backups!Made /\ task.kind = "backup")
         \/ Backups!BackupFails \/ Backups!StepFails \/ Backups!EndCleanup
         \/ \E b \in Backups!Backup : Backups!RestoreDatabase(b)
  PROVE  Rests
<1> USE DEF Rests
<1>1. task.kind = "none" <=> task.at = "idle"
  BY DEF BackupInv, TaskKinds
<1>2. Backups!NoTask.at = "idle" /\ Backups!NoTask.kind = "none"
  BY BackupRecords
<1>3. CASE Backups!MakeBackup \/ Backups!Update \/ Backups!Recover \/ Backups!RollbackRelease \/ Backups!RestoreUpload
           \/ \E b \in Backups!Backup : Backups!RestoreDatabase(b)
  <2>1. PICK k \in {"backup", "update", "recover", "rollback", "restore"},
             w \in {"cleanup", "probe", "rehearsals", "forward"}, j \in {"life", "data"}, refs \in SUBSET Backups!Backup :
             task' = Backups!Command(k, w, j, refs, 0)
    BY <1>3, BackupIds, Types DEF Backups!MakeBackup, Backups!Update, Backups!Recover, Backups!RollbackRelease,
      Backups!RestoreUpload, Backups!RestoreDatabase, Backups!RestoreFrom, Backups!Starts, BackupInv
  <2> QED
    BY <2>1, CommandFields
<1>4. CASE Backups!Complete \/ Backups!Undo \/ Backups!Kill \/ (Backups!Made /\ task.kind = "backup")
  BY <1>2, <1>4 DEF Backups!Complete, Backups!Undo, Backups!Kill, Backups!Made
<1>5. CASE Backups!BackupFails \/ Backups!StepFails
  <2>1. task.kind # "none" \/ task' = Backups!NoTask
    BY <1>1, <1>5 DEF Backups!BackupFails, Backups!StepFails, Backups!At
  <2>2. task' \in {Backups!Unwind, Backups!NoTask}
    BY <1>5 DEF Backups!BackupFails, Backups!StepFails
  <2>3. Backups!Unwind = Backups!NoTask \/ (Backups!Unwind.at = "undo" /\ Backups!Unwind.kind = task.kind)
    BY CommandFields DEF Backups!Unwind
  <2> QED
    BY <1>2, <2>1, <2>2, <2>3
<1>6. CASE Backups!EndCleanup
  <2>1. \A j \in Backups!Journal : Backups!UndoOf(j).at = "undo" /\ Backups!UndoOf(j).kind = "recover"
    BY CommandFields DEF Backups!UndoOf
  <2>2. task' = Backups!NoTask \/ \E j \in Backups!Journal : task' = Backups!UndoOf(j)
    BY <1>6 DEF Backups!EndCleanup, Backups!Journal
  <2> QED
    BY <1>2, <2>1, <2>2
<1> QED
  BY <1>3, <1>4, <1>5, <1>6

\* The steps that carry a command on.
LEMMA TaskAdvances ==
  ASSUME BackupInv,
         \/ Backups!Probe \/ Backups!EndRehearsals \/ Backups!Allocate \/ Backups!Dump \/ Backups!CreateClone
         \/ Backups!DropClone \/ Backups!Seal \/ Backups!NoteLast \/ (Backups!Made /\ task.kind # "backup")
         \/ Backups!Pin \/ Backups!WriteJournal \/ Backups!Canary
  PROVE  Advances
<1> USE DEF Advances, Backups!At, Backups!Goto
<1>1. task \in Task
  BY Types DEF BackupInv
<1>2. CASE Backups!Probe \/ Backups!Canary \/ Backups!Dump \/ Backups!CreateClone \/ Backups!DropClone \/ Backups!Seal
  <2>1. PICK w \in {"rehearsals", "create", "verify", "restored", "sealed"} : task' = [task EXCEPT !.at = w]
           /\ <<task.at, w>> \in {<<"probe", "rehearsals">>, <<"forward", "rehearsals">>, <<"dump", "create">>,
                                  <<"dump", "verify">>, <<"create", "restored">>, <<"restored", "verify">>,
                                  <<"verify", "sealed">>}
    BY <1>2 DEF Backups!Probe, Backups!Canary, Backups!Dump, Backups!CreateClone, Backups!DropClone, Backups!Seal
  <2> QED
    BY <1>1, <2>1, GoesOn
<1>3. CASE Backups!EndRehearsals \/ Backups!NoteLast
  <2>1. PICK w \in {"prune", "made"}, S \in {Backups!Spared(last')} : task' = [task EXCEPT !.at = w, !.spared = S]
           /\ <<task.at, w>> \in {<<"rehearsals", "prune">>, <<"sealed", "made">>} /\ UNCHANGED <<dirs, journal>>
    BY <1>3 DEF Backups!EndRehearsals, Backups!NoteLast
  <2> QED
    BY <1>1, <2>1, GoesOn
<1>4. CASE Backups!Allocate \/ Backups!WriteJournal
  <2>1. PICK w \in {"dump", "forward"}, b \in {made', 0} : task' = [task EXCEPT !.at = w, !.cur = b]
           /\ \/ task.at = "prune" /\ w = "dump" /\ made' = made + 1 /\ b = made'
              \/ task.at = "journal" /\ w = "forward" /\ b = 0
    BY <1>4 DEF Backups!Allocate, Backups!WriteJournal
  <2> QED
    BY <1>1, <2>1, GoesOn DEF Making
<1>5. CASE Backups!Made /\ task.kind # "backup"
  BY <1>1, <1>5, GoesOn DEF Backups!Made
<1>6. CASE Backups!Pin
  BY <1>1, <1>6, GoesOn DEF Backups!Pin
<1> QED
  BY <1>2, <1>3, <1>4, <1>5, <1>6

\* There are no other steps of a command.
LEMMA TaskMoves ==
  ASSUME BackupAssumption, BackupInv, Backups!Next \/ UNCHANGED backups
  PROVE  Rests \/ Advances \/ UNCHANGED task
BY TaskRests, TaskAdvances DEF Backups!Next, backups, Backups!UploadFails, Backups!Age, Backups!RecoverRehearsal,
  Backups!Prune, Backups!CleanRehearsal, Backups!Damage, Backups!ApplyRetention

\* A backup that is being made has been allocated.
LEMMA StepKinds ==
  ASSUME BackupAssumption, BackupInv, Backups!TypeOK', Backups!Next \/ UNCHANGED backups
  PROVE  TaskKinds'
<1>1. /\ TaskKinds /\ made \in 0..MaxBackup /\ made' \in 0..MaxBackup
      /\ UNCHANGED made \/ (made < MaxBackup /\ made' = made + 1)
  BY Types, Counters DEF BackupInv, Backups!TypeOK
<1>2. CASE Rests
  BY <1>2 DEF Rests, TaskKinds, Making
<1>3. CASE UNCHANGED task
  BY <1>1, <1>3 DEF TaskKinds
<1>4. CASE Advances
  BY <1>1, <1>4 DEF Advances, TaskKinds, Making
<1> QED
  BY <1>2, <1>3, <1>4, TaskMoves

\* Nobody but the command touches the directory it is writing.
LEMMA StepUnderWay ==
  ASSUME BackupAssumption, BackupInv, Backups!TypeOK', Backups!Next \/ UNCHANGED backups
  PROVE  UnderWay'
<1>1. /\ dirs \in [Backups!Backup -> Dir] /\ made \in 0..MaxBackup
      /\ task.at \in Making => task.cur \in Backups!Backup /\ dirs[task.cur] \in Dir
  BY Types, BackupIds DEF BackupInv, TaskKinds
<1>2. UnderWay
  BY DEF BackupInv
<1>3. CASE Rests
  BY <1>3 DEF Rests, UnderWay, Making
<1>4. ASSUME UNCHANGED task, task.at \in Making => dirs'[task.cur] = dirs[task.cur] /\ UNCHANGED clones
      PROVE  UnderWay'
  BY <1>2, <1>4 DEF UnderWay, Making
<1>5. CASE Backups!UploadFails \/ Backups!Age \/ \E b \in Backups!Backup : Backups!RecoverRehearsal(b) \/ Backups!CleanRehearsal(b)
  <2>1. UNCHANGED task /\ task.at \notin Making
    BY <1>5 DEF Backups!UploadFails, Backups!Age, Backups!RecoverRehearsal, Backups!CleanRehearsal, Backups!At, Backups!Idle,
      BackupInv, TaskKinds, Making
  <2> QED
    BY <1>4, <2>1
<1>6. CASE \E b \in Backups!Backup : Backups!Prune(b) \/ Backups!Damage(b) \/ Backups!ApplyRetention(b)
  <2>1. PICK b \in Backups!Backup : /\ UNCHANGED <<task, clones>> /\ \A c \in Backups!Backup \ {b} : dirs'[c] = dirs[c]
                                    /\ dirs[b].old \/ b # task.cur
    BY <1>1, <1>6 DEF Backups!Prune, Backups!Damage, Backups!ApplyRetention
  <2> QED
    BY <1>1, <1>2, <1>4, <2>1 DEF UnderWay
<1>7. CASE UNCHANGED backups
  BY <1>4, <1>7 DEF backups
<1>8. CASE Backups!Probe \/ Backups!Canary \/ Backups!EndRehearsals \/ Backups!WriteJournal
  <2>1. Advances
    BY <1>8, TaskAdvances
  <2> QED
    BY <1>8, <2>1 DEF Advances, UnderWay, Making, Backups!Probe, Backups!Canary, Backups!EndRehearsals, Backups!WriteJournal, Backups!At
<1>9. CASE Backups!NoteLast \/ (Backups!Made /\ task.kind # "backup")
  <2>1. Advances
    BY <1>9, TaskAdvances
  <2>2. task'.cur = task.cur /\ UNCHANGED dirs /\ task.at \in {"sealed", "made"} /\ task'.at \in {"made", "pin"}
    BY <1>9, <2>1 DEF Advances, Backups!NoteLast, Backups!Made, Backups!At
  <2> QED
    BY <1>2, <2>2 DEF UnderWay, Making
<1>10. CASE Backups!Allocate
  <2>1. Advances
    BY <1>10, TaskAdvances
  <2>2. task'.at = "dump" /\ task'.cur = made + 1 /\ UNCHANGED clones /\ made + 1 \in Backups!Backup /\ made + 1 \notin clones
    BY <1>1, <1>10, <2>1, BackupIds DEF Advances, Backups!Allocate, Backups!At, BackupInv, Unused, Backups!Backup
  <2>3. PICK d \in Dir : Backups!Write(made + 1, d) /\ d.state = "partial" /\ ~d.pinned /\ ~d.record
    <3>1. LET d == Backups!Directory("partial", FALSE) IN d \in Dir /\ d.state = "partial" /\ ~d.pinned /\ ~d.record
      BY DEF Backups!Directory, Dir
    <3> QED
      BY <1>10, <3>1 DEF Backups!Allocate
  <2>4. LET e == dirs'[made + 1] IN e.state = "partial" /\ ~e.pinned /\ ~e.record /\ ~e.old
    BY <1>1, <2>2, <2>3, Writes
  <2> QED
    BY <2>2, <2>4 DEF UnderWay, Making
<1>11. CASE Backups!Dump
  <2>1. Advances
    BY <1>11, TaskAdvances
  <2>2. /\ task.at = "dump" /\ task'.cur = task.cur /\ task.cur \in Backups!Backup /\ UNCHANGED clones /\ dirs[task.cur] \in Dir
        /\ dirs[task.cur].state = "partial" /\ ~dirs[task.cur].pinned /\ ~dirs[task.cur].record /\ ~dirs[task.cur].old
        /\ task.cur \notin clones
    BY <1>1, <1>2, <1>11, <2>1 DEF Advances, Backups!Dump, Backups!At, UnderWay, Making
  <2>3. CASE Backups!Write(task.cur, [dirs[task.cur] EXCEPT !.record = TRUE]) /\ Backups!Goto("create")
    <3>1. LET e == [dirs[task.cur] EXCEPT !.record = TRUE]
          IN e \in Dir /\ e.state = "partial" /\ ~e.pinned /\ e.record
      BY <2>2, DirSets
    <3>2. LET e == dirs'[task.cur] IN e.state = "partial" /\ ~e.pinned /\ e.record /\ ~e.old
      BY <1>1, <2>2, <2>3, <3>1, Writes
    <3>3. task'.at = "create"
      BY <2>3, GoesOn, Types DEF Backups!Goto, BackupInv
    <3> QED
      BY <2>2, <3>2, <3>3 DEF UnderWay, Making
  <2>4. CASE UNCHANGED dirs /\ Backups!Goto("verify")
    <3>1. task'.at = "verify"
      BY <2>4, GoesOn, Types DEF Backups!Goto, BackupInv
    <3> QED
      BY <2>2, <2>4, <3>1 DEF UnderWay, Making
  <2> QED
    BY <1>11, <2>3, <2>4 DEF Backups!Dump
<1>12. CASE Backups!CreateClone
  <2>1. Advances
    BY <1>12, TaskAdvances
  <2>2. task.at = "create" /\ task'.at = "restored" /\ task'.cur = task.cur /\ UNCHANGED dirs
    BY <1>12, <2>1 DEF Advances, Backups!CreateClone, Backups!At, Making
  <2> QED
    BY <1>2, <2>2 DEF UnderWay, Making
<1>13. CASE Backups!DropClone
  <2>1. Advances
    BY <1>13, TaskAdvances
  <2>2. /\ task.at = "restored" /\ task'.at = "verify" /\ task'.cur = task.cur /\ task.cur \in Backups!Backup
        /\ dirs[task.cur] \in Dir
        /\ dirs[task.cur].state = "partial" /\ ~dirs[task.cur].pinned
    BY <1>1, <1>2, <1>13, <2>1 DEF Advances, Backups!DropClone, Backups!At, UnderWay, Making
  <2>3. LET e == [dirs[task.cur] EXCEPT !.record = FALSE]
        IN e \in Dir /\ e.state = "partial" /\ ~e.pinned /\ ~e.record
    BY <2>2, DirSets
  <2>4. LET e == dirs'[task.cur] IN e.state = "partial" /\ ~e.pinned /\ ~e.record /\ ~e.old
    BY <1>1, <1>13, <2>2, <2>3, Writes DEF Backups!DropClone
  <2> QED
    BY <2>2, <2>4 DEF UnderWay, Making
<1>14. CASE Backups!Seal
  <2>1. Advances
    BY <1>14, TaskAdvances
  <2>2. /\ task.at = "verify" /\ task'.at = "sealed" /\ task'.cur = task.cur /\ task.cur \in Backups!Backup
        /\ dirs[task.cur] \in Dir
        /\ ~dirs[task.cur].pinned
    BY <1>1, <1>2, <1>14, <2>1 DEF Advances, Backups!Seal, Backups!At, UnderWay, Making
  <2>3. LET e == [dirs[task.cur] EXCEPT !.state = "verified", !.whole = TRUE]
        IN e \in Dir /\ e.state = "verified" /\ ~e.pinned
    BY <2>2, DirSets
  <2>4. LET e == dirs'[task.cur] IN e.state = "verified" /\ ~e.pinned /\ ~e.old
    BY <1>1, <1>14, <2>2, <2>3, Writes DEF Backups!Seal
  <2> QED
    BY <2>2, <2>4 DEF UnderWay, Making
<1>15. CASE Backups!Pin
  <2>1. Advances
    BY <1>15, TaskAdvances
  <2>2. /\ task.at = "pin" /\ task'.at = "journal" /\ task'.cur = task.cur /\ task.cur \in Backups!Backup
        /\ dirs[task.cur] \in Dir
        /\ dirs[task.cur].state = "verified"
    BY <1>1, <1>2, <1>15, <2>1 DEF Advances, Backups!Pin, Backups!At, UnderWay, Making
  <2>3. LET e == [dirs[task.cur] EXCEPT !.pinned = TRUE] IN e \in Dir /\ e.state = "verified" /\ e.pinned
    BY <2>2, DirSets
  <2>4. LET e == dirs'[task.cur] IN e.state = "verified" /\ e.pinned /\ ~e.old
    BY <1>1, <1>15, <2>2, <2>3, Writes DEF Backups!Pin
  <2> QED
    BY <2>2, <2>4 DEF UnderWay, Making
<1> QED
  BY <1>3, <1>5, <1>6, <1>7, <1>8, <1>9, <1>10, <1>11, <1>12, <1>13, <1>14, <1>15, TaskRests DEF Backups!Next

\* Names that were kept are still kept after a step.
LEMMA Stays ==
  ASSUME BackupInv, Held, NEW refs \in SUBSET Backups!Backup, NEW back \in 0..MaxBackup, Kept(refs, back),
         refs \subseteq task.refs \/ \E j \in Backups!Journal : refs \subseteq Backups!Refs(j)
  PROVE  /\ back # 0 => dirs'[back].state = "verified" /\ dirs'[back].pinned
         /\ \A b \in refs : dirs'[b].state # "none" \/ b \in removed'
<1>1. back # 0 => back \in Backups!Backup
  BY DEF Backups!Backup
<1>2. \A b \in refs : b \in Backups!Backup /\ (b \in task.refs \/ \E j \in Backups!Journal : b \in Backups!Refs(j))
  OBVIOUS
<1> QED
  BY <1>1, <1>2 DEF Kept, Held

\* A step keeps what the open journals name.
LEMMA StepJournals ==
  ASSUME BackupAssumption, BackupInv, Held, Backups!Next \/ UNCHANGED backups
  PROVE  JournalsKept'
<1>1. /\ journal \in [Backups!Journal -> JournalFile] /\ task.of \in Backups!Journal /\ dirs \in [Backups!Backup -> Dir]
      /\ task.refs \in SUBSET Backups!Backup /\ task.back \in 0..MaxBackup
      /\ \A j \in Backups!Journal : journal[j].refs \in SUBSET Backups!Backup /\ journal[j].back \in 0..MaxBackup
  BY Types DEF BackupInv, Task, JournalFile
<1>2. ASSUME NEW j \in Backups!Journal, journal[j].state = "open"
      PROVE  /\ journal[j].back # 0 => dirs'[journal[j].back].state = "verified" /\ dirs'[journal[j].back].pinned
             /\ \A b \in journal[j].refs : dirs'[b].state # "none" \/ b \in removed'
  <2>1. Kept(journal[j].refs, journal[j].back)
    BY <1>2 DEF BackupInv, JournalsKept, Backups!Open, Backups!Refs
  <2> QED
    BY <1>1, <2>1, Stays DEF Backups!Refs
<1>3. ASSUME \A j \in Backups!Journal : journal'[j].state = "open" =>
               \/ journal'[j] = journal[j]
               \/ /\ journal'[j].back # 0 => dirs'[journal'[j].back].state = "verified" /\ dirs'[journal'[j].back].pinned
                  /\ \A b \in journal'[j].refs : dirs'[b].state # "none" \/ b \in removed'
      PROVE  JournalsKept'
  <2>1. ASSUME NEW j \in Backups!Journal, journal'[j].state = "open"
        PROVE  /\ journal'[j].back # 0 => dirs'[journal'[j].back].state = "verified" /\ dirs'[journal'[j].back].pinned
               /\ \A b \in journal'[j].refs : dirs'[b].state # "none" \/ b \in removed'
    <3>1. CASE journal'[j] = journal[j]
      BY <1>2, <2>1, <3>1
    <3> QED
      BY <1>3, <2>1, <3>1
  <2> QED
    BY <2>1 DEF JournalsKept, Kept, Backups!Open, Backups!Refs, Backups!Journal
<1>4. ASSUME NEW j \in Backups!Journal, NEW s, NEW refs, NEW back, Backups!SetJournal(j, s, refs, back)
      PROVE  /\ journal'[j].state = s /\ journal'[j].refs = refs /\ journal'[j].back = back
             /\ \A i \in Backups!Journal \ {j} : journal'[i] = journal[i]
  BY <1>1, <1>4 DEF Backups!SetJournal
<1>5. CASE UNCHANGED journal
  BY <1>3, <1>5
<1>6. ASSUME NEW b \in Backups!Backup, Backups!RestoreFrom(b), dirs'[b].state # "none"
      PROVE  JournalsKept'
  <2>1. Backups!SetJournal("data", "open", {b}, 0) /\ "data" \in Backups!Journal
    BY <1>6 DEF Backups!RestoreFrom, Backups!Journal
  <2> QED
    BY <1>3, <1>4, <1>6, <2>1
<1>7. ASSUME NEW b \in Backups!Backup, Backups!RestoreDatabase(b)
      PROVE  JournalsKept'
  BY <1>6, <1>7 DEF Backups!RestoreDatabase
<1>8. CASE Backups!RestoreUpload
  <2>1. made + 1 \in Backups!Backup
    BY <1>8, BackupIds, Types DEF Backups!RestoreUpload, BackupInv
  <2>2. PICK d \in Dir : Backups!Write(made + 1, d) /\ d.state = "verified"
    <3>1. LET d == Backups!Directory("verified", TRUE) IN d \in Dir /\ d.state = "verified"
      BY DEF Backups!Directory, Dir
    <3> QED
      BY <1>8, <3>1 DEF Backups!RestoreUpload
  <2>3. dirs'[made + 1].state # "none"
    BY <1>1, <2>1, <2>2, Writes
  <2> QED
    BY <1>6, <1>8, <2>1, <2>3 DEF Backups!RestoreUpload
<1>9. CASE Backups!RollbackRelease
  <2>1. Backups!SetJournal("data", "open", {}, 0) /\ "data" \in Backups!Journal
    BY <1>9 DEF Backups!RollbackRelease, Backups!Journal
  <2> QED
    BY <1>3, <1>4, <2>1
<1>10. CASE Backups!WriteJournal
  <2>1. /\ Backups!SetJournal(task.of, "open", task.refs, task.back) /\ UNCHANGED <<dirs, removed>>
        /\ Kept(task.refs, task.back)
    BY <1>10 DEF Backups!WriteJournal, BackupInv, TaskKept
  <2>2. /\ journal'[task.of].refs = task.refs /\ journal'[task.of].back = task.back
        /\ \A i \in Backups!Journal \ {task.of} : journal'[i] = journal[i]
    BY <1>1, <2>1 DEF Backups!SetJournal
  <2> QED
    BY <1>3, <2>1, <2>2 DEF Kept
<1>11. CASE Backups!Complete
  <2>1. \A j \in Backups!Journal : journal'[j].state # "open" \/ journal'[j] = journal[j]
    BY <1>1, <1>11 DEF Backups!Complete, JournalFile
  <2> QED
    BY <1>3, <2>1
<1>12. CASE Backups!Undo
  <2>1. CASE Backups!SetJournal(task.of, "rolled_back", task.refs, task.back)
    <3>1. journal'[task.of].state = "rolled_back" /\ \A i \in Backups!Journal \ {task.of} : journal'[i] = journal[i]
      BY <1>1, <2>1 DEF Backups!SetJournal
    <3> QED
      BY <1>3, <3>1
  <2> QED
    BY <1>5, <1>12, <2>1 DEF Backups!Undo
<1> QED
  BY <1>5, <1>7, <1>8, <1>9, <1>10, <1>11, <1>12 DEF Backups!Next, backups,
  Backups!MakeBackup, Backups!Update, Backups!UploadFails, Backups!Probe, Backups!EndRehearsals, Backups!Allocate,
  Backups!Dump, Backups!CreateClone, Backups!DropClone, Backups!Seal, Backups!NoteLast, Backups!Made, Backups!Pin,
  Backups!Canary, Backups!Recover, Backups!EndCleanup, Backups!BackupFails, Backups!StepFails, Backups!Kill,
  Backups!Age, Backups!RecoverRehearsal, Backups!Prune, Backups!CleanRehearsal, Backups!Damage,
  Backups!ApplyRetention

\* A step keeps what the transaction names.
LEMMA StepTasks ==
  ASSUME BackupAssumption, BackupInv, Held, Backups!TypeOK', Backups!Next \/ UNCHANGED backups
  PROVE  TaskKept'
<1>1. /\ task.of \in Backups!Journal /\ dirs \in [Backups!Backup -> Dir] /\ made \in 0..MaxBackup
      /\ task.refs \in SUBSET Backups!Backup /\ task.back \in 0..MaxBackup
      /\ \A j \in Backups!Journal : Backups!Refs(j) \in SUBSET Backups!Backup /\ journal[j].back \in 0..MaxBackup
      /\ task.at \in Making => task.cur \in Backups!Backup
  BY Types, BackupIds DEF BackupInv, Task, JournalFile, Backups!Refs, TaskKinds
<1>2. ASSUME task'.refs \subseteq task.refs, task'.back \in {0, task.back}  PROVE TaskKept'
  <2>1. /\ task.back # 0 => dirs'[task.back].state = "verified" /\ dirs'[task.back].pinned
        /\ \A b \in task.refs : dirs'[b].state # "none" \/ b \in removed'
    BY <1>1, Stays DEF BackupInv, TaskKept
  <2> QED
    BY <1>2, <2>1 DEF TaskKept, Kept
<1>3. Backups!NoTask.refs = {} /\ Backups!NoTask.back = 0
  BY BackupRecords
<1>4. CASE Backups!MakeBackup \/ Backups!Update \/ Backups!Recover \/ Backups!RollbackRelease
  <2>1. task'.refs = {} /\ task'.back = 0
    BY <1>4, CommandFields DEF Backups!MakeBackup, Backups!Update, Backups!Recover, Backups!RollbackRelease, Backups!Starts
  <2> QED
    BY <1>2, <2>1
<1>5. ASSUME NEW b \in Backups!Backup, Backups!RestoreFrom(b), dirs'[b].state # "none"
      PROVE  TaskKept'
  <2>1. task'.refs = {b} /\ task'.back = 0
    BY <1>5, CommandFields DEF Backups!RestoreFrom
  <2> QED
    BY <1>5, <2>1 DEF TaskKept, Kept
<1>6. CASE \E b \in Backups!Backup : Backups!RestoreDatabase(b)
  BY <1>5, <1>6 DEF Backups!RestoreDatabase
<1>7. CASE Backups!RestoreUpload
  <2>1. made + 1 \in Backups!Backup
    BY <1>1, <1>7, BackupIds DEF Backups!RestoreUpload
  <2>2. PICK d \in Dir : Backups!Write(made + 1, d) /\ d.state = "verified"
    <3>1. LET d == Backups!Directory("verified", TRUE) IN d \in Dir /\ d.state = "verified"
      BY DEF Backups!Directory, Dir
    <3> QED
      BY <1>7, <3>1 DEF Backups!RestoreUpload
  <2>3. dirs'[made + 1].state # "none"
    BY <1>1, <2>1, <2>2, Writes
  <2> QED
    BY <1>5, <1>7, <2>1, <2>3 DEF Backups!RestoreUpload
<1>8. CASE Backups!Complete \/ Backups!Undo \/ Backups!Kill \/ (Backups!Made /\ task.kind = "backup")
  BY <1>2, <1>3, <1>8 DEF Backups!Complete, Backups!Undo, Backups!Kill, Backups!Made
<1>9. CASE Backups!BackupFails \/ Backups!StepFails
  <2>1. task' \in {Backups!Unwind, Backups!NoTask}
    BY <1>9 DEF Backups!BackupFails, Backups!StepFails
  <2>2. Backups!Unwind = Backups!NoTask \/ (Backups!Unwind.refs = task.refs /\ Backups!Unwind.back = task.back)
    BY CommandFields DEF Backups!Unwind
  <2> QED
    BY <1>2, <1>3, <2>1, <2>2
<1>10. CASE Backups!EndCleanup
  <2>1. task' = Backups!NoTask \/ \E j \in Backups!Journal : task' = Backups!UndoOf(j) /\ Backups!Open(j)
    BY <1>10 DEF Backups!EndCleanup, Backups!Journal
  <2>2. CASE \E j \in Backups!Journal : task' = Backups!UndoOf(j) /\ Backups!Open(j)
    <3>1. PICK j \in Backups!Journal : task' = Backups!UndoOf(j) /\ Backups!Open(j)
      BY <2>2
    <3>2. task'.refs = Backups!Refs(j) /\ task'.back = journal[j].back
      BY <3>1, CommandFields DEF Backups!UndoOf
    <3>3. Kept(Backups!Refs(j), journal[j].back) /\ UNCHANGED <<dirs, removed>>
      BY <1>10, <3>1 DEF BackupInv, JournalsKept, Backups!EndCleanup
    <3> QED
      BY <3>2, <3>3 DEF TaskKept, Kept
  <2> QED
    BY <1>2, <1>3, <2>1, <2>2
<1>11. CASE Backups!Made /\ task.kind # "backup"
  <2>1. task'.refs \in {task.refs, {task.cur}} /\ task'.back = task.back /\ UNCHANGED <<dirs, removed>>
    BY <1>11, TaskAdvances DEF Advances, Backups!Made, Backups!At
  <2>2. dirs[task.cur].state = "verified"
    BY <1>11 DEF Backups!Made, Backups!At, BackupInv, UnderWay
  <2> QED
    BY <2>1, <2>2 DEF BackupInv, TaskKept, Kept
<1>12. CASE Backups!Pin
  <2>1. Advances
    BY <1>12, TaskAdvances
  <2>2. task.at = "pin" /\ task'.at = "journal" /\ task'.refs = task.refs \cup {task.cur} /\ task'.back \in {task.cur, 0}
        /\ task'.cur = task.cur
    BY <1>12, <2>1 DEF Advances, Backups!Pin, Backups!At
  <2>3. dirs'[task.cur].state = "verified" /\ dirs'[task.cur].pinned
    BY <2>2, StepUnderWay DEF UnderWay
  <2>4. \A b \in task.refs : dirs'[b].state # "none" \/ b \in removed'
    BY <1>1, Stays DEF BackupInv, TaskKept
  <2> QED
    BY <2>2, <2>3, <2>4 DEF TaskKept, Kept
<1>13. CASE UNCHANGED task
  BY <1>2, <1>13
<1>14. CASE Backups!Probe \/ Backups!EndRehearsals \/ Backups!Allocate \/ Backups!Dump \/ Backups!CreateClone
            \/ Backups!DropClone \/ Backups!Seal \/ Backups!NoteLast \/ Backups!WriteJournal \/ Backups!Canary
  <2>1. Advances
    BY <1>14, TaskAdvances
  <2>2. task'.refs = task.refs /\ task'.back = task.back
    BY <1>14, <2>1 DEF Advances, Backups!Probe, Backups!EndRehearsals, Backups!Allocate, Backups!Dump, Backups!CreateClone,
      Backups!DropClone, Backups!Seal, Backups!NoteLast, Backups!WriteJournal, Backups!Canary, Backups!At
  <2> QED
    BY <1>2, <2>2
<1> QED
  BY <1>4, <1>6, <1>7, <1>8, <1>9, <1>10, <1>11, <1>12, <1>13, <1>14 DEF Backups!Next, backups, Backups!UploadFails, Backups!Age,
    Backups!RecoverRehearsal, Backups!Prune, Backups!CleanRehearsal, Backups!Damage, Backups!ApplyRetention

\* Pruning is told of every name before it begins.
LEMMA StepKnown ==
  ASSUME BackupAssumption, BackupInv, Backups!Next \/ UNCHANGED backups
  PROVE  Known'
<1>1. /\ journal \in [Backups!Journal -> JournalFile] /\ task.of \in Backups!Journal /\ Known /\ TaskKinds
      /\ \A j \in Backups!Journal : Backups!Refs(j) \subseteq Backups!Backup
  BY Types DEF BackupInv, Task, JournalFile, Backups!Refs
<1>2. CASE Backups!MakeBackup \/ Backups!Update \/ Backups!Recover \/ Backups!RollbackRelease
  <2>1. task'.refs = {} /\ task'.at \in {"rehearsals", "cleanup", "forward"}
    BY <1>2, CommandFields DEF Backups!MakeBackup, Backups!Update, Backups!Recover, Backups!RollbackRelease, Backups!Starts
  <2> QED
    BY <2>1 DEF Known
<1>3. ASSUME NEW b \in Backups!Backup, Backups!RestoreFrom(b)
      PROVE  Known'
  <2>1. task'.refs = {b} /\ task'.at \in {"rehearsals", "probe"} /\ task'.of = "data"
    BY <1>3, CommandFields DEF Backups!RestoreFrom
  <2>2. journal'["data"].refs = {b}
    BY <1>1, <1>3 DEF Backups!RestoreFrom, Backups!SetJournal, Backups!Journal
  <2> QED
    BY <2>1, <2>2 DEF Known, Backups!Refs
<1>4. CASE Backups!RestoreUpload \/ \E b \in Backups!Backup : Backups!RestoreDatabase(b)
  BY <1>3, <1>4, BackupIds, Types DEF Backups!RestoreUpload, Backups!RestoreDatabase, BackupInv
<1>5. CASE task'.at \in {"idle", "undo"}
  BY <1>5 DEF Known
<1>6. CASE Backups!Complete \/ Backups!Undo \/ Backups!Kill \/ Backups!BackupFails \/ Backups!StepFails \/ Backups!EndCleanup
           \/ (Backups!Made /\ task.kind = "backup")
  <2>1. Backups!NoTask.at = "idle" /\ Backups!Unwind.at \in {"idle", "undo"} /\ \A j \in Backups!Journal : Backups!UndoOf(j).at = "undo"
    BY CommandFields, BackupRecords DEF Backups!Unwind, Backups!UndoOf
  <2>2. task' \in {Backups!NoTask, Backups!Unwind} \cup {Backups!UndoOf(j) : j \in Backups!Journal}
    BY <1>6 DEF Backups!Complete, Backups!Undo, Backups!Kill, Backups!BackupFails, Backups!StepFails, Backups!EndCleanup, Backups!Made,
      Backups!Journal
  <2> QED
    BY <1>5, <2>1, <2>2
<1>7. CASE UNCHANGED <<task, journal>>
  BY <1>1, <1>7 DEF Known, Backups!Refs
<1>8. CASE Backups!EndRehearsals \/ Backups!NoteLast
  <2>1. Advances
    BY <1>8, TaskAdvances
  <2>2. /\ <<task.at, task'.at>> \in {<<"rehearsals", "prune">>, <<"sealed", "made">>} /\ task'.of = task.of
        /\ task'.refs = task.refs /\ UNCHANGED journal
    BY <1>8, <2>1 DEF Advances, Backups!EndRehearsals, Backups!NoteLast, Backups!At
  <2>3. task'.spared = Backups!Spared(last')
    BY <1>8, <2>1 DEF Advances, Backups!EndRehearsals, Backups!NoteLast, Backups!At
  <2>4. \A j \in Backups!Journal : Backups!Refs(j) \subseteq task'.spared
    BY <1>1, <2>3 DEF Backups!Spared, Backups!Journal
  <2> QED
    BY <1>1, <2>2, <2>4 DEF Known, Backups!Refs
<1>9. CASE Backups!Probe \/ Backups!Allocate \/ Backups!Dump \/ Backups!CreateClone \/ Backups!DropClone \/ Backups!Seal
           \/ Backups!Canary
  <2>1. Advances
    BY <1>9, TaskAdvances
  <2>2. /\ task.at \in {"probe", "prune", "dump", "create", "restored", "verify", "forward"} /\ UNCHANGED journal
        /\ task'.of = task.of /\ task'.refs = task.refs /\ task'.at \notin {"prune", "made"}
    BY <1>9, <2>1 DEF Advances, Backups!Probe, Backups!Allocate, Backups!Dump, Backups!CreateClone, Backups!DropClone,
      Backups!Seal, Backups!Canary, Backups!At
  <2> QED
    BY <1>1, <2>2 DEF Known, Backups!Refs
<1>10. CASE Backups!Pin \/ (Backups!Made /\ task.kind # "backup")
  <2>1. task'.at \in {"pin", "journal"}
    BY <1>10, TaskAdvances DEF Advances, Backups!Pin, Backups!Made, Backups!At
  <2> QED
    BY <2>1 DEF Known
<1>11. CASE Backups!WriteJournal
  <2>1. task'.at = "forward" /\ task'.of = task.of /\ task'.refs = task.refs
    BY <1>11, TaskAdvances DEF Advances, Backups!WriteJournal, Backups!At
  <2>2. journal'[task.of].refs = task.refs
    BY <1>1, <1>11 DEF Backups!WriteJournal, Backups!SetJournal
  <2> QED
    BY <2>1, <2>2 DEF Known, Backups!Refs
<1> QED
  BY <1>2, <1>4, <1>6, <1>7, <1>8, <1>9, <1>10, <1>11 DEF Backups!Next, backups, Backups!UploadFails, Backups!Age,
    Backups!RecoverRehearsal, Backups!Prune, Backups!CleanRehearsal, Backups!Damage, Backups!ApplyRetention

\* The invariant is inductive.
LEMMA BackupStep ==
  ASSUME BackupAssumption, BackupInv, Backups!Next \/ UNCHANGED backups
  PROVE  BackupInv'
<1>1. Backups!TypeOK'
  BY StepTypes DEF BackupInv
<1>2. Held /\ Unused' /\ WrittenDown'
  BY <1>1, StepHolds
<1> QED
  BY <1>1, <1>2, StepKinds, StepUnderWay, StepJournals, StepTasks, StepKnown DEF BackupInv

\* Recovery finds the backups that the journals name and every rehearsal
\* database that was written down, whatever died between two steps and
\* whenever the panel's retention ran.
THEOREM RecoveryIsPossible == Services => []RecoveryFinds
<1>1. Begins => BackupInv
  BY BackupInit, BackupAssumption
<1>2. BackupInv /\ [ServiceSteps]_<<part, router, anyconnect, reseller, backups>> => BackupInv'
  <2>1. ASSUME BackupInv, ServiceSteps \/ UNCHANGED <<part, router, anyconnect, reseller, backups>>
        PROVE  Backups!Next \/ UNCHANGED backups
    BY <2>1 DEF ServiceSteps, BackupSteps, RouterSteps, AnyConnectSteps, ResellerSteps
  <2> QED
    BY <2>1, BackupAssumption, BackupStep
<1>3. BackupInv => RecoveryFinds
  BY DEF BackupInv, WrittenDown, JournalsKept, Kept, RecoveryFinds, Backups!RecoveryFinds, Backups!Refs, Backups!TypeOK
<1> QED
  BY <1>1, <1>2, <1>3, PTL DEF Services
=============================================================================
