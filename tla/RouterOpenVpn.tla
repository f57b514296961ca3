--------------------------- MODULE RouterOpenVpn ---------------------------
(***************************************************************************)
(* The opt-in listener for routers on a node, and one user's credential on *)
(* it: what the panel has recorded (cfg, row) and what the node has (disk, *)
(* proc, opened, record).                                                  *)
(*                                                                         *)
(* A route of the panel blocks the panel's only event loop while it waits  *)
(* for the node, so two of them never interleave; the clean-up after a     *)
(* deactivation, a removed assignment or a deletion waits in a thread, and *)
(* the usage sync is a process of its own. The agent of the node serves    *)
(* one call at a time, in the order they were sent.                        *)
(*                                                                         *)
(* A setting is a port and a subnet, both different from those of another  *)
(* setting: the node refuses to change only one of them while it listens.  *)
(* Passwords are numbers, in the order they were made; a name stands for   *)
(* the common name it is part of.                                          *)
(***************************************************************************)
EXTENDS Naturals

CONSTANTS Setting,    \* settings a listener can be given
          MaxSecret,  \* bound on passwords
          MaxName,    \* names the user may have, one after the other
          MaxFaults   \* bound on lost calls and answers, failures and crashes; a
                      \* failure of what answers a failure is not counted

VARIABLES user,      \* the user: exists, active, assigned, name
          cfg,       \* NodeRouterOpenVpnConfig of the node
          row,       \* RouterOpenVpnCredential of the user on the node
          disk,      \* settings.env and pvnetwork-router.conf, 0 if none
          proc,      \* the setting the listener was started with, 0 if down
          opened,    \* settings the firewall lets through
          record,    \* the user's line in credentials.tsv
          helper,    \* the enable command running on the node
          op,        \* the route the panel is serving
          cleanup,   \* the clean-up in a thread, and the deletion before it
          secrets, faults,
          sure,      \* history: the last operation on row said it was done
          owed,      \* history: the last clean-up did not say it was done, or
                     \* a password was being pushed meanwhile
          told       \* history: the user was given a password

panel == <<user, cfg, row>>
node == <<disk, proc, opened, record, helper>>
history == <<sure, owed, told>>
vars == <<panel, node, op, cleanup, secrets, faults, history>>

NoRecord == [name |-> 0, secret |-> 0]
NoRow == [secret |-> 0, enabled |-> FALSE]
NoHelper == [at |-> "none", setting |-> 0, disk |-> 0, opened |-> {}]
NoOp == [kind |-> "none", at |-> "none", setting |-> 0, name |-> 0, secret |-> 0]
NoCleanup == [at |-> "none", name |-> 0, had |-> FALSE, late |-> FALSE]

Line == Setting \cup {0}
Operation == [kind : {"none", "on", "rotate", "switch"},
              at : {"none", "preflight", "call", "config", "verify", "back",
                    "push", "persist", "takeback"},
              setting : Line, name : Nat, secret : Nat]
Helper == [at : {"none", "write", "open", "start"}, setting : Line, disk : Line,
           opened : SUBSET Line]
Cleanup == [at : {"none", "nodes", "send"}, name : Nat, had : BOOLEAN, late : BOOLEAN]

TypeOK ==
  /\ user \in [exists : BOOLEAN, active : BOOLEAN, assigned : BOOLEAN, name : Nat \ {0}]
  /\ cfg \in [setting : Line, enabled : BOOLEAN]
  /\ row \in [secret : Nat, enabled : BOOLEAN]
  /\ disk \in Line /\ proc \in Line /\ opened \subseteq Line
  /\ record \in [name : Nat, secret : Nat]
  /\ helper \in Helper /\ op \in Operation /\ cleanup \in Cleanup
  /\ secrets \in Nat /\ faults \in Nat
  /\ sure \in BOOLEAN /\ owed \in BOOLEAN /\ told \in BOOLEAN

Init == /\ user = [exists |-> TRUE, active |-> TRUE, assigned |-> TRUE, name |-> 1]
        /\ cfg = [setting |-> 0, enabled |-> FALSE]
        /\ row = NoRow
        /\ disk = 0 /\ proc = 0 /\ opened = {} /\ record = NoRecord
        /\ helper = NoHelper /\ op = NoOp /\ cleanup = NoCleanup
        /\ secrets = 0 /\ faults = 0
        /\ sure = TRUE /\ owed = FALSE /\ told = FALSE

----------------------------------------------------------------------------
(* The node.                                                               *)

Free == helper.at = "none"
\* The port of a setting is in use, and its subnet routed, by the listener.
Preflight(s) == s # proc
\* Wrong: what runs is not looked at.
SettingsMatchOnDisk(s) == disk = s
SettingsMatch(s) == disk = s /\ proc # 0

CredentialSet(n, s) == record' = [name |-> n, secret |-> s]
CredentialRevoke(n) == record' = IF record.name = n THEN NoRecord ELSE record

DisableListener == /\ proc' = 0
                   /\ opened' = opened \ {disk}

\* enable: what there was is noted, written, let through and started.
SnapshotSecondary(s) == helper' = [at |-> "write", setting |-> s, disk |-> disk, opened |-> opened]

WriteSecondaryConfig ==
  /\ helper.at = "write"
  /\ disk' = helper.setting
  /\ helper' = [helper EXCEPT !.at = "open"]
  /\ UNCHANGED <<panel, proc, opened, record, op, cleanup, secrets, faults, history>>

FirewallApply ==
  /\ helper.at = "open"
  /\ opened' = opened \cup {helper.setting}
  /\ helper' = [helper EXCEPT !.at = "start"]
  /\ UNCHANGED <<panel, disk, proc, record, op, cleanup, secrets, faults, history>>

\* Starting a unit that runs leaves it as it is.
StartListener ==
  /\ helper.at = "start"
  /\ proc' = IF proc = 0 THEN disk ELSE proc
  /\ helper' = NoHelper
  /\ op' = IF op.at = "config" THEN [op EXCEPT !.at = "verify"] ELSE op
  /\ UNCHANGED <<panel, disk, opened, record, cleanup, secrets, faults, history>>

Fault == faults < MaxFaults /\ faults' = faults + 1

NotOk == /\ op' = NoOp
         /\ sure' = IF op.kind \in {"rotate", "switch"} THEN FALSE ELSE sure

\* A step of enable that fails is undone, with the listener stopped.
RestoreSecondary ==
  /\ ~Free /\ Fault
  /\ proc' = 0 /\ disk' = helper.disk /\ opened' = helper.opened
  /\ helper' = NoHelper
  /\ op' = IF op.at = "config" THEN NoOp ELSE op
  /\ UNCHANGED <<panel, record, cleanup, secrets, history>>

\* The agent ends a command that takes too long, where it is.
HelperTimeout ==
  /\ ~Free /\ Fault
  /\ helper' = NoHelper
  /\ op' = IF op.at = "config" THEN NoOp ELSE op
  /\ UNCHANGED <<panel, disk, proc, opened, record, cleanup, secrets, history>>

\* The unit is started, never enabled.
NodeReboots ==
  /\ Fault
  /\ proc' = 0 /\ helper' = NoHelper
  /\ op' = IF op.at = "config" THEN NoOp ELSE op
  /\ UNCHANGED <<panel, disk, opened, record, cleanup, secrets, history>>

----------------------------------------------------------------------------
(* The listener of a node, from the panel.                                 *)

Serving == op.kind # "none"
Shown == cfg.setting # 0 /\ cfg.enabled

\* A listener that is shown as asked for, and is told to run, is left alone.
ConfigureOn(s) ==
  /\ ~Serving /\ Free
  /\ \/ Shown /\ cfg.setting = s /\ proc # 0 /\ UNCHANGED <<op, faults>>
     \/ Shown /\ cfg.setting = s /\ Fault /\ op' = [NoOp EXCEPT !.kind = "on", !.at = "preflight", !.setting = s]
     \/ ~(Shown /\ cfg.setting = s /\ proc # 0) /\ UNCHANGED faults
          /\ op' = [NoOp EXCEPT !.kind = "on", !.at = "preflight", !.setting = s]
  /\ UNCHANGED <<panel, node, cleanup, secrets, history>>

PreflightAnswer ==
  /\ op.at = "preflight" /\ Free
  /\ \/ Preflight(op.setting) /\ op' = [op EXCEPT !.at = "call"] /\ UNCHANGED faults
     \/ ~Preflight(op.setting) /\ op' = NoOp /\ UNCHANGED faults
     \/ Fault /\ op' = NoOp
  /\ UNCHANGED <<panel, node, cleanup, secrets, history>>

EnableListener ==
  /\ op.at = "call" /\ Free
  /\ IF SettingsMatch(op.setting) THEN op' = [op EXCEPT !.at = "verify"] /\ UNCHANGED helper
     ELSE Preflight(op.setting) /\ op' = [op EXCEPT !.at = "config"] /\ SnapshotSecondary(op.setting)
  /\ UNCHANGED <<panel, disk, proc, opened, record, cleanup, secrets, faults, history>>

\* The call does not arrive, or the panel stops to wait for its answer.
EnableUnheard ==
  /\ \/ op.at = "call" /\ Free
     \/ op.at = "config"
  /\ Fault /\ op' = NoOp
  /\ UNCHANGED <<panel, node, cleanup, secrets, history>>

UpsertConfig(s, on) == cfg' = [setting |-> s, enabled |-> on]

VerifyEnabled ==
  /\ op.at = "verify" /\ Free
  /\ \/ proc # 0 /\ UpsertConfig(op.setting, TRUE) /\ op' = NoOp /\ UNCHANGED faults
     \/ proc = 0 /\ op' = [op EXCEPT !.at = "back"] /\ UNCHANGED <<cfg, faults>>
     \/ Fault /\ op' = [op EXCEPT !.at = "back"] /\ UNCHANGED cfg
  /\ UNCHANGED <<user, row, node, cleanup, secrets, history>>

\* Whatever comes of the disable call, the route ends in an error. A node that
\* failed the verification may fail this call with it.
DisableAgain ==
  /\ op.at = "back" /\ Free /\ op' = NoOp
  /\ \/ DisableListener
     \/ UNCHANGED <<proc, opened>>
  /\ UNCHANGED <<panel, disk, record, helper, cleanup, secrets, faults, history>>

\* All credentials of the node go off with it, in the panel.
ConfigureOff ==
  /\ ~Serving /\ Free /\ (cfg.setting = 0 \/ cfg.enabled)
  /\ \E s \in Setting :
     \/ /\ DisableListener /\ UpsertConfig(s, FALSE)
        /\ row' = [row EXCEPT !.enabled = FALSE]
        /\ UNCHANGED faults
     \/ Fault /\ DisableListener /\ UNCHANGED <<cfg, row>>
     \/ Fault /\ UNCHANGED <<proc, opened, cfg, row>>
  /\ UNCHANGED <<user, disk, record, helper, op, cleanup, secrets, history>>

----------------------------------------------------------------------------
(* The credential of the user on the node.                                 *)

\* The guards of a new password and of switching one on, and the answer the
\* node gives to a status request.
Eligible == user.exists /\ user.active /\ user.assigned /\ Shown
Healthy == Free /\ proc # 0

PushBegins == /\ owed' = FALSE
              /\ cleanup' = IF cleanup.at = "nodes" THEN [cleanup EXCEPT !.late = TRUE] ELSE cleanup

Rotate ==
  /\ ~Serving /\ Eligible /\ Healthy /\ secrets < MaxSecret
  /\ secrets' = secrets + 1
  /\ op' = [NoOp EXCEPT !.kind = "rotate", !.at = "push", !.name = user.name, !.secret = secrets + 1]
  /\ PushBegins
  /\ UNCHANGED <<panel, node, faults, sure, told>>

SwitchOn ==
  /\ ~Serving /\ Eligible /\ Healthy /\ row.secret # 0
  /\ op' = [NoOp EXCEPT !.kind = "switch", !.at = "push", !.name = user.name, !.secret = row.secret]
  /\ PushBegins
  /\ UNCHANGED <<panel, node, secrets, faults, sure, told>>

\* Switching off asks nothing of the listener's health.
SwitchOff ==
  /\ ~Serving /\ user.exists /\ user.assigned /\ row.secret # 0 /\ Free
  /\ \/ CredentialRevoke(user.name) /\ row' = [row EXCEPT !.enabled = FALSE] /\ sure' = TRUE /\ UNCHANGED faults
     \/ Fault /\ sure' = FALSE /\ CredentialRevoke(user.name) /\ UNCHANGED row
     \/ Fault /\ sure' = FALSE /\ UNCHANGED <<record, row>>
  /\ UNCHANGED <<user, cfg, disk, proc, opened, helper, op, cleanup, secrets, owed, told>>

\* Wrong: a call that did not arrive counts as one that did.
PushUnheard ==
  /\ op.at = "push" /\ Free
  /\ op' = [op EXCEPT !.at = "persist"]
  /\ \/ CredentialSet(op.name, op.secret) /\ UNCHANGED faults
     \/ Fault /\ UNCHANGED record
  /\ UNCHANGED <<panel, disk, proc, opened, helper, cleanup, secrets, history>>

Push ==
  /\ op.at = "push" /\ Free
  /\ \/ CredentialSet(op.name, op.secret) /\ op' = [op EXCEPT !.at = "persist"] /\ UNCHANGED <<faults, sure>>
     \/ Fault /\ CredentialSet(op.name, op.secret) /\ NotOk
     \/ Fault /\ UNCHANGED record /\ NotOk
  /\ UNCHANGED <<panel, disk, proc, opened, helper, cleanup, secrets, owed, told>>

PersistCredential ==
  /\ op.at = "persist"
  /\ row' = [secret |-> op.secret, enabled |-> TRUE]
  /\ op' = NoOp /\ sure' = (op.name = user.name) /\ told' = TRUE
  /\ UNCHANGED <<user, cfg, node, cleanup, secrets, faults, owed>>

\* A rotation that cannot be stored takes the credential back, or fails to.
PersistFails ==
  /\ op.at = "persist" /\ Fault
  /\ IF op.kind = "rotate" THEN op' = [op EXCEPT !.at = "takeback"] ELSE op' = NoOp
  /\ sure' = FALSE
  /\ UNCHANGED <<panel, node, cleanup, secrets, owed, told>>

TakeBack ==
  /\ op.at = "takeback" /\ Free /\ op' = NoOp
  /\ CredentialRevoke(op.name) \/ UNCHANGED record
  /\ UNCHANGED <<panel, disk, proc, opened, helper, cleanup, secrets, faults, history>>

----------------------------------------------------------------------------
(* What happens to the user, and the clean-up.                             *)

\* Wrong: a credential that is off in the panel is not revoked on the node.
DisableEnabledOnly(gone) ==
  /\ row' = [row EXCEPT !.enabled = FALSE]
  /\ IF ~row.enabled THEN UNCHANGED cleanup
     ELSE cleanup' = [NoCleanup EXCEPT !.at = "send", !.name = user.name]
  /\ user' = gone
  /\ owed' = (op.kind \in {"rotate", "switch"})

\* The credential goes off in the panel and then, from a thread, on the node.
DisableBestEffort(gone) ==
  /\ row' = [row EXCEPT !.enabled = FALSE]
  /\ IF row.secret = 0 THEN UNCHANGED cleanup
     ELSE cleanup' = [NoCleanup EXCEPT !.at = "send", !.name = user.name]
  /\ user' = gone
  /\ owed' = (op.kind \in {"rotate", "switch"})

\* The panel's own deactivation and the usage sync's end the same way.
Deactivate ==
  /\ cleanup.at = "none" /\ user.exists /\ user.active
  /\ DisableBestEffort([user EXCEPT !.active = FALSE])
  /\ UNCHANGED <<cfg, node, op, secrets, faults, sure, told>>

Unassign ==
  /\ cleanup.at = "none" /\ ~Serving /\ user.exists /\ user.assigned
  /\ DisableBestEffort([user EXCEPT !.assigned = FALSE])
  /\ UNCHANGED <<cfg, node, op, secrets, faults, sure, told>>

Return ==
  /\ cleanup.at = "none" /\ ~Serving /\ user.exists /\ ~(user.active /\ user.assigned)
  /\ user' = [user EXCEPT !.active = TRUE, !.assigned = TRUE]
  /\ UNCHANGED <<cfg, row, node, op, cleanup, secrets, faults, history>>

\* A rename leaves row and node as they are: the credential is bound to the
\* common name that is revoked.
Rename ==
  /\ cleanup.at = "none" /\ user.exists /\ user.name < MaxName
  /\ user' = [user EXCEPT !.name = @ + 1]
  /\ sure' = FALSE
  /\ UNCHANGED <<cfg, row, node, op, cleanup, secrets, faults, owed, told>>

\* The rows to clean up are read before the nodes are asked to delete.
SnapshotForDeletion ==
  /\ cleanup.at = "none" /\ ~Serving /\ user.exists
  /\ cleanup' = [NoCleanup EXCEPT !.at = "nodes", !.name = user.name, !.had = (row.secret # 0)]
  /\ UNCHANGED <<panel, node, op, secrets, faults, history>>

DeleteUser ==
  /\ cleanup.at = "nodes" /\ ~Serving
  /\ user' = [user EXCEPT !.exists = FALSE]
  /\ row' = NoRow
  /\ cleanup' = IF cleanup.had THEN [NoCleanup EXCEPT !.at = "send", !.name = cleanup.name] ELSE NoCleanup
  /\ owed' = cleanup.late
  /\ UNCHANGED <<cfg, node, op, secrets, faults, sure, told>>

\* The thread's call; a failure is told, and nobody tries again.
RevokeFromThread ==
  /\ cleanup.at = "send" /\ Free
  /\ cleanup' = NoCleanup
  /\ \/ CredentialRevoke(cleanup.name) /\ UNCHANGED <<faults, owed>>
     \/ Fault /\ owed' = TRUE /\ CredentialRevoke(cleanup.name)
     \/ Fault /\ owed' = TRUE /\ UNCHANGED record
  /\ UNCHANGED <<panel, disk, proc, opened, helper, op, secrets, sure, told>>

PanelCrashes ==
  /\ Fault /\ NotOk
  /\ cleanup' = NoCleanup
  /\ owed' = (owed \/ cleanup.at = "send")
  /\ UNCHANGED <<panel, node, secrets, told>>

----------------------------------------------------------------------------
NodeStep == \/ WriteSecondaryConfig \/ FirewallApply \/ StartListener
            \/ RestoreSecondary \/ HelperTimeout \/ NodeReboots
PanelStep == \/ PreflightAnswer \/ EnableListener \/ EnableUnheard \/ VerifyEnabled \/ DisableAgain
             \/ Push \/ PersistCredential \/ PersistFails \/ TakeBack
             \/ DeleteUser \/ RevokeFromThread
Request == \/ \E s \in Setting : ConfigureOn(s)
           \/ ConfigureOff \/ Rotate \/ SwitchOn \/ SwitchOff
           \/ Deactivate \/ Unassign \/ Return \/ Rename \/ SnapshotForDeletion
Next == NodeStep \/ PanelStep \/ Request \/ PanelCrashes

Spec == Init /\ [][Next]_vars

\* What was begun goes on, and an operator who sees the listener down tells
\* the panel again to run it.
EnableAgain == Shown /\ proc = 0 /\ ConfigureOn(cfg.setting)
FairSpec == /\ Spec /\ SF_vars(EnableAgain)
            /\ WF_vars(PanelStep) /\ WF_vars(WriteSecondaryConfig \/ FirewallApply \/ StartListener)
----------------------------------------------------------------------------
Quiet == ~Serving /\ cleanup.at = "none" /\ Free

(* A credential shown as enabled is the one the node accepts, under the    *)
(* user's common name, if the last operation on it said it was done and no *)
(* clean-up went on at the same time.                                      *)
EnabledIsAccepted ==
  Quiet /\ sure /\ ~owed /\ row.enabled => record = [name |-> user.name, secret |-> row.secret]

(* Once a deactivation, a removed assignment or a deletion has reported    *)
(* its clean-up done, the node accepts no password under the user's name   *)
(* that anybody was given, unless one was pushed meanwhile by a request    *)
(* that had looked at the user before.                                     *)
ClosedWhenTold ==
  Quiet /\ ~(user.exists /\ user.active /\ user.assigned) /\ ~owed /\ told
    => record.name # user.name

(* A listener that is down and shown as enabled runs again.                *)
RepairEnds == Shown /\ proc = 0 ~> (proc # 0 \/ ~Shown)
=============================================================================
