--------------------------- MODULE MCPanelServices ---------------------------
(* Four parts of the panel that share no state with each other, checked side  *)
(* by side: a behaviour is one of the router listener, of an AnyConnect       *)
(* credential, of a reseller's entitlements or of the host's backups, and the *)
(* others stay as they began.                                                 *)
EXTENDS RouterOpenVpn, FiniteSets

CONSTANTS Secret, Key,                               \* AnyConnect
          User, Quota, Slots, MaxTotal, MaxUsed, MaxGrants,   \* a reseller
          MaxBackup, Checkpoints, MaxHurt            \* the backups

ASSUME ResellerAssumption ==
  /\ IsFiniteSet(User) /\ Quota \subseteq Nat /\ Slots \subseteq Nat
  /\ MaxTotal \in Nat /\ MaxUsed \in Nat /\ MaxGrants \in Nat

ASSUME BackupAssumption == MaxBackup \in Nat

VARIABLES part,                                                    \* what is looked at
          exists, served, default, cred, key, login, session,      \* AnyConnect
          admin, acct, req, purge, adminRow, loop, given,          \* a reseller
          postgres, made, dirs, clones, journal, last, task,       \* the backups
          removed, stray, hurt

AnyConnect == INSTANCE AnyConnect
Reseller   == INSTANCE ResellerCredit WITH row <- adminRow
Backups    == INSTANCE PanelBackups

router     == vars
anyconnect == <<exists, served, default, cred, key, login, session>>
reseller   == <<admin, acct, req, purge, adminRow, loop, given>>
backups    == <<postgres, made, dirs, clones, journal, last, task, removed, stray, hurt>>

Begins ==
  /\ Init /\ AnyConnect!Init /\ Reseller!Init /\ Backups!Init
  /\ part \in {"router", "anyconnect", "reseller", "backups"}
  /\ part # "anyconnect" => ~default /\ cred = AnyConnect!NoCred /\ key = AnyConnect!None
  /\ part # "backups" => ~postgres

RouterSteps     == part = "router" /\ Next /\ UNCHANGED <<part, anyconnect, reseller, backups>>
AnyConnectSteps == part = "anyconnect" /\ AnyConnect!Next /\ UNCHANGED <<part, router, reseller, backups>>
ResellerSteps   == part = "reseller" /\ Reseller!Next /\ UNCHANGED <<part, router, anyconnect, backups>>
BackupSteps     == part = "backups" /\ Backups!Next /\ UNCHANGED <<part, router, anyconnect, reseller>>

ServiceSteps == RouterSteps \/ AnyConnectSteps \/ ResellerSteps \/ BackupSteps

\* The fairness of FairSpec; none of it is enabled before the listener is
\* asked for, so it asks nothing of the other parts.
Fairness ==
  /\ SF_router(EnableAgain)
  /\ WF_router(PanelStep)
  /\ WF_router(WriteSecondaryConfig \/ FirewallApply \/ StartListener)

Services ==
  /\ Begins
  /\ [][ServiceSteps]_<<part, router, anyconnect, reseller, backups>>
  /\ Fairness

(* AnyConnect: the passwords the panel shows are the ones that work.          *)
ShownWorks        == AnyConnect!ShownWorks
(* ResellerCredit: what is allocated has been paid or given.                  *)
AllocationCovered == Reseller!AllocationCovered
(* ResellerCredit: only a renewal that resets usage can leave the panel stuck.*)
StuckBehindReset  == Reseller!StuckBehindReset
(* PanelBackups: what recovery needs is there.                                *)
RecoveryFinds     == Backups!RecoveryFinds
=============================================================================
