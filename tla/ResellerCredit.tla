--------------------------- MODULE ResellerCredit ---------------------------
(***************************************************************************)
(* The entitlements of a reseller: how much traffic (quota) and how many   *)
(* unlimited accounts (slots) may be allocated to users, and what is paid  *)
(* for them. Every charge and refund reads the reseller's row FOR UPDATE   *)
(* and is committed with the change of the user it is for. The database is *)
(* PostgreSQL, which keeps that row for its reader; SQLite does not, and   *)
(* what is lost there is not in this module.                               *)
(*                                                                         *)
(* All requests are served on one event loop. A request that waits for     *)
(* nodes lets others run; one that waits for a row of the database does    *)
(* not: if the holder of the row waits for nodes, the panel is stuck until *)
(* somebody starts it again. While a reseller's request waits for nodes    *)
(* its user may be edited, deleted and created again: the integration      *)
(* takes no lifecycle lock, and a lock may run out. One such request waits *)
(* per user. What a request does on the nodes is UserFleet's, its usage    *)
(* UsageAccounting's; here a total of 0 is an unlimited account.           *)
(***************************************************************************)
EXTENDS Integers, FiniteSets

CONSTANTS User,      \* names of users
          Quota,     \* traffic a reseller may be given
          Slots,     \* unlimited accounts a reseller may be given
          MaxTotal,  \* bound on a user's total
          MaxUsed,   \* bound on the traffic a user has used
          MaxGrants  \* bound on what is changed unpaid

VARIABLES admin,  \* the reseller: here, active, quota, used, slots, slotsUsed
          acct,   \* the users: owner ("none" if not there), total, used
          req,    \* a user's request that waits for nodes, and what it read
          purge,  \* users the deletion of the reseller is removing from nodes
          row,    \* who holds the reseller's row while it waits
          loop,   \* the event loop runs or is stuck
          given   \* history: allocated to the reseller's users and not paid

vars == <<admin, acct, req, purge, row, loop, given>>

Total == 0..MaxTotal
NoAdmin == [here |-> FALSE, active |-> FALSE, quota |-> 0, used |-> 0, slots |-> 0, slotsUsed |-> 0]
NoAccount == [owner |-> "none", total |-> 0, used |-> 0]
NoRequest == [at |-> "none", total |-> 0, used |-> 0]
Nobody == "nobody"

Init == /\ admin = NoAdmin
        /\ acct = [u \in User |-> NoAccount]
        /\ req = [u \in User |-> NoRequest]
        /\ purge = {} /\ row = Nobody /\ loop = "runs" /\ given = 0

----------------------------------------------------------------------------
LoggedIn == admin.here /\ admin.active
Owned(u) == acct[u].owner = "reseller"
Idle(u) == req[u] = NoRequest
Runs == loop = "runs"

\* The totals of the reseller's users, counted unit by unit.
Allocated(a) ==
  Cardinality({p \in User \X (1..MaxTotal) : a[p[1]].owner = "reseller" /\ p[2] <= a[p[1]].total})
\* The rest of a total is given back, what was used is not.
Refundable(total, used) == IF used < total THEN total - used ELSE 0

\* A request that needs the reseller's row goes on, or stops the loop.
WithRow(step) ==
  /\ Runs
  /\ \/ row = Nobody /\ step /\ UNCHANGED loop
     \/ /\ row # Nobody /\ loop' = "stuck"
        /\ UNCHANGED <<admin, acct, req, purge, row, given>>

MayChange(traffic, slots) ==
  /\ LoggedIn
  /\ admin.used + traffic \in 0..admin.quota
  /\ admin.slotsUsed + slots \in 0..admin.slots
ChangeEntitlements(traffic, slots) ==
  admin' = [admin EXCEPT !.used = @ + traffic, !.slotsUsed = @ + slots]

----------------------------------------------------------------------------
(* The reseller's requests.                                                *)

CreateUser(u, t) ==
  /\ LoggedIn /\ acct[u] = NoAccount
  /\ LET slots == IF t = 0 THEN 1 ELSE 0
     IN WithRow(/\ MayChange(t, slots) /\ ChangeEntitlements(t, slots)
                /\ acct' = [acct EXCEPT ![u] = [owner |-> "reseller", total |-> t, used |-> 0]]
                /\ UNCHANGED <<req, purge, row, given>>)

\* What a change of the total costs: an unlimited account is never refunded.
TrafficDelta(a, t) == CASE a.total > 0 /\ t > 0 -> t - a.total
                        [] a.total > 0 /\ t = 0 -> -Refundable(a.total, a.used)
                        [] OTHER -> t

UpdateUser(u, t) ==
  /\ LoggedIn /\ Owned(u)
  /\ LET traffic == TrafficDelta(acct[u], t)
         slots == IF acct[u].total > 0 /\ t = 0 THEN 1 ELSE 0
     IN WithRow(/\ MayChange(traffic, slots) /\ ChangeEntitlements(traffic, slots)
                /\ acct' = [acct EXCEPT ![u].total = t]
                /\ UNCHANGED <<req, purge, row, given>>)

RenewAdding(u, t) ==
  /\ LoggedIn /\ Owned(u) /\ acct[u].total > 0
  /\ acct[u].total + t \in Total /\ acct[u].used < acct[u].total + t
  /\ WithRow(/\ MayChange(t, 0) /\ ChangeEntitlements(t, 0)
             /\ acct' = [acct EXCEPT ![u].total = @ + t]
             /\ UNCHANGED <<req, purge, row, given>>)

\* A reset is charged the whole total. The charge is not yet written when
\* the nodes are asked for their counters, but the row is held; the total
\* that was read is then written back.
RenewResetting(u) ==
  /\ LoggedIn /\ Owned(u) /\ Idle(u) /\ acct[u].total > 0
  /\ WithRow(/\ MayChange(acct[u].total, 0) /\ row' = u
             /\ req' = [req EXCEPT ![u] = [at |-> "reset", total |-> acct[u].total, used |-> acct[u].used]]
             /\ UNCHANGED <<admin, acct, purge, given>>)

ResetUsage(u) ==
  /\ Runs /\ req[u].at = "reset" /\ acct[u] # NoAccount
  /\ ChangeEntitlements(req[u].total, 0)
  /\ acct' = [acct EXCEPT ![u].total = req[u].total, ![u].used = 0]
  /\ req' = [req EXCEPT ![u] = NoRequest] /\ row' = Nobody
  /\ UNCHANGED <<purge, loop, given>>

\* A node that cannot be read undoes the charge, as does a user that is gone;
\* the charge stays if there was no usage of that user to reset.
ResetFails(u) ==
  /\ Runs /\ req[u].at = "reset"
  /\ \/ UNCHANGED admin
     \/ acct[u] = NoAccount /\ req[u].used = 0 /\ ChangeEntitlements(req[u].total, 0)
  /\ req' = [req EXCEPT ![u] = NoRequest] /\ row' = Nobody
  /\ UNCHANGED <<acct, purge, loop, given>>

\* Wrong: the refund is asked for before the nodes are.
DeleteHoldingRow(u) ==
  /\ LoggedIn /\ Owned(u) /\ Idle(u) /\ acct[u].total > 0
  /\ WithRow(/\ row' = u
             /\ req' = [req EXCEPT ![u] = [at |-> "delete", total |-> acct[u].total, used |-> acct[u].used]]
             /\ UNCHANGED <<admin, acct, purge, given>>)

\* The nodes are asked first; the refund is computed from what was read then.
DeleteFromNodes(u) ==
  /\ Runs /\ LoggedIn /\ Owned(u) /\ Idle(u) /\ acct[u].total > 0
  /\ req' = [req EXCEPT ![u] = [at |-> "delete", total |-> acct[u].total, used |-> acct[u].used]]
  /\ UNCHANGED <<admin, acct, purge, row, loop, given>>

Refunded(u) == -Refundable(req[u].total, req[u].used)
\* By how much the total that was read exceeds what is there now: that was
\* taken away meanwhile, and comes back with the refund.
Returned(u) == /\ given' = given + req[u].total - IF Owned(u) THEN acct[u].total ELSE 0
               /\ given' \in -MaxGrants..MaxGrants

\* Wrong: a user that cannot be deleted is refunded all the same.
DeleteRefunding(u) ==
  /\ req[u].at = "delete"
  /\ WithRow(/\ IF MayChange(Refunded(u), 0)
                THEN /\ ChangeEntitlements(Refunded(u), 0) /\ Returned(u)
                     /\ acct' \in {acct, [acct EXCEPT ![u] = NoAccount]}
                ELSE UNCHANGED <<admin, acct, given>>
             /\ req' = [req EXCEPT ![u] = NoRequest]
             /\ UNCHANGED <<purge, row>>)

\* Refund and deletion, by name, are one commit. A reseller who is disabled by
\* now, or a refund that does not fit, ends in an error: the user stays, its
\* identities are gone.
DeleteUser(u) ==
  /\ req[u].at = "delete"
  /\ WithRow(/\ IF MayChange(Refunded(u), 0) /\ acct[u] # NoAccount
                THEN /\ ChangeEntitlements(Refunded(u), 0) /\ Returned(u)
                     /\ acct' = [acct EXCEPT ![u] = NoAccount]
                ELSE UNCHANGED <<admin, acct, given>>
             /\ req' = [req EXCEPT ![u] = NoRequest]
             /\ UNCHANGED <<purge, row>>)

----------------------------------------------------------------------------
(* The main administrator, the integration, the usage job, and a panel     *)
(* started again.                                                          *)

\* Users left over from a reseller of the same name are allocated and not
\* paid.
CreateAdmin(q, s) ==
  /\ Runs /\ ~admin.here
  /\ admin' = [here |-> TRUE, active |-> TRUE, quota |-> q, used |-> 0, slots |-> s, slotsUsed |-> 0]
  /\ given' = Allocated(acct)
  /\ UNCHANGED <<acct, req, purge, row, loop>>

UpdateAdmin(q, s, on) ==
  /\ admin.here /\ q >= admin.used /\ s >= admin.slotsUsed
  /\ WithRow(/\ admin' = [admin EXCEPT !.quota = q, !.slots = s, !.active = on]
             /\ UNCHANGED <<acct, req, purge, row, given>>)

\* The main administrator's changes of a reseller's user cost nothing, nor
\* do the integration's, which come at any time: they are given, or taken.
Given == /\ given' = given + Allocated(acct') - Allocated(acct)
         /\ given' \in -MaxGrants..MaxGrants

EditByMain(u, t) ==
  /\ Runs /\ acct[u] # NoAccount
  /\ acct' = [acct EXCEPT ![u].total = t] /\ Given
  /\ UNCHANGED <<admin, req, purge, row, loop>>

ResetByMain(u) ==
  /\ Runs /\ acct[u] # NoAccount
  /\ acct' = [acct EXCEPT ![u].used = 0]
  /\ UNCHANGED <<admin, req, purge, row, loop, given>>

DeleteByMain(u) ==
  /\ Runs /\ acct[u] # NoAccount
  /\ acct' = [acct EXCEPT ![u] = NoAccount] /\ Given
  /\ UNCHANGED <<admin, req, purge, row, loop>>

DeleteAdminAlone ==
  /\ admin.here /\ \A u \in User : ~Owned(u)
  /\ WithRow(admin' = NoAdmin /\ UNCHANGED <<acct, req, purge, row, given>>)

TransferUsers ==
  /\ admin.here
  /\ WithRow(/\ admin' = NoAdmin
             /\ acct' = [u \in User |-> IF Owned(u) THEN [acct[u] EXCEPT !.owner = "owner"] ELSE acct[u]]
             /\ UNCHANGED <<req, purge, row, given>>)

\* Who is to go is read before the nodes are asked, without any lock.
PurgeFromNodes ==
  /\ Runs /\ admin.here /\ purge = {} /\ \E u \in User : Owned(u)
  /\ purge' = {u \in User : Owned(u)}
  /\ UNCHANGED <<admin, acct, req, row, loop, given>>

PurgeUsers ==
  /\ purge # {}
  /\ WithRow(/\ acct' = [u \in User |-> IF u \in purge THEN NoAccount ELSE acct[u]]
             /\ admin' = NoAdmin /\ purge' = {}
             /\ UNCHANGED <<req, row, given>>)

UsageSync(u) ==
  /\ acct[u] # NoAccount /\ acct[u].used < MaxUsed
  /\ acct' = [acct EXCEPT ![u].used = @ + 1]
  /\ UNCHANGED <<admin, req, purge, row, loop, given>>

\* What was not committed is undone.
PanelRestarts ==
  /\ loop = "stuck" \/ purge # {} \/ \E u \in User : ~Idle(u)
  /\ loop' = "runs" /\ row' = Nobody /\ purge' = {}
  /\ req' = [u \in User |-> NoRequest]
  /\ UNCHANGED <<admin, acct, given>>

----------------------------------------------------------------------------
Next == \/ \E u \in User : \/ \E t \in Total : CreateUser(u, t) \/ UpdateUser(u, t) \/ EditByMain(u, t)
                           \/ \E t \in Total \ {0} : RenewAdding(u, t)
                           \/ RenewResetting(u) \/ ResetUsage(u) \/ ResetFails(u)
                           \/ DeleteFromNodes(u) \/ DeleteUser(u)
                           \/ ResetByMain(u) \/ DeleteByMain(u) \/ UsageSync(u)
        \/ \E q \in Quota, s \in Slots : CreateAdmin(q, s) \/ \E on \in BOOLEAN : UpdateAdmin(q, s, on)
        \/ DeleteAdminAlone \/ TransferUsers \/ PurgeFromNodes \/ PurgeUsers
        \/ PanelRestarts

Spec == Init /\ [][Next]_vars
----------------------------------------------------------------------------
(* What the reseller has paid, and what it was given less what was taken    *)
(* from it, covers the totals of all its users: no order of requests,       *)
(* refusals and restarts, with edits and deletions of the integration in    *)
(* between, refunds more than it takes from an account, or allocates what   *)
(* is not charged. A deletion refunds the total it has read, so what was    *)
(* taken away from the user since then comes back with it.                  *)
AllocationCovered == admin.here => admin.used + given >= Allocated(acct)

(* The panel is stuck only behind a renewal that resets usage: no other     *)
(* request holds the reseller's row while it waits for nodes.               *)
StuckBehindReset == loop = "stuck" => \E u \in User : row = u /\ req[u].at = "reset"
=============================================================================
