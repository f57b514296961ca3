----------------------------- MODULE AnyConnect -----------------------------
(***************************************************************************)
(* The AnyConnect credential of one user: the row that logins are checked  *)
(* against holds a hash of the password, and the password itself under a   *)
(* key that lives in a file of the host, to be shown again.                *)
(*                                                                         *)
(* Every route works to its end on the panel's one event loop and commits  *)
(* once, so a route is one step. The key file is the administrator's: it   *)
(* may be missing, come back or be another. Between the answer to a login  *)
(* and the session that the gateway then asks for, anything may happen.    *)
(***************************************************************************)
EXTENDS Naturals

CONSTANTS Secret,   \* passwords, chosen by an administrator or generated
          Key       \* keys the file may hold, numbers from 1; 0 is no key

VARIABLES exists,   \* the user is there
          served,   \* active, not expired, not exhausted, assigned to the node
          default,  \* AnyConnectSettings.default_enabled
          cred,     \* the row of anyconnect_credentials
          key,      \* the key in the file
          login,    \* a login that was accepted and has no session yet
          session   \* the gateway's row in active_sessions

account == <<exists, served>>
vars == <<account, default, cred, key, login, session>>

None == 0
NoCred == [has |-> FALSE, hash |-> None, cipher |-> None, under |-> None, enabled |-> FALSE]

\* A row from before passwords were kept has a hash only.
Legacy(s, on) == [NoCred EXCEPT !.has = TRUE, !.hash = s, !.enabled = on]

Init == /\ exists = TRUE /\ served = TRUE /\ default \in BOOLEAN
        /\ cred \in {NoCred} \cup {Legacy(s, on) : s \in Secret, on \in BOOLEAN}
        /\ key \in {None} \cup Key
        /\ login = FALSE /\ session = FALSE

----------------------------------------------------------------------------
(* Passwords.                                                              *)

EncryptPassword(s) == key # None
DecryptPassword(row) == IF key # None /\ row.under = key THEN row.cipher ELSE None
VerifyPassword(s, row) == row.hash = s

\* Wrong: a row that is there gets its new hash only.
ProvisionHash(s, on, keep) ==
  /\ EncryptPassword(s)
  /\ cred' = IF cred.has THEN [cred EXCEPT !.hash = s, !.enabled = IF keep THEN @ ELSE on]
             ELSE [has |-> TRUE, hash |-> s, cipher |-> s, under |-> key, enabled |-> on]

\* Without a key nothing is stored. What an upsert writes is hash, password
\* and switch together.
Provision(s, on, keep) ==
  /\ EncryptPassword(s)
  /\ cred' = [has |-> TRUE, hash |-> s, cipher |-> s, under |-> key,
              enabled |-> IF keep /\ cred.has THEN cred.enabled ELSE on]

ResolveEnabled(requested) == IF requested = "default" THEN default ELSE requested = "on"

\* A user is created with its credential or, if that fails, not at all.
CreateUser(requested) ==
  /\ ~exists /\ exists' = TRUE /\ served' = TRUE
  /\ IF ResolveEnabled(requested) THEN \E s \in Secret : Provision(s, TRUE, FALSE)
     ELSE UNCHANGED cred
  /\ UNCHANGED <<default, key, login, session>>

\* The rows of the user go with it.
DeleteUser ==
  /\ exists /\ exists' = FALSE /\ served' = FALSE
  /\ cred' = NoCred /\ session' = FALSE
  /\ UNCHANGED <<default, key, login>>

UpdateSettings(on) ==
  /\ default' = on
  /\ UNCHANGED <<account, cred, key, login, session>>

RotatePassword(s) ==
  /\ exists /\ Provision(s, TRUE, TRUE)
  /\ UNCHANGED <<account, default, key, login, session>>

\* Switching on keeps a password that is stored, readable or not.
SwitchOn ==
  /\ exists
  /\ IF cred.cipher = None THEN \E s \in Secret : Provision(s, TRUE, FALSE)
     ELSE cred' = [cred EXCEPT !.enabled = TRUE]
  /\ UNCHANGED <<account, default, key, login, session>>

ReleaseSessions == session' = FALSE

\* Gateways on this host are told to disconnect, which may fail.
SwitchOff ==
  /\ exists
  /\ cred' = [cred EXCEPT !.enabled = FALSE]
  /\ ReleaseSessions
  /\ UNCHANGED <<account, default, key, login>>

----------------------------------------------------------------------------
(* What is shown, and who gets in.                                         *)

Revealed == DecryptPassword(cred)
Subscription == IF exists /\ cred.has /\ cred.enabled THEN DecryptPassword(cred) ELSE None

Accepted(s) == exists /\ served /\ cred.has /\ cred.enabled /\ VerifyPassword(s, cred)

Authenticate(s) ==
  /\ Accepted(s) /\ ~login /\ login' = TRUE
  /\ UNCHANGED <<account, default, cred, key, session>>

\* The gateway's request for a session does not name the credential.
Acquire ==
  /\ login /\ login' = FALSE
  /\ session' = (session \/ served)
  /\ UNCHANGED <<account, default, cred, key>>

Leave ==
  /\ session /\ session' = FALSE
  /\ UNCHANGED <<account, default, cred, key, login>>

\* The rest of the panel, and the administrator of the host.
Served == /\ exists /\ served' = ~served
          /\ UNCHANGED <<exists, default, cred, key, login, session>>
KeyFile(k) == /\ key' = k
              /\ UNCHANGED <<account, default, cred, login, session>>

Next == \/ \E r \in {"default", "on", "off"} : CreateUser(r)
        \/ \E on \in BOOLEAN : UpdateSettings(on)
        \/ \E s \in Secret : RotatePassword(s) \/ Authenticate(s)
        \/ DeleteUser \/ SwitchOn \/ SwitchOff \/ Acquire \/ Leave \/ Served
        \/ \E k \in {None} \cup Key : KeyFile(k)

Spec == Init /\ [][Next]_vars
----------------------------------------------------------------------------
(* Every password the panel shows is the one a login is accepted with, and *)
(* the subscription of a served user shows none that is refused, whatever  *)
(* became of the key in between.                                           *)
ShownWorks ==
  /\ Revealed # None => Revealed = cred.hash
  /\ served /\ Subscription # None => Accepted(Subscription)
=============================================================================
