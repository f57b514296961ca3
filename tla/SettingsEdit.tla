----------------------------- MODULE SettingsEdit -----------------------------
(***************************************************************************)
(* What an edit of a node's VPN settings promises, apart from journals,    *)
(* messages and crashes: the panel's row and the node's files change both  *)
(* or not at all.                                                          *)
(***************************************************************************)
CONSTANT Job        \* the edits

VARIABLES panel,    \* panel[j]: "open", "committed", "aborted", or "overtaken":
                    \* the row was changed by another edit before this one ended
          node      \* node[j]: the node's part: "working", "ready", "applied", "undone"

vars == <<panel, node>>

Init ==
    /\ panel = [j \in Job |-> "open"]
    /\ node = [j \in Job |-> "working"]

\* The node has switched to the new settings and keeps the old ones at hand.
Ready(j) ==
    /\ node[j] = "working"
    /\ node' = [node EXCEPT ![j] = "ready"]
    /\ UNCHANGED panel

\* A commit may overtake the edits S.
Commit(j, S) ==
    /\ panel[j] = "open"
    /\ node[j] \notin {"undone", "applied"}
    /\ j \notin S
    /\ panel' = [k \in Job |-> IF k \in S THEN "overtaken"
                              ELSE IF k = j THEN "committed" ELSE panel[k]]
    /\ node' = [k \in Job |-> IF k \in S THEN "working" ELSE node[k]]

\* A panel that dies gives up all its edits at once.
Abort(S) ==
    /\ \A j \in S : panel[j] = "open"
    /\ panel' = [j \in Job |-> IF j \in S THEN "aborted" ELSE panel[j]]
    /\ UNCHANGED node

Apply(j) ==
    /\ node[j] = "ready"
    /\ panel[j] = "committed"
    /\ node' = [node EXCEPT ![j] = "applied"]
    /\ UNCHANGED panel

\* A node that has never been ready may give up by itself.
Undo(j) ==
    /\ \/ node[j] = "working" /\ panel[j] # "committed"
       \/ node[j] = "ready" /\ panel[j] = "aborted"
    /\ node' = [node EXCEPT ![j] = "undone"]
    /\ UNCHANGED panel

\* An edit that is overtaken is promised nothing.
Overtake(S) ==
    /\ panel' = [j \in Job |-> IF j \in S THEN "overtaken" ELSE panel[j]]
    /\ node' = [j \in Job |-> IF j \in S THEN "working" ELSE node[j]]

Next ==
    \/ \E j \in Job : Ready(j) \/ Apply(j) \/ Undo(j)
    \/ \E S \in SUBSET Job : Abort(S) \/ Overtake(S) \/ \E j \in Job : Commit(j, S)

Spec == Init /\ [][Next]_vars
===============================================================================
