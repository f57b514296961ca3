--------------------------- MODULE RenameContract ---------------------------
(***************************************************************************)
(* What a rename promises about the old identity, with the stages, the     *)
(* retries and the crashes of the job left out: until the switch the job   *)
(* may take the old identity away and give it back; at the switch it goes  *)
(* one way only; and the rename is done when nothing of it is left.        *)
(***************************************************************************)
CONSTANT Node

VARIABLES
  phase,   \* "open", then "aborted", or "switched" and then how it ended
  usable   \* the nodes on which the job still leaves the old identity

Phase == {"open", "aborted", "switched", "done", "abandoned"}

Init == phase = "open" /\ usable = {}

Prepare == phase = "open" /\ usable' \in SUBSET Node /\ UNCHANGED phase

Abort == phase = "open" /\ phase' = "aborted" /\ UNCHANGED usable

Switch == phase = "open" /\ phase' = "switched" /\ UNCHANGED usable

\* Others may take a node out of the job's hands at any time.
Retire == phase # "open" /\ usable' \subseteq usable /\ UNCHANGED phase

Finish ==
  phase = "switched" /\ usable = {} /\ phase' = "done" /\ UNCHANGED usable

\* The clean-up is given up with whatever is left of the old identity.
Abandon == phase = "switched" /\ phase' = "abandoned" /\ UNCHANGED usable

Next == Prepare \/ Abort \/ Switch \/ Retire \/ Finish \/ Abandon

Spec == Init /\ [][Next]_<<phase, usable>>
=============================================================================
