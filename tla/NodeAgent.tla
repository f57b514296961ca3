----------------------------- MODULE NodeAgent -----------------------------
(***************************************************************************)
(* What a node agent does to one OpenVPN identity (one Common Name) when   *)
(* the panel calls it, and what the panel learns from the reply.           *)
(*                                                                         *)
(* An identity is its certificate and its client-config-dir entry:         *)
(*   cert = "valid"  a V line of the easy-rsa index                        *)
(*   cert = "stale"  revoked in the index, but the CRL the server reads    *)
(*                   has not been replaced yet                             *)
(*   cert = "none"   no certificate, or one the server refuses             *)
(*   ccd             the CCD file exists; the server runs ccd-exclusive,   *)
(*                   so a client without it cannot authenticate            *)
(* The profile file is not tracked: it is written with the certificate and *)
(* removed by every delete.                                                *)
(*                                                                         *)
(* A reply is a record: the identity the call leaves behind and whether    *)
(* the panel saw success. NodeRequests turns a refusal, an unreachable     *)
(* node and a lost answer into the same False, so a reply that is not ok   *)
(* says nothing about the effect.                                          *)
(***************************************************************************)

CertState == {"none", "valid", "stale"}

Identity == [cert : CertState, ccd : BOOLEAN]

Absent == [cert |-> "none", ccd |-> FALSE]

\* get_user_identity_state: what the panel is told exists.
Exists(id) == id.cert = "valid" \/ id.ccd

\* A client holding the certificate can open a tunnel.
MayConnect(id) == id.cert # "none" /\ id.ccd

Unserved(id) == {[to |-> id, ok |-> FALSE]}

(***************************************************************************)
(* create_user_on_server runs pvnetwork-build-client-profile: idempotent,  *)
(* it issues a certificate if the index has none and always makes sure of  *)
(* the CCD entry. It may stop after the certificate (profile not built or  *)
(* not verified), and its answer may be lost.                              *)
(***************************************************************************)
Built(id) == [cert |-> "valid", ccd |-> TRUE]

BuildReplies(id) ==
  Unserved(id) \cup {[to |-> Built(id), ok |-> TRUE],
                     [to |-> Built(id), ok |-> FALSE],
                     [to |-> [cert |-> "valid", ccd |-> id.ccd], ok |-> FALSE]}

\* change_user_status: touch or remove the CCD entry.
Switched(id, on) == [cert |-> id.cert, ccd |-> on]

StatusReplies(id, on) ==
  Unserved(id) \cup {[to |-> Switched(id, on), ok |-> b] : b \in BOOLEAN}

(***************************************************************************)
(* delete_user_on_server removes the CCD entry first, then revokes,        *)
(* regenerates and publishes the CRL. It answers False when easy-rsa or    *)
(* the publication fails, with the CCD entry already gone. A retry on a    *)
(* certificate that is already revoked republishes the CRL ("not_found",   *)
(* which the route reports as success). A CCD entry that cannot be removed *)
(* is passed over in silence: the delete succeeds and the entry stays. (A  *)
(* deactivation would not tell either; that one is left out.)              *)
(***************************************************************************)
Unpublished(id) == IF id.cert = "none" THEN "none" ELSE "stale"

\* What a delete that came as far as cert leaves: the CCD entry may be stuck.
Left(id, cert) == {[cert |-> cert, ccd |-> on] : on \in {FALSE, id.ccd}}

DeleteReplies(id) ==
  LET ended   == Left(id, "none")
      stopped == Left(id, id.cert) \cup Left(id, Unpublished(id))
  IN {[to |-> t, ok |-> TRUE] : t \in ended}
       \cup {[to |-> t, ok |-> FALSE] : t \in ended \cup stopped}

=============================================================================
