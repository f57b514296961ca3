---------------------------- MODULE NodeArchives ----------------------------
(* The controller's private archives of one node: the store that keeps them   *)
(* for an hour, the job threads that take a backup, restore one or recover an *)
(* interrupted restore over SSH, and the node's inbox that a restore reads.   *)
(* Routes of the panel hold the store's file lock, job threads do not; the    *)
(* panel can die between any two steps and the node's row can be edited.      *)
(*                                                                            *)
(* The bytes of an archive are a number; a digest of them is that number.     *)
EXTENDS Integers, FiniteSets

CONSTANTS
  Entry,         \* identities of archives (drawn at random in the code)
  MaxEntries,    \* MAX_ENTRIES
  Bytes,         \* contents an archive can have, positive numbers
  MaxIdentity    \* bound on the edits of the node's row

NoFile  == 0
Partial == -1
Nobody  == "nobody"

VARIABLES
  entry,      \* metadata.json and archive.tar.gz of each identity
  job,        \* the last job started for it, as get_deploy_job shows it
  step,       \* what a thread or a request of the panel is doing with it
  holder,     \* who holds the host's deployment lock
  identity,   \* the node's row: address, port and key, as one version
  received,   \* history: what was received whole, with the row it was bound to
  restored    \* the archive the node put back last, with the row that was addressed

vars == <<entry, job, step, holder, identity, received, restored>>

Gone == [state |-> "gone", kind |-> "none", binding |-> 0, bytes |-> NoFile,
         sum |-> NoFile, expired |-> FALSE]
NoJob == [state |-> "none", action |-> "none", host |-> 0, receipt |-> NoFile]

EntryRecord == [state : {"gone", "receiving", "ready"},
                kind : {"none", "backup", "upload", "recovery"},
                binding : 0..MaxIdentity,
                bytes : Bytes \cup {NoFile, Partial},
                sum : Bytes \cup {NoFile}, expired : BOOLEAN]
JobRecord == [state : {"none", "queued", "running", "failed", "succeeded"},
              action : {"none", "backup", "restore", "recovery"},
              host : 0..MaxIdentity, receipt : Bytes \cup {NoFile}]

TypeOK ==
  /\ entry \in [Entry -> EntryRecord]
  /\ job \in [Entry -> JobRecord]
  /\ step \in [Entry -> {"idle", "created", "receive", "seal", "native",
                         "download", "upload", "remove"}]
  /\ holder \in Entry \cup {Nobody}
  /\ identity \in 1..MaxIdentity

Init ==
  /\ entry = [e \in Entry |-> Gone]
  /\ job = [e \in Entry |-> NoJob]
  /\ step = [e \in Entry |-> "idle"]
  /\ holder = Nobody
  /\ identity = 1
  /\ received = {}
  /\ restored = [bytes |-> NoFile, host |-> 0]

-----------------------------------------------------------------------------
Live(e)     == job[e].state \in {"queued", "running"}
Bound(e)    == entry[e].state # "gone" /\ entry[e].binding = identity /\ ~entry[e].expired
Loads(e)    == Bound(e) /\ entry[e].state = "ready"
Verified(e) == entry[e].bytes = entry[e].sum

(* What the clean-up removes: an expired entry whose file never came, or is   *)
(* the one that was sealed.  Anything else is kept for the operator.          *)
Removable(e) ==
  /\ entry[e].expired
  /\ \/ entry[e].state = "receiving" /\ entry[e].bytes = NoFile
     \/ entry[e].state = "ready" /\ Verified(e)

Create(e, kind) ==
  LET kept == {x \in Entry : entry[x].state # "gone" /\ ~Removable(x)}
  IN  /\ e \notin kept /\ entry[e].state = "gone"
      /\ Cardinality(kept) < MaxEntries
      /\ entry' = [x \in Entry |->
                     IF x = e THEN [Gone EXCEPT !.state = "receiving", !.kind = kind,
                                                !.binding = identity]
                     ELSE IF x \in kept THEN entry[x] ELSE Gone]
      /\ job' = [x \in Entry |-> IF x \in kept THEN job[x] ELSE NoJob]
      /\ step' = [step EXCEPT ![e] = "created"]
      /\ UNCHANGED <<holder, identity, received, restored>>

(* POST /archives/upload: the request writes the file and seals it.           *)
UploadOpens(e) ==
  /\ entry[e].kind = "upload" /\ step[e] = "created"
  /\ entry' = [entry EXCEPT ![e].bytes = Partial]
  /\ step' = [step EXCEPT ![e] = "receive"]
  /\ UNCHANGED <<job, holder, identity, received, restored>>

Upload(e, b) ==
  /\ step[e] = "receive"
  /\ entry' = [entry EXCEPT ![e].bytes = b]
  /\ step' = [step EXCEPT ![e] = "seal"]
  /\ received' = received \cup {[bytes |-> b, host |-> entry[e].binding]}
  /\ UNCHANGED <<job, holder, identity, restored>>

UploadFails(e) ==
  /\ step[e] = "receive"
  /\ entry' = [entry EXCEPT ![e].bytes = NoFile]
  /\ step' = [step EXCEPT ![e] = "idle"]
  /\ UNCHANGED <<job, holder, identity, received, restored>>

(* Sealing writes the receipt: an upload is over then, a backup job has still *)
(* to compare it with the receipt of the node.                                *)
Sealed(e) == [entry EXCEPT ![e].state = "ready", ![e].sum = entry[e].bytes]

SealUpload(e) ==
  /\ entry[e].kind = "upload" /\ step[e] = "seal"
  /\ entry' = Sealed(e)
  /\ step' = [step EXCEPT ![e] = "idle"]
  /\ UNCHANGED <<job, holder, identity, received, restored>>

-----------------------------------------------------------------------------
(* Start: under the store's lock the entry is read again, a live job refused, *)
(* and the expiry put off.                                                    *)
Start(e, action) ==
  /\ Bound(e) /\ ~Live(e)
  /\ \/ action = "restore" /\ Loads(e)
     \/ action = entry[e].kind /\ action # "upload" /\ step[e] = "created"
  /\ job' = [job EXCEPT ![e] = [NoJob EXCEPT !.state = "queued", !.action = action]]
  /\ step' = [step EXCEPT ![e] = "idle"]
  /\ UNCHANGED <<entry, holder, identity, received, restored>>

StartRefused(e) ==
  /\ step[e] = "created" /\ entry[e].kind # "upload" /\ ~Bound(e)
  /\ step' = [step EXCEPT ![e] = "idle"]
  /\ UNCHANGED <<entry, job, holder, identity, received, restored>>

(* The job's thread: the row is compared with the binding, the host's lock is *)
(* tried once, an archive to restore is read whole before the host is called. *)
RunGuard(e) ==
  /\ entry[e].binding = identity
  /\ holder = Nobody
  /\ job[e].action = "restore" => Verified(e)

Run(e) ==
  /\ job[e].state = "queued"
  /\ RunGuard(e)
  /\ job' = [job EXCEPT ![e].state = "running", ![e].host = identity]
  /\ step' = [step EXCEPT ![e] = IF job[e].action = "restore" THEN "upload" ELSE "native"]
  /\ holder' = e
  /\ UNCHANGED <<entry, identity, received, restored>>

RunRefused(e) ==
  /\ job[e].state = "queued" /\ ~RunGuard(e)
  /\ job' = [job EXCEPT ![e] = [NoJob EXCEPT !.state = "failed"]]
  /\ UNCHANGED <<entry, step, holder, identity, received, restored>>

At(e, action, here) == job[e].state = "running" /\ job[e].action = action /\ step[e] = here

End(e, how) ==
  /\ job' = [job EXCEPT ![e] = [NoJob EXCEPT !.state = how]]
  /\ step' = [step EXCEPT ![e] = "idle"]
  /\ holder' = Nobody

NativeBackup(e, b) ==
  /\ At(e, "backup", "native")
  /\ job' = [job EXCEPT ![e].receipt = b]
  /\ step' = [step EXCEPT ![e] = "download"]
  /\ received' = received \cup {[bytes |-> b, host |-> job[e].host]}
  /\ UNCHANGED <<entry, holder, identity, restored>>

(* The node sends the file only as its receipt describes it, size and digest. *)
ReadArchive(e) == job[e].receipt

(* The file is linked into place only when all of it has the receipt's digest.*)
Download(e) ==
  /\ At(e, "backup", "download")
  /\ entry' = [entry EXCEPT ![e].bytes = ReadArchive(e)]
  /\ step' = [step EXCEPT ![e] = "seal"]
  /\ UNCHANGED <<job, holder, identity, received, restored>>

SealBackup(e) ==
  /\ At(e, "backup", "seal")
  /\ entry' = Sealed(e)
  /\ End(e, "succeeded")
  /\ UNCHANGED <<identity, received, restored>>

(* The inbox keeps a file only when it has the digest announced with it, and  *)
(* the job goes on with that receipt.                                         *)
ReceiveUpload(e, b) == [job EXCEPT ![e].receipt = b]

(* The digest announced is of the file as it is now: what the job verified    *)
(* before it called the host may have been replaced since.                    *)
UploadArchive(e) ==
  /\ At(e, "restore", "upload")
  /\ entry[e].bytes # NoFile
  /\ job' = ReceiveUpload(e, entry[e].bytes)
  /\ step' = [step EXCEPT ![e] = "native"]
  /\ UNCHANGED <<entry, holder, identity, received, restored>>

(* Wrong: the node trusts the digest that came with the upload.               *)
InboxUnasked(e) == job[e].receipt # NoFile

(* The node compares the digest of its inbox with the one the entry's receipt *)
(* names, and restores; a mismatch is a failed operation.                     *)
InboxMatches(e) == job[e].receipt = entry[e].sum

NativeRestore(e) ==
  /\ At(e, "restore", "native") /\ InboxMatches(e)
  /\ restored' = [bytes |-> job[e].receipt, host |-> job[e].host]
  /\ step' = [step EXCEPT ![e] = "remove"]
  /\ UNCHANGED <<entry, job, holder, identity, received>>

(* The upload is removed from the inbox, or stays there; the job succeeds.    *)
RemoveUpload(e) ==
  /\ At(e, "restore", "remove")
  /\ End(e, "succeeded")
  /\ UNCHANGED <<entry, identity, received, restored>>

NativeRecover(e) ==
  /\ At(e, "recovery", "native")
  /\ End(e, "succeeded")
  /\ UNCHANGED <<entry, identity, received, restored>>

(* A connection, the node or a check refuses a step before the restore is     *)
(* answered.                                                                  *)
Fail(e) ==
  /\ job[e].state = "running"
  /\ End(e, "failed")
  /\ UNCHANGED <<entry, identity, received, restored>>

-----------------------------------------------------------------------------
(* Wrong: a discard that does not ask for the entry's job.                    *)
DiscardUnasked(e) ==
  /\ Loads(e)
  /\ Verified(e)
  /\ entry' = [entry EXCEPT ![e] = Gone]
  /\ UNCHANGED <<job, step, holder, identity, received, restored>>

(* DELETE: under the store's lock, never while the entry's job is live, and   *)
(* only what the receipt describes.                                           *)
Discard(e) ==
  /\ Loads(e) /\ ~Live(e)
  /\ Verified(e)
  /\ entry' = [entry EXCEPT ![e] = Gone]
  /\ job' = [job EXCEPT ![e] = NoJob]
  /\ UNCHANGED <<step, holder, identity, received, restored>>

(* An hour passes.  A job takes less than the hour its start gave the entry   *)
(* (20 minutes at most on the node), and a request that made an entry goes on *)
(* to use it at once; an upload that is being received can outlast it.        *)
Expire(e) ==
  /\ entry[e].state # "gone" /\ ~entry[e].expired
  /\ ~Live(e) /\ step[e] # "created"
  /\ entry' = [entry EXCEPT ![e].expired = TRUE]
  /\ UNCHANGED <<job, step, holder, identity, received, restored>>

(* Somebody replaces the file of a sealed archive.                            *)
OperatorChanges(e, b) ==
  /\ entry[e].state = "ready" /\ entry[e].bytes # b
  /\ entry' = [entry EXCEPT ![e].bytes = b]
  /\ UNCHANGED <<job, step, holder, identity, received, restored>>

(* The node's address, port or key is edited.                                 *)
EditNode ==
  /\ identity < MaxIdentity
  /\ identity' = identity + 1
  /\ UNCHANGED <<entry, job, step, holder, received, restored>>

(* Threads and requests die with the panel; a job that was live is shown as   *)
(* failed from then on, and the in-memory lock is free.                       *)
PanelCrash ==
  /\ \E e \in Entry : Live(e) \/ step[e] # "idle"
  /\ job' = [e \in Entry |-> IF Live(e) THEN [NoJob EXCEPT !.state = "failed"] ELSE job[e]]
  /\ step' = [e \in Entry |-> "idle"]
  /\ holder' = Nobody
  /\ UNCHANGED <<entry, identity, received, restored>>

Next ==
  \/ EditNode \/ PanelCrash
  \/ \E e \in Entry :
       \/ \E kind \in {"backup", "upload", "recovery"} : Create(e, kind)
       \/ \E action \in {"backup", "restore", "recovery"} : Start(e, action)
       \/ \E b \in Bytes : Upload(e, b) \/ NativeBackup(e, b) \/ OperatorChanges(e, b)
       \/ UploadOpens(e) \/ UploadFails(e) \/ SealUpload(e) \/ StartRefused(e)
       \/ Run(e) \/ RunRefused(e) \/ Download(e) \/ SealBackup(e) \/ UploadArchive(e)
       \/ NativeRestore(e) \/ RemoveUpload(e) \/ NativeRecover(e) \/ Fail(e)
       \/ Discard(e) \/ Expire(e)

Spec == Init /\ [][Next]_vars

-----------------------------------------------------------------------------
(* What a node puts back is an archive the controller received whole, from    *)
(* its backup or from an upload, while the node's row was the one the restore *)
(* addresses: however the file, the row or the panel changed meanwhile.       *)
RestoredIsReceived == restored.bytes # NoFile => restored \in received

(* A running job keeps the archive it works on: no clean-up and no discard    *)
(* takes the entry of a job that is queued or running, and a restore's entry  *)
(* stays sealed.                                                              *)
RunningKeepsArchive ==
  \A e \in Entry : Live(e) =>
    /\ entry[e].state # "gone"
    /\ job[e].action = "restore" => entry[e].state = "ready"
=============================================================================
