------------------------- MODULE NodeDeploymentProofs -------------------------
(***************************************************************************)
(* For any number of archives, contents and edits of the node's row: what  *)
(* a node puts back was received whole for the row that is addressed, and  *)
(* a job keeps the archive it works on.                                    *)
(*                                                                         *)
(* The invariant says of each entry what its receipt, its file and its job *)
(* vouch for at every stage. An entry that somebody works on is not        *)
(* expired (Making, LiveKeeps), so no clean-up takes it; an entry that is  *)
(* still received is not sealed (Uploading, LiveKeeps), so nobody has      *)
(* replaced the file that is about to be sealed; and a sealed entry's      *)
(* digest, which the node compares its inbox with, is of something that    *)
(* was received for the entry's binding (SealedFor), which is the row a    *)
(* running job addresses (RunsFor).                                        *)
(*                                                                         *)
(* And for any number of deployments and faults: what is registered is not *)
(* rolled back, and panel and hooks find the agent they go to. Its         *)
(* invariant, DeployInv, stands with its proof in the second part.         *)
(***************************************************************************)
EXTENDS MCNodeDeployment, TLAPS

Pair(b, h) == [bytes |-> b, host |-> h]

HistoryOK == /\ received \subseteq [bytes : Bytes, host : 0..MaxIdentity]
             /\ restored \in [bytes : Bytes \cup {NoFile}, host : 0..MaxIdentity]

\* A digest in a receipt is of an archive that was received.
SealedFor(e) ==
  entry[e].state = "ready" =>
    Pair(entry[e].sum, entry[e].binding) \in received /\ entry[e].bytes # Partial

\* A request that made an entry has it, unexpired, and no job works on it.
Making(e) ==
  step[e] = "created" => entry[e].state = "receiving" /\ ~entry[e].expired /\ ~Live(e)

Uploading(e) ==
  entry[e].kind = "upload" /\ step[e] \in {"receive", "seal"} =>
    /\ entry[e].state = "receiving"
    /\ step[e] = "seal" => Pair(entry[e].bytes, entry[e].binding) \in received

LiveKeeps(e) ==
  Live(e) => /\ entry[e].state # "gone" /\ ~entry[e].expired
             /\ job[e].action = "restore" => entry[e].state = "ready"
             /\ job[e].action = "backup" => entry[e].state = "receiving" /\ entry[e].kind = "backup"

\* A running job addresses the row its entry is bound to, and a backup has
\* received what it is about to store and seal.
RunsFor(e) ==
  job[e].state = "running" =>
    /\ job[e].host = entry[e].binding
    /\ At(e, "backup", "download") => Pair(job[e].receipt, job[e].host) \in received
    /\ At(e, "backup", "seal") => Pair(entry[e].bytes, entry[e].binding) \in received

Vouched(e) == SealedFor(e) /\ Making(e) /\ Uploading(e) /\ LiveKeeps(e) /\ RunsFor(e)

IInv == TypeOK /\ HistoryOK /\ RestoredIsReceived /\ \A e \in Entry : Vouched(e)

-----------------------------------------------------------------------------
(* The constants are what the code makes them: contents are positive          *)
(* numbers, and the node has a row.                                           *)
ConstantsOK == Bytes \subseteq Nat \ {0} /\ MaxIdentity \in Nat \ {0}

\* An entry nobody touches keeps what is vouched for it, as more is received.
LEMMA Kept ==
  ASSUME NEW x \in Entry, Vouched(x), received \subseteq received',
         entry'[x] = entry[x], job'[x] = job[x], step'[x] = step[x]
  PROVE  Vouched(x)'
BY DEF Vouched, SealedFor, Making, Uploading, LiveKeeps, RunsFor, Live, At

\* An entry that is gone, with no job, vouches for nothing.
LEMMA GoneVouched ==
  ASSUME NEW x \in Entry, entry'[x] = Gone, job'[x] = NoJob, step'[x] # "created"
  PROVE  Vouched(x)'
BY DEF Vouched, SealedFor, Making, Uploading, LiveKeeps, RunsFor, Live, At, Gone, NoJob

LEMMA PlainRecords ==
  ConstantsOK => Gone \in EntryRecord /\ NoJob \in JobRecord
BY DEF ConstantsOK, Gone, NoJob, EntryRecord, JobRecord, NoFile

LEMMA SealedRecord ==
  ASSUME NEW e \in Entry, entry \in [Entry -> EntryRecord], entry[e].bytes \in Bytes
  PROVE  Sealed(e) \in [Entry -> EntryRecord]
<1> DEFINE r == [entry[e] EXCEPT !.state = "ready", !.sum = entry[e].bytes]
<1>1. entry[e] \in EntryRecord
  OBVIOUS
<1>2. r \in EntryRecord
  BY <1>1 DEF EntryRecord
<1>3. Sealed(e) = [entry EXCEPT ![e] = r]
  BY DEF Sealed
<1> HIDE DEF r
<1> QED
  BY <1>2, <1>3

\* What making an entry does to it and to the others.
LEMMA Made ==
  ASSUME ConstantsOK, TypeOK, NEW e \in Entry, NEW kind \in {"backup", "upload", "recovery"},
         Create(e, kind)
  PROVE  /\ entry[e].state = "gone" /\ job'[e] = NoJob
         /\ entry'[e] = [Gone EXCEPT !.state = "receiving", !.kind = kind, !.binding = identity]
         /\ \A x \in Entry \ {e} :
              \/ entry'[x] = Gone /\ job'[x] = NoJob
                 /\ (entry[x].state = "gone" \/ Removable(x))
              \/ entry'[x] = entry[x] /\ job'[x] = job[x]
         /\ entry' = [x \in Entry |-> entry'[x]]
         /\ job' = [x \in Entry |-> job'[x]]
         /\ step' = [step EXCEPT ![e] = "created"]
         /\ UNCHANGED <<holder, identity, received, restored>>
<1> DEFINE kept == {x \in Entry : entry[x].state # "gone" /\ ~Removable(x)}
           E(x) == IF x = e THEN [Gone EXCEPT !.state = "receiving", !.kind = kind,
                                              !.binding = identity]
                   ELSE IF x \in kept THEN entry[x] ELSE Gone
           J(x) == IF x \in kept THEN job[x] ELSE NoJob
<1>1. /\ entry' = [x \in Entry |-> E(x)] /\ job' = [x \in Entry |-> J(x)]
      /\ e \notin kept /\ entry[e].state = "gone"
      /\ step' = [step EXCEPT ![e] = "created"]
      /\ UNCHANGED <<holder, identity, received, restored>>
  BY DEF Create
<1>2. \A x \in Entry : x \notin kept => entry[x].state = "gone" \/ Removable(x)
  OBVIOUS
<1>3. \A x \in Entry : entry'[x] = E(x) /\ job'[x] = J(x)
  BY <1>1
<1> QED
  BY <1>1, <1>2, <1>3

\* Types, the requests that make an entry and fill it.
LEMMA TypesOfMaking ==
  ASSUME ConstantsOK, IInv, NEW e \in Entry,
         \/ \E kind \in {"backup", "upload", "recovery"} : Create(e, kind)
         \/ \E b \in Bytes : Upload(e, b) \/ OperatorChanges(e, b)
         \/ UploadOpens(e) \/ UploadFails(e) \/ SealUpload(e)
         \/ Discard(e) \/ Expire(e)
  PROVE  TypeOK' /\ HistoryOK'
<1> USE DEF IInv, TypeOK, HistoryOK
<1>1. ASSUME NEW kind \in {"backup", "upload", "recovery"}, Create(e, kind)
      PROVE  TypeOK' /\ HistoryOK'
  <2>1. entry'[e] \in EntryRecord
    <3>1. identity \in 0..MaxIdentity
      BY DEF ConstantsOK
    <3>2. entry'[e] = [Gone EXCEPT !.state = "receiving", !.kind = kind, !.binding = identity]
      BY <1>1, Made
    <3> QED
      BY <3>1, <3>2, PlainRecords DEF EntryRecord
  <2>2. \A x \in Entry : entry'[x] \in EntryRecord /\ job'[x] \in JobRecord
    BY <1>1, <2>1, Made, PlainRecords
  <2> QED
    BY <1>1, <2>2, Made
<1>2. ASSUME NEW b \in Bytes, Upload(e, b)
      PROVE  TypeOK' /\ HistoryOK'
  BY <1>2, SMTT(30) DEF Upload, EntryRecord
<1>3. ASSUME NEW b \in Bytes, OperatorChanges(e, b)
      PROVE  TypeOK' /\ HistoryOK'
  <2>1. [entry[e] EXCEPT !.bytes = b] \in EntryRecord
    BY DEF EntryRecord
  <2> QED
    BY <1>3, <2>1 DEF OperatorChanges
<1>4. CASE UploadOpens(e)
  <2>1. [entry[e] EXCEPT !.bytes = Partial] \in EntryRecord
    BY DEF EntryRecord
  <2> QED
    BY <1>4, <2>1 DEF UploadOpens
<1>5. CASE UploadFails(e)
  <2>1. [entry[e] EXCEPT !.bytes = NoFile] \in EntryRecord
    BY DEF EntryRecord
  <2> QED
    BY <1>5, <2>1 DEF UploadFails
<1>6. CASE SealUpload(e)
  <2>1. entry[e].bytes \in Bytes
    BY <1>6 DEF SealUpload, Vouched, Uploading, Pair
  <2> QED
    BY <1>6, <2>1, SealedRecord DEF SealUpload
<1>7. CASE Discard(e)
  BY <1>7, PlainRecords DEF Discard
<1>8. CASE Expire(e)
  <2>1. [entry[e] EXCEPT !.expired = TRUE] \in EntryRecord
    BY ZenonT(30) DEF EntryRecord
  <2> QED
    BY <1>8, <2>1 DEF Expire
<1> QED
  BY <1>1, <1>2, <1>3, <1>4, <1>5, <1>6, <1>7, <1>8

\* Types, the jobs.
LEMMA TypesOfJobs ==
  ASSUME ConstantsOK, IInv, NEW e \in Entry,
         \/ \E action \in {"backup", "restore", "recovery"} : Start(e, action)
         \/ \E b \in Bytes : NativeBackup(e, b)
         \/ StartRefused(e) \/ Run(e) \/ RunRefused(e) \/ Download(e) \/ SealBackup(e)
         \/ UploadArchive(e) \/ NativeRestore(e) \/ RemoveUpload(e) \/ NativeRecover(e)
         \/ Fail(e)
  PROVE  TypeOK' /\ HistoryOK'
<1> USE DEF IInv, TypeOK, HistoryOK
<1>1. ASSUME NEW action \in {"backup", "restore", "recovery"}, Start(e, action)
      PROVE  TypeOK' /\ HistoryOK'
  BY <1>1, PlainRecords DEF Start, JobRecord, NoJob
<1>2. ASSUME NEW b \in Bytes, NativeBackup(e, b)
      PROVE  TypeOK' /\ HistoryOK'
  <2>1. job[e].host \in 0..MaxIdentity
    BY DEF JobRecord
  <2> QED
    BY <1>2, <2>1 DEF NativeBackup, JobRecord
<1>3. CASE StartRefused(e)
  BY <1>3 DEF StartRefused
<1>4. CASE Run(e)
  <2>1. identity \in 0..MaxIdentity
    BY DEF ConstantsOK
  <2>2. job' \in [Entry -> JobRecord]
    <3> DEFINE r == [job[e] EXCEPT !.state = "running", !.host = identity]
    <3>1. job' = [job EXCEPT ![e] = r]
      BY <1>4 DEF Run
    <3>2. r \in JobRecord
      BY <2>1 DEF JobRecord
    <3> HIDE DEF r
    <3> QED
      BY <3>1, <3>2
  <2> QED
    BY <1>4, <2>2 DEF Run
<1>5. CASE RunRefused(e)
  BY <1>5, PlainRecords DEF RunRefused, NoJob, JobRecord
<1>6. CASE Download(e)
  <2>1. job[e].receipt \in Bytes \cup {NoFile}
    BY DEF JobRecord
  <2> QED
    BY <1>6, <2>1 DEF Download, ReadArchive, EntryRecord
<1>7. CASE SealBackup(e)
  <2>1. entry[e].bytes \in Bytes
    BY <1>7 DEF SealBackup, At, Vouched, RunsFor, Pair
  <2> QED
    BY <1>7, <2>1, SealedRecord, PlainRecords DEF SealBackup, End, NoJob, JobRecord
<1>8. CASE UploadArchive(e)
  <2>1. entry[e].bytes \in Bytes \cup {NoFile}
    BY <1>8 DEF UploadArchive, At, Vouched, LiveKeeps, SealedFor, Live, EntryRecord
  <2> QED
    BY <1>8, <2>1 DEF UploadArchive, ReceiveUpload, JobRecord
<1>9. CASE NativeRestore(e)
  <2>1. job[e].receipt \in Bytes \cup {NoFile} /\ job[e].host \in 0..MaxIdentity
    BY DEF JobRecord
  <2> QED
    BY <1>9, <2>1 DEF NativeRestore
<1>10. CASE RemoveUpload(e) \/ NativeRecover(e) \/ Fail(e)
  <2>1. CASE RemoveUpload(e)
    BY <1>10, <2>1, PlainRecords DEF RemoveUpload, End, NoJob, JobRecord
  <2>2. CASE NativeRecover(e)
    BY <1>10, <2>2, PlainRecords DEF NativeRecover, End, NoJob, JobRecord
  <2>3. CASE Fail(e)
    BY <1>10, <2>3, PlainRecords DEF Fail, End, NoJob, JobRecord
  <2> QED
    BY <1>10, <2>1, <2>2, <2>3
<1> QED
  BY <1>1, <1>2, <1>3, <1>4, <1>5, <1>6, <1>7, <1>8, <1>9, <1>10

\* What is vouched for, when an entry is made.
LEMMA VouchedCreate ==
  ASSUME ConstantsOK, IInv, NEW e \in Entry, NEW kind \in {"backup", "upload", "recovery"},
         Create(e, kind)
  PROVE  \A x \in Entry : Vouched(x)'
<1>1. TypeOK /\ \A x \in Entry : Vouched(x)
  BY DEF IInv
<1>2. step' = [step EXCEPT ![e] = "created"] /\ received' = received
  BY <1>1, Made
<1>3. Vouched(e)'
  <2>1. /\ entry'[e] = [Gone EXCEPT !.state = "receiving", !.kind = kind, !.binding = identity]
        /\ job'[e] = NoJob
    BY <1>1, Made
  <2>2. step'[e] = "created"
    BY <1>1, <1>2 DEF TypeOK
  <2> QED
    BY <2>1, <2>2 DEF Gone, NoJob, Vouched, SealedFor, Making, Uploading, LiveKeeps, RunsFor, Live, At
<1>4. ASSUME NEW x \in Entry, x # e PROVE Vouched(x)'
  <2>1. step'[x] = step[x]
    BY <1>1, <1>2, <1>4 DEF TypeOK
  <2>2. CASE entry'[x] = entry[x] /\ job'[x] = job[x]
    BY <1>1, <1>2, <2>1, <2>2, Kept
  <2>3. CASE entry'[x] = Gone /\ job'[x] = NoJob /\ (entry[x].state = "gone" \/ Removable(x))
    <3>1. step[x] # "created"
      BY <1>1, <2>3 DEF Removable, Vouched, Making
    <3> QED
      BY <2>1, <2>3, <3>1, GoneVouched
  <2> QED
    BY <1>1, <1>4, <2>2, <2>3, Made
<1> QED
  BY <1>3, <1>4

\* What is vouched for, when entry e alone is touched.
LEMMA OneTouched ==
  ASSUME IInv, NEW e \in Entry, Vouched(e)', received \subseteq received',
         \A x \in Entry \ {e} : entry'[x] = entry[x] /\ job'[x] = job[x] /\ step'[x] = step[x]
  PROVE  \A x \in Entry : Vouched(x)'
BY Kept DEF IInv

\* Entries filled, removed and changed.
LEMMA VouchedStore ==
  ASSUME ConstantsOK, IInv, NEW e \in Entry,
         \/ \E b \in Bytes : Upload(e, b) \/ OperatorChanges(e, b)
         \/ UploadOpens(e) \/ UploadFails(e) \/ SealUpload(e)
         \/ Discard(e) \/ Expire(e)
  PROVE  \A x \in Entry : Vouched(x)'
<1>1. /\ TypeOK /\ HistoryOK /\ Vouched(e)
      /\ entry[e] \in EntryRecord /\ job[e] \in JobRecord
  BY DEF IInv, TypeOK
<1>2. ASSUME NEW b \in Bytes, Upload(e, b)
      PROVE  \A x \in Entry : Vouched(x)'
  <2>1. /\ entry'[e] = [entry[e] EXCEPT !.bytes = b] /\ job'[e] = job[e] /\ step'[e] = "seal"
        /\ step[e] = "receive" /\ received' = received \cup {Pair(b, entry[e].binding)}
    BY <1>1, <1>2 DEF Upload, TypeOK, Pair
  <2>2. Vouched(e)'
    BY <1>1, <2>1 DEF Vouched, SealedFor, Making, Uploading, LiveKeeps, RunsFor, Live, At, ConstantsOK, Partial
  <2> QED
    BY <1>1, <1>2, <2>1, <2>2, OneTouched DEF Upload, TypeOK
<1>3. ASSUME NEW b \in Bytes, OperatorChanges(e, b)
      PROVE  \A x \in Entry : Vouched(x)'
  <2>1. /\ entry'[e] = [entry[e] EXCEPT !.bytes = b] /\ job'[e] = job[e] /\ step'[e] = step[e]
        /\ entry[e].state = "ready" /\ received' = received /\ b # Partial
    BY <1>1, <1>3 DEF OperatorChanges, TypeOK, ConstantsOK, Partial
  <2>2. Vouched(e)'
    BY <1>1, <2>1 DEF Vouched, SealedFor, Making, Uploading, LiveKeeps, RunsFor, Live, At
  <2> QED
    BY <1>1, <1>3, <2>1, <2>2, OneTouched DEF OperatorChanges, TypeOK
<1>4. CASE UploadOpens(e)
  <2>1. /\ entry'[e] = [entry[e] EXCEPT !.bytes = Partial] /\ job'[e] = job[e] /\ step'[e] = "receive"
        /\ step[e] = "created" /\ received' = received
    BY <1>1, <1>4 DEF UploadOpens, TypeOK
  <2>2. Vouched(e)'
    BY <1>1, <2>1 DEF Vouched, SealedFor, Making, Uploading, LiveKeeps, RunsFor, Live, At
  <2> QED
    BY <1>1, <1>4, <2>1, <2>2, OneTouched DEF UploadOpens, TypeOK
<1>5. CASE UploadFails(e)
  <2>1. /\ entry'[e] = [entry[e] EXCEPT !.bytes = NoFile] /\ job'[e] = job[e] /\ step'[e] = "idle"
        /\ step[e] = "receive" /\ received' = received
    BY <1>1, <1>5 DEF UploadFails, TypeOK
  <2>2. Vouched(e)'
    BY <1>1, <2>1 DEF Vouched, SealedFor, Making, Uploading, LiveKeeps, RunsFor, Live, At, NoFile, Partial
  <2> QED
    BY <1>1, <1>5, <2>1, <2>2, OneTouched DEF UploadFails, TypeOK
<1>6. CASE SealUpload(e)
  <2>1. /\ entry'[e] = [entry[e] EXCEPT !.state = "ready", !.sum = entry[e].bytes]
        /\ entry[e].kind = "upload" /\ step[e] = "seal"
        /\ job'[e] = job[e] /\ step'[e] = "idle" /\ received' = received
    BY <1>1, <1>6 DEF SealUpload, TypeOK, Sealed
  <2>2. Pair(entry[e].bytes, entry[e].binding) \in received
    BY <1>1, <2>1 DEF Vouched, Uploading
  <2>3. entry[e].bytes # Partial
    BY <1>1, <2>2 DEF HistoryOK, Pair, ConstantsOK, Partial
  <2>4. Vouched(e)'
    BY <1>1, <2>1, <2>2, <2>3 DEF Vouched, SealedFor, Making, Uploading, LiveKeeps, RunsFor, Live, At, Sealed
  <2> QED
    BY <1>1, <1>6, <2>1, <2>4, OneTouched DEF SealUpload, Sealed, TypeOK
<1>7. CASE Discard(e)
  <2>1. /\ entry'[e] = Gone /\ job'[e] = NoJob /\ step'[e] = step[e]
        /\ entry[e].state = "ready" /\ received' = received
    BY <1>1, <1>7 DEF Discard, TypeOK, Loads, Gone, NoJob
  <2>2. Vouched(e)'
    BY <1>1, <2>1 DEF Vouched, SealedFor, Making, Uploading, LiveKeeps, RunsFor, Live, At, Loads, Gone, NoJob
  <2> QED
    BY <1>1, <1>7, <2>1, <2>2, OneTouched DEF Discard, TypeOK
<1>8. CASE Expire(e)
  <2>1. /\ entry'[e] = [entry[e] EXCEPT !.expired = TRUE] /\ job'[e] = job[e] /\ step'[e] = step[e]
        /\ ~Live(e) /\ step[e] # "created" /\ received' = received
    BY <1>1, <1>8 DEF Expire, TypeOK
  <2>2. Vouched(e)'
    BY <1>1, <2>1 DEF Vouched, SealedFor, Making, Uploading, LiveKeeps, RunsFor, Live, At
  <2> QED
    BY <1>1, <1>8, <2>1, <2>2, OneTouched DEF Expire, TypeOK
<1> QED
  BY <1>2, <1>3, <1>4, <1>5, <1>6, <1>7, <1>8

\* The jobs of an entry.
LEMMA VouchedJobs ==
  ASSUME ConstantsOK, IInv, NEW e \in Entry,
         \/ \E action \in {"backup", "restore", "recovery"} : Start(e, action)
         \/ \E b \in Bytes : NativeBackup(e, b)
         \/ StartRefused(e) \/ Run(e) \/ RunRefused(e) \/ Download(e) \/ SealBackup(e)
         \/ UploadArchive(e) \/ NativeRestore(e) \/ RemoveUpload(e) \/ NativeRecover(e)
         \/ Fail(e)
  PROVE  \A x \in Entry : Vouched(x)'
<1>1. /\ TypeOK /\ HistoryOK /\ Vouched(e)
      /\ entry[e] \in EntryRecord /\ job[e] \in JobRecord
  BY DEF IInv, TypeOK
<1>2. ASSUME NEW action \in {"backup", "restore", "recovery"}, Start(e, action)
      PROVE  \A x \in Entry : Vouched(x)'
  <2>1. /\ job'[e] = [NoJob EXCEPT !.state = "queued", !.action = action]
        /\ entry'[e] = entry[e] /\ step'[e] = "idle" /\ received' = received
        /\ entry[e].state # "gone" /\ ~entry[e].expired
        /\ \/ action = "restore" /\ entry[e].state = "ready"
           \/ action = entry[e].kind /\ step[e] = "created"
    BY <1>1, <1>2 DEF Start, TypeOK, Bound, Loads, NoJob
  <2>2. Vouched(e)'
    BY <1>1, <2>1 DEF Vouched, SealedFor, Making, Uploading, LiveKeeps, RunsFor, Live, At, Bound, Loads, NoJob, EntryRecord
  <2> QED
    BY <1>1, <1>2, <2>1, <2>2, OneTouched DEF Start, TypeOK
<1>3. ASSUME NEW b \in Bytes, NativeBackup(e, b)
      PROVE  \A x \in Entry : Vouched(x)'
  <2>1. /\ job'[e] = [job[e] EXCEPT !.receipt = b] /\ entry'[e] = entry[e] /\ step'[e] = "download"
        /\ At(e, "backup", "native") /\ received' = received \cup {Pair(b, job[e].host)}
    BY <1>1, <1>3 DEF NativeBackup, TypeOK, Pair
  <2>2. Vouched(e)'
    BY <1>1, <2>1 DEF Vouched, SealedFor, Making, Uploading, LiveKeeps, RunsFor, Live, At
  <2> QED
    BY <1>1, <1>3, <2>1, <2>2, OneTouched DEF NativeBackup, TypeOK
<1>4. CASE StartRefused(e)
  <2>1. /\ job'[e] = job[e] /\ entry'[e] = entry[e] /\ step'[e] = "idle" /\ received' = received
    BY <1>1, <1>4 DEF StartRefused, TypeOK
  <2>2. Vouched(e)'
    BY <1>1, <2>1 DEF Vouched, SealedFor, Making, Uploading, LiveKeeps, RunsFor, Live, At
  <2> QED
    BY <1>1, <1>4, <2>1, <2>2, OneTouched DEF StartRefused, TypeOK
<1>5. CASE Run(e)
  <2>1. /\ job'[e] = [job[e] EXCEPT !.state = "running", !.host = identity]
        /\ entry'[e] = entry[e] /\ entry[e].binding = identity
        /\ step'[e] \in {"upload", "native"} /\ job[e].state = "queued" /\ received' = received
    BY <1>1, <1>5 DEF Run, TypeOK, RunGuard
  <2>2. Vouched(e)'
    BY <1>1, <2>1 DEF Vouched, SealedFor, Making, Uploading, LiveKeeps, RunsFor, Live, At, RunGuard
  <2> QED
    BY <1>1, <1>5, <2>1, <2>2, OneTouched DEF Run, TypeOK
<1>6. CASE RunRefused(e)
  <2>1. /\ job'[e] = [NoJob EXCEPT !.state = "failed"]
        /\ job[e].state = "queued"
        /\ entry'[e] = entry[e] /\ step'[e] = step[e] /\ received' = received
    BY <1>1, <1>6 DEF RunRefused, TypeOK, NoJob
  <2>2. Vouched(e)'
    BY <1>1, <2>1 DEF Vouched, SealedFor, Making, Uploading, LiveKeeps, RunsFor, Live, At, NoJob
  <2> QED
    BY <1>1, <1>6, <2>1, <2>2, OneTouched DEF RunRefused, TypeOK
<1>7. CASE Download(e)
  <2>1. /\ entry'[e] = [entry[e] EXCEPT !.bytes = job[e].receipt] /\ job'[e] = job[e]
        /\ At(e, "backup", "download") /\ step'[e] = "seal" /\ received' = received
    BY <1>1, <1>7 DEF Download, TypeOK, ReadArchive
  <2>2. Vouched(e)'
    BY <1>1, <2>1 DEF Vouched, SealedFor, Making, Uploading, LiveKeeps, RunsFor, Live, At, ReadArchive
  <2> QED
    BY <1>1, <1>7, <2>1, <2>2, OneTouched DEF Download, TypeOK
<1>8. CASE SealBackup(e)
  <2>1. /\ entry'[e] = [entry[e] EXCEPT !.state = "ready", !.sum = entry[e].bytes]
        /\ job'[e] = [NoJob EXCEPT !.state = "succeeded"] /\ At(e, "backup", "seal")
        /\ step'[e] = "idle" /\ received' = received
    BY <1>1, <1>8 DEF SealBackup, TypeOK, Sealed, End, NoJob
  <2>2. Pair(entry[e].bytes, entry[e].binding) \in received
    BY <1>1, <2>1 DEF Vouched, RunsFor, At
  <2>3. entry[e].bytes # Partial
    BY <1>1, <2>2 DEF HistoryOK, Pair, ConstantsOK, Partial
  <2>4. Vouched(e)'
    BY <1>1, <2>1, <2>2, <2>3 DEF Vouched, SealedFor, Making, Uploading, LiveKeeps, RunsFor, Live, At, Sealed, End, NoJob
  <2> QED
    BY <1>1, <1>8, <2>1, <2>4, OneTouched DEF SealBackup, Sealed, End, TypeOK
<1>9. CASE UploadArchive(e)
  <2>1. /\ job'[e] = [job[e] EXCEPT !.receipt = entry[e].bytes] /\ entry'[e] = entry[e]
        /\ At(e, "restore", "upload") /\ step'[e] = "native" /\ received' = received
    BY <1>1, <1>9 DEF UploadArchive, TypeOK, ReceiveUpload
  <2>2. Vouched(e)'
    BY <1>1, <2>1 DEF Vouched, SealedFor, Making, Uploading, LiveKeeps, RunsFor, Live, At, ReceiveUpload
  <2> QED
    BY <1>1, <1>9, <2>1, <2>2, OneTouched DEF UploadArchive, ReceiveUpload, TypeOK
<1>10. CASE NativeRestore(e)
  <2>1. /\ job'[e] = job[e] /\ entry'[e] = entry[e] /\ At(e, "restore", "native")
        /\ step'[e] = "remove" /\ received' = received
    BY <1>1, <1>10 DEF NativeRestore, TypeOK
  <2>2. Vouched(e)'
    BY <1>1, <2>1 DEF Vouched, SealedFor, Making, Uploading, LiveKeeps, RunsFor, Live, At
  <2> QED
    BY <1>1, <1>10, <2>1, <2>2, OneTouched DEF NativeRestore, TypeOK
<1>11. CASE RemoveUpload(e) \/ NativeRecover(e) \/ Fail(e)
  <2>1. /\ job'[e].state \in {"failed", "succeeded"} /\ entry'[e] = entry[e]
        /\ step'[e] = "idle" /\ received' = received
    BY <1>1, <1>11 DEF RemoveUpload, NativeRecover, Fail, TypeOK, End, NoJob
  <2>2. Vouched(e)'
    BY <1>1, <2>1 DEF Vouched, SealedFor, Making, Uploading, LiveKeeps, RunsFor, Live, At, End, NoJob
  <2> QED
    BY <1>1, <1>11, <2>1, <2>2, OneTouched DEF RemoveUpload, NativeRecover, Fail, End, TypeOK
<1> QED
  BY <1>2, <1>3, <1>4, <1>5, <1>6, <1>7, <1>8, <1>9, <1>10, <1>11

\* What the node has put back was received.
LEMMA StepRestored ==
  ASSUME ConstantsOK, IInv, [Next]_vars
  PROVE  RestoredIsReceived'
<1>1. ASSUME NEW e \in Entry, NativeRestore(e)
      PROVE  RestoredIsReceived'
  <2>1. /\ At(e, "restore", "native") /\ job[e].receipt = entry[e].sum
        /\ restored' = Pair(job[e].receipt, job[e].host) /\ received' = received
    BY <1>1 DEF NativeRestore, InboxMatches, Pair
  <2>2. entry[e].state = "ready" /\ job[e].host = entry[e].binding
    BY <2>1 DEF IInv, Vouched, LiveKeeps, RunsFor, At, Live
  <2>3. Pair(entry[e].sum, entry[e].binding) \in received
    BY <2>2 DEF IInv, Vouched, SealedFor
  <2> QED
    BY <2>1, <2>2, <2>3 DEF RestoredIsReceived
<1>2. CASE ~ \E e \in Entry : NativeRestore(e)
  <2>1. restored' = restored /\ received \subseteq received'
    BY <1>2 DEF Next, vars, EditNode, PanelCrash, Create, Start, Upload, NativeBackup,
      OperatorChanges, UploadOpens, UploadFails, SealUpload, StartRefused, Run, RunRefused,
      Download, SealBackup, UploadArchive, RemoveUpload, NativeRecover, Fail, Discard, Expire
  <2> QED
    BY <2>1 DEF IInv, RestoredIsReceived
<1> QED
  BY <1>1, <1>2

\* A crash ends every job and request, and keeps what is on disk.
LEMMA CrashKeeps ==
  ASSUME ConstantsOK, IInv, PanelCrash
  PROVE  TypeOK' /\ HistoryOK' /\ \A x \in Entry : Vouched(x)'
<1>1. /\ TypeOK /\ HistoryOK /\ \A x \in Entry : Vouched(x)
      /\ \A x \in Entry : job[x] \in JobRecord
  BY DEF IInv, TypeOK
<1>2. \A x \in Entry : [NoJob EXCEPT !.state = "failed"] \in JobRecord
  BY PlainRecords DEF JobRecord
<1>3. TypeOK' /\ HistoryOK'
  BY <1>1, <1>2 DEF PanelCrash, TypeOK, HistoryOK
<1>4. ASSUME NEW x \in Entry PROVE Vouched(x)'
  <2>1. /\ entry'[x] = entry[x] /\ step'[x] = "idle" /\ received' = received
        /\ job'[x].state \notin {"queued", "running"}
    BY <1>4 DEF PanelCrash, Live, NoJob
  <2> QED
    BY <1>1, <2>1 DEF Vouched, SealedFor, Making, Uploading, LiveKeeps, RunsFor, Live, At
<1> QED
  BY <1>3, <1>4

LEMMA StepIInv ==
  ASSUME ConstantsOK, IInv, [Next]_vars
  PROVE  IInv'
<1>1. RestoredIsReceived'
  BY StepRestored
<1>2. TypeOK' /\ HistoryOK' /\ \A x \in Entry : Vouched(x)'
  <2>1. CASE EditNode
    <3>1. UNCHANGED <<entry, job, step, holder, received, restored>> /\ identity' \in 1..MaxIdentity
      BY <2>1 DEF EditNode, IInv, TypeOK, ConstantsOK
    <3>2. TypeOK' /\ HistoryOK'
      BY <3>1 DEF IInv, TypeOK, HistoryOK
    <3> QED
      BY <3>1, <3>2, Kept DEF IInv
  <2>2. CASE PanelCrash
    BY <2>2, CrashKeeps
  <2>3. ASSUME NEW e \in Entry, NEW kind \in {"backup", "upload", "recovery"}, Create(e, kind)
        PROVE  TypeOK' /\ HistoryOK' /\ \A x \in Entry : Vouched(x)'
    BY <2>3, TypesOfMaking, VouchedCreate
  <2>4. ASSUME NEW e \in Entry,
               \/ \E b \in Bytes : Upload(e, b) \/ OperatorChanges(e, b)
               \/ UploadOpens(e) \/ UploadFails(e) \/ SealUpload(e)
               \/ Discard(e) \/ Expire(e)
        PROVE  TypeOK' /\ HistoryOK' /\ \A x \in Entry : Vouched(x)'
    BY <2>4, TypesOfMaking, VouchedStore
  <2>5. ASSUME NEW e \in Entry,
               \/ \E action \in {"backup", "restore", "recovery"} : Start(e, action)
               \/ \E b \in Bytes : NativeBackup(e, b)
               \/ StartRefused(e) \/ Run(e) \/ RunRefused(e) \/ Download(e) \/ SealBackup(e)
               \/ UploadArchive(e) \/ NativeRestore(e) \/ RemoveUpload(e) \/ NativeRecover(e)
               \/ Fail(e)
        PROVE  TypeOK' /\ HistoryOK' /\ \A x \in Entry : Vouched(x)'
    BY <2>5, TypesOfJobs, VouchedJobs
  <2>6. CASE UNCHANGED vars
    <3>1. TypeOK' /\ HistoryOK'
      BY <2>6 DEF vars, IInv, TypeOK, HistoryOK
    <3> QED
      BY <2>6, <3>1, Kept DEF vars, IInv
  <2> QED
    BY <2>1, <2>2, <2>3, <2>4, <2>5, <2>6 DEF Next
<1> QED
  BY <1>1, <1>2 DEF IInv

LEMMA InitIInv ==
  ASSUME ConstantsOK, Init
  PROVE  IInv
<1>1. Gone \in EntryRecord /\ NoJob \in JobRecord /\ 1 \in 1..MaxIdentity /\ 0 \in 0..MaxIdentity
  BY PlainRecords DEF ConstantsOK
<1>2. TypeOK /\ HistoryOK
  BY <1>1 DEF Init, TypeOK, HistoryOK
<1>3. RestoredIsReceived
  BY DEF Init, RestoredIsReceived
<1>4. ASSUME NEW x \in Entry PROVE Vouched(x)
  <2>1. entry[x] = Gone /\ job[x] = NoJob /\ step[x] = "idle"
    BY DEF Init
  <2> QED
    BY <2>1 DEF Gone, NoJob, Vouched, SealedFor, Making, Uploading, LiveKeeps, RunsFor, Live, At
<1> QED
  BY <1>2, <1>3, <1>4 DEF IInv

LEMMA AlwaysIInv ==
  ASSUME ConstantsOK
  PROVE  Spec => []IInv
<1>1. Init => IInv
  BY InitIInv
<1>2. IInv /\ [Next]_vars => IInv'
  BY StepIInv
<1> QED
  BY <1>1, <1>2, PTL DEF Spec

-----------------------------------------------------------------------------
(* The store's records, jobs and threads keep their types: no step of any     *)
(* interleaving seals a file that is only partly there.                       *)
THEOREM ArchiveTypes ==
  ASSUME ConstantsOK
  PROVE  Spec => []TypeOK
<1>1. IInv => TypeOK
  BY DEF IInv
<1> QED
  BY <1>1, AlwaysIInv, PTL

(* What a node puts back was received whole by the controller for the row     *)
(* the restore addresses (node_archives.py, archive_store.py and              *)
(* archive_remote.py), for any number of archives and of edits of the row.    *)
THEOREM RestoresReceived ==
  ASSUME ConstantsOK
  PROVE  Spec => []RestoredIsReceived
<1>1. IInv => RestoredIsReceived
  BY DEF IInv
<1> QED
  BY <1>1, AlwaysIInv, PTL

(* Neither clean-up nor discard (archive_store.py, node_archives.py) takes    *)
(* the entry of a job that is queued or running, however many jobs and        *)
(* entries there are.                                                         *)
THEOREM JobsKeepArchives ==
  ASSUME ConstantsOK
  PROVE  Spec => []RunningKeepsArchive
<1>1. IInv => RunningKeepsArchive
  BY DEF IInv, Vouched, LiveKeeps, RunningKeepsArchive
<1> QED
  BY <1>1, AlwaysIInv, PTL

--------------------------------------------------------------------------------
(***************************************************************************)
(* Deployments. A node is registered by a job that has seen its transaction *)
(* become ready, and from then on nobody rolls that transaction back: only *)
(* the job itself could ask for it, or an operator, and both ask the row.  *)
(* What is still to be registered is safe for the same reason: a rollback  *)
(* of the current deployment is only asked for when its job is over        *)
(* (Calls), so none is served between "ready" and the commit (Working).    *)
(***************************************************************************)
JobTypes ==
    /\ mode \in {"fresh", "adopt"}
    /\ row \in Deployments!Deploy \cup {Deployments!Legacy, Deployments!Absent}
    /\ trust \in Deployments!Deploy \cup {Deployments!Absent}
    /\ cur \in 0 .. MaxDeploys
    /\ pc \in {"idle", "ssh", "trust", "verify", "commit", "refresh", "finalize", "proof", "undo", "stuck"}
    /\ told \in {"nothing", "ready", "done"}
    /\ net \in SUBSET (Deployments!Deploy \X Deployments!Call)
    /\ faults \in 0 .. MaxFaults

HostTypes ==
    /\ tx \in Deployments!Deploy \cup {Deployments!Absent}
    /\ phase \in {"none", "installing", "ready", "finalized", "rolled_back"}
    /\ intent \in SUBSET Deployments!Intent
    /\ pki \in {"empty", "partial", "whole"} /\ staged \in {"none", "partial", "whole"}
    /\ units \in {"none", "noted", "written", "removed"}
    /\ hooks \in {"legacy", "native"}
    /\ op \in Deployments!Call \cup {"none"}

SwitchTypes == loaded \in BOOLEAN /\ pinned \in BOOLEAN /\ legacy \in BOOLEAN /\ native \in BOOLEAN /\ vpn \in BOOLEAN

Stage == {"stage", "build", "publish", "units", "vpn", "agent", "hooks", "ready"}

\* Deployments are numbered as they come, so that the current one is new.
Numbers ==
    /\ tx \in (1 .. cur) \cup {Deployments!Absent} /\ (row \in Deployments!Deploy => row <= cur)
    /\ \A d \in Deployments!Deploy, a \in Deployments!Call : <<d, a>> \in net => d <= cur
    /\ pc # "idle" => cur \in Deployments!Deploy
    /\ op # "none" \/ phase \in {"installing", "ready"} => tx # Deployments!Absent

\* What an adopted VPN is never deprived of.
Adopted ==
    mode = "adopt" => /\ pki = "whole" /\ vpn /\ row # Deployments!Absent
                      /\ intent \subseteq {"handover", "stop"}
                      /\ hooks = "native" => "handover" \in intent

\* What the installer has done by each of its steps.
Installing ==
    op = "install" =>
        /\ phase = "installing" /\ at \in Stage
        /\ mode = "adopt" => "handover" \in intent
        /\ at \in {"stage", "build", "publish", "vpn"} => mode = "fresh"
        /\ at = "hooks" => mode = "adopt"
        /\ at = "publish" => staged = "whole"
        /\ at \in {"units", "vpn", "agent", "hooks", "ready"} => pki = "whole"
        /\ at \in {"agent", "hooks", "ready"} => vpn
        /\ at \in {"hooks", "ready"} => native

\* A node is only rolled back while it is not registered, and only finalized
\* when it is.
RollingBack ==
    op = "rollback" => /\ tx # row /\ phase # "finalized"
                       /\ mode = "adopt" /\ at # "handover" => hooks = "legacy"
Finalizing == op = "finalize" => tx = row /\ (at = "stop" => hooks = "native")
Unregistered == phase = "installing" => tx # row

\* What the job knows of the node it is about to register.
Working ==
    pc \in {"trust", "verify", "commit"} \/ (pc = "ssh" /\ told = "ready") =>
        /\ tx = cur /\ phase = "ready" /\ op = "none"
        /\ native /\ vpn /\ pki = "whole"
        /\ pc \in {"verify", "commit"} => trust = cur
JobRow == /\ pc \in {"ssh", "trust", "verify", "commit"} => row # cur
          /\ pc \in {"refresh", "finalize"} => row = cur

\* Nobody asks to roll back what is, or may yet be, registered.
Calls ==
    /\ \A d \in Deployments!Deploy : <<d, "rollback">> \in net =>
         d # row /\ (d = cur => pc \in {"idle", "undo", "stuck"})
    /\ \A d \in Deployments!Deploy : <<d, "finalize">> \in net => d = row

DeployInv ==
    /\ JobTypes /\ HostTypes /\ SwitchTypes
    /\ Numbers /\ Adopted /\ Installing /\ RollingBack /\ Finalizing /\ Unregistered
    /\ Working /\ JobRow /\ Calls /\ RegisteredServed /\ AgentBehindRow

\* The job: what it concludes from answers, and what it asks for.
LEMMA JobSteps ==
  ASSUME DeployInv,
         \/ Deployments!Start \/ Deployments!Installed \/ Deployments!NotInstalled \/ Deployments!SaveTrust
         \/ Deployments!TrustFails \/ Deployments!Verify \/ Deployments!Commit \/ Deployments!CommitFails
         \/ Deployments!Finalize \/ Deployments!RefreshFails \/ Deployments!Proof \/ Deployments!Settled
         \/ Deployments!PanelCrash
  PROVE  DeployInv'
<1> USE BoundAssumption DEF DeployInv, JobTypes, HostTypes, SwitchTypes, Numbers, Adopted, Installing, RollingBack,
      Finalizing, Unregistered, Working, JobRow, Calls, RegisteredServed, AgentBehindRow, Stage,
      Deployments!RegisteredServed, Deployments!AgentBehindRow, Deployments!Deploy, Deployments!Call,
      Deployments!Intent, Deployments!Absent, Deployments!Legacy, Deployments!Fault, Deployments!Send,
      Deployments!Quiet, Deployments!End, Deployments!Remote, Deployments!Panel, Deployments!Reply, Deployments!Take,
      Deployments!Goto, Deployments!Done, Deployments!panelVars, Deployments!callVars, Deployments!unitVars,
      Deployments!pkiVars, Deployments!agentVars, Deployments!hostVars
<1>1. CASE Deployments!Start
  <2>1. \A d \in Deployments!Deploy, a \in Deployments!Call : <<d, a>> \in net' => <<d, a>> \in net \/ (d = cur' /\ a = "install")
    BY <1>1 DEF Deployments!Start
  <2>2. cur' = cur + 1 /\ \A d \in Deployments!Deploy, a \in Deployments!Call : <<d, a>> \in net => d # cur'
    BY <1>1 DEF Deployments!Start
  <2>3. Calls'
    BY <1>1, <2>1, <2>2 DEF Deployments!Start
  <2>4. (JobTypes /\ HostTypes /\ SwitchTypes /\ Numbers)'
    BY <1>1 DEF Deployments!Start
  <2> QED
    BY <1>1, <2>3, <2>4 DEF Deployments!Start
<1>2. CASE Deployments!Installed
  BY <1>2 DEF Deployments!Installed
<1>3. CASE Deployments!NotInstalled
  BY <1>3 DEF Deployments!NotInstalled
<1>4. CASE Deployments!SaveTrust
  BY <1>4 DEF Deployments!SaveTrust
<1>5. CASE Deployments!TrustFails
  BY <1>5 DEF Deployments!TrustFails
<1>6. CASE Deployments!Verify
  BY <1>6 DEF Deployments!Verify
<1>7. CASE Deployments!Commit
  BY <1>7 DEF Deployments!Commit
<1>8. CASE Deployments!CommitFails
  BY <1>8 DEF Deployments!CommitFails
<1>9. CASE Deployments!Finalize
  BY <1>9 DEF Deployments!Finalize
<1>10. CASE Deployments!RefreshFails
  BY <1>10 DEF Deployments!RefreshFails
<1>11. CASE Deployments!Proof
  BY <1>11 DEF Deployments!Proof
<1>12. CASE Deployments!Settled
  BY <1>12 DEF Deployments!Settled
<1>13. CASE Deployments!PanelCrash
  BY <1>13 DEF Deployments!PanelCrash
<1> QED
  BY <1>1, <1>2, <1>3, <1>4, <1>5, <1>6, <1>7, <1>8, <1>9, <1>10, <1>11, <1>12, <1>13

\* The installer, up to ready.
LEMMA InstallSteps ==
  ASSUME DeployInv,
         \/ Deployments!StagePKI \/ Deployments!BuildPKI \/ Deployments!Publish \/ Deployments!InstallOwned
         \/ Deployments!StartVpn \/ Deployments!StartAgent \/ Deployments!ActivateHandover \/ Deployments!BecomeReady
         \/ Deployments!InstallFails
  PROVE  DeployInv'
<1> USE BoundAssumption DEF DeployInv, JobTypes, HostTypes, SwitchTypes, Numbers, Adopted, Installing, RollingBack,
      Finalizing, Unregistered, Working, JobRow, Calls, RegisteredServed, AgentBehindRow, Stage,
      Deployments!RegisteredServed, Deployments!AgentBehindRow, Deployments!Deploy, Deployments!Call,
      Deployments!Intent, Deployments!Absent, Deployments!Legacy, Deployments!Fault, Deployments!Send,
      Deployments!Quiet, Deployments!End, Deployments!Remote, Deployments!Panel, Deployments!Reply, Deployments!Take,
      Deployments!Goto, Deployments!Done, Deployments!panelVars, Deployments!callVars, Deployments!unitVars,
      Deployments!pkiVars, Deployments!agentVars, Deployments!hostVars
<1>1. CASE Deployments!StagePKI
  BY <1>1 DEF Deployments!StagePKI
<1>2. CASE Deployments!BuildPKI
  BY <1>2 DEF Deployments!BuildPKI
<1>3. CASE Deployments!Publish
  BY <1>3 DEF Deployments!Publish
<1>4. CASE Deployments!InstallOwned
  <2>1. JobTypes' /\ HostTypes'
    BY <1>4 DEF Deployments!InstallOwned
  <2>2. SwitchTypes'
    BY <1>4 DEF Deployments!InstallOwned
  <2> QED
    BY <1>4, <2>1, <2>2 DEF Deployments!InstallOwned
<1>5. CASE Deployments!StartVpn
  <2>1. intent' \in SUBSET Deployments!Intent
    BY <1>5 DEF Deployments!StartVpn
  <2>2. JobTypes'
    BY <1>5 DEF Deployments!StartVpn
  <2>3. HostTypes'
    BY <1>5, <2>1 DEF Deployments!StartVpn
  <2>4. SwitchTypes'
    BY <1>5 DEF Deployments!StartVpn
  <2> QED
    BY <1>5, <2>2, <2>3, <2>4 DEF Deployments!StartVpn
<1>6. CASE Deployments!StartAgent
  BY <1>6 DEF Deployments!StartAgent
<1>7. CASE Deployments!ActivateHandover
  BY <1>7 DEF Deployments!ActivateHandover
<1>8. CASE Deployments!BecomeReady
  BY <1>8 DEF Deployments!BecomeReady
<1>9. CASE Deployments!InstallFails
  BY <1>9 DEF Deployments!InstallFails
<1> QED
  BY <1>1, <1>2, <1>3, <1>4, <1>5, <1>6, <1>7, <1>8, <1>9

\* The installer's rollback.
LEMMA RollbackSteps ==
  ASSUME DeployInv,
         \/ Deployments!RestoreHandover \/ Deployments!StopServices \/ Deployments!RemoveOwned \/ Deployments!RetainPKI
         \/ Deployments!Reload \/ Deployments!RolledBack \/ Deployments!RollbackRaises
  PROVE  DeployInv'
<1> USE BoundAssumption DEF DeployInv, JobTypes, HostTypes, SwitchTypes, Numbers, Adopted, Installing, RollingBack,
      Finalizing, Unregistered, Working, JobRow, Calls, RegisteredServed, AgentBehindRow, Stage,
      Deployments!RegisteredServed, Deployments!AgentBehindRow, Deployments!Deploy, Deployments!Call,
      Deployments!Intent, Deployments!Absent, Deployments!Legacy, Deployments!Fault, Deployments!Send,
      Deployments!Quiet, Deployments!End, Deployments!Remote, Deployments!Panel, Deployments!Reply, Deployments!Take,
      Deployments!Goto, Deployments!Done, Deployments!panelVars, Deployments!callVars, Deployments!unitVars,
      Deployments!pkiVars, Deployments!agentVars, Deployments!hostVars
<1>1. CASE Deployments!RestoreHandover
  BY <1>1 DEF Deployments!RestoreHandover
<1>2. CASE Deployments!StopServices
  <2>1. JobTypes' /\ HostTypes'
    BY <1>2 DEF Deployments!StopServices, Deployments!Stoppable
  <2>2. SwitchTypes'
    BY <1>2 DEF Deployments!StopServices, Deployments!Stoppable
  <2> QED
    BY <1>2, <2>1, <2>2 DEF Deployments!StopServices, Deployments!Stoppable
<1>3. CASE Deployments!RemoveOwned
  <2>1. JobTypes' /\ HostTypes'
    BY <1>3 DEF Deployments!RemoveOwned
  <2>2. SwitchTypes'
    BY <1>3 DEF Deployments!RemoveOwned
  <2> QED
    BY <1>3, <2>1, <2>2 DEF Deployments!RemoveOwned
<1>4. CASE Deployments!RetainPKI
  BY <1>4 DEF Deployments!RetainPKI, Deployments!Published
<1>5. CASE Deployments!Reload
  BY <1>5 DEF Deployments!Reload
<1>6. CASE Deployments!RolledBack
  BY <1>6 DEF Deployments!RolledBack
<1>7. CASE Deployments!RollbackRaises
  BY <1>7 DEF Deployments!RollbackRaises, Deployments!Stoppable
<1> QED
  BY <1>1, <1>2, <1>3, <1>4, <1>5, <1>6, <1>7

\* The installer's finalize, and what interrupts an installer.
LEMMA FinalizeSteps ==
  ASSUME DeployInv,
         \/ Deployments!MarkStop \/ Deployments!StopLegacy \/ Deployments!Finalized \/ Deployments!InstallerDies
         \/ Deployments!Reboot \/ Deployments!VpnRestarts \/ Deployments!OperatorResolves
  PROVE  DeployInv'
<1> USE BoundAssumption DEF DeployInv, JobTypes, HostTypes, SwitchTypes, Numbers, Adopted, Installing, RollingBack,
      Finalizing, Unregistered, Working, JobRow, Calls, RegisteredServed, AgentBehindRow, Stage,
      Deployments!RegisteredServed, Deployments!AgentBehindRow, Deployments!Deploy, Deployments!Call,
      Deployments!Intent, Deployments!Absent, Deployments!Legacy, Deployments!Fault, Deployments!Send,
      Deployments!Quiet, Deployments!End, Deployments!Remote, Deployments!Panel, Deployments!Reply, Deployments!Take,
      Deployments!Goto, Deployments!Done, Deployments!panelVars, Deployments!callVars, Deployments!unitVars,
      Deployments!pkiVars, Deployments!agentVars, Deployments!hostVars
<1>1. CASE Deployments!MarkStop
  BY <1>1 DEF Deployments!MarkStop
<1>2. CASE Deployments!StopLegacy
  <2>1. JobTypes' /\ HostTypes'
    BY <1>2 DEF Deployments!StopLegacy
  <2>2. SwitchTypes'
    BY <1>2 DEF Deployments!StopLegacy
  <2> QED
    BY <1>2, <2>1, <2>2 DEF Deployments!StopLegacy
<1>3. CASE Deployments!Finalized
  BY <1>3 DEF Deployments!Finalized
<1>4. CASE Deployments!InstallerDies
  BY <1>4 DEF Deployments!InstallerDies
<1>5. CASE Deployments!Reboot
  BY <1>5 DEF Deployments!Reboot
<1>6. CASE Deployments!VpnRestarts
  <2>1. JobTypes' /\ HostTypes'
    BY <1>6 DEF Deployments!VpnRestarts
  <2>2. SwitchTypes'
    BY <1>6 DEF Deployments!VpnRestarts
  <2> QED
    BY <1>6, <2>1, <2>2 DEF Deployments!VpnRestarts
<1>7. CASE Deployments!OperatorResolves
  BY <1>7 DEF Deployments!OperatorResolves
<1> QED
  BY <1>1, <1>2, <1>3, <1>4, <1>5, <1>6, <1>7

\* A call is served, or refused.
LEMMA CallSteps ==
  ASSUME DeployInv, NEW d \in Deployments!Deploy, NEW a \in Deployments!Call,
         \/ Deployments!ServeInstall(d) \/ Deployments!ServeRollback(d) \/ Deployments!ServeFinalize(d)
         \/ Deployments!Refuse(d, a)
  PROVE  DeployInv'
<1> USE BoundAssumption DEF DeployInv, JobTypes, HostTypes, SwitchTypes, Numbers, Adopted, Installing, RollingBack,
      Finalizing, Unregistered, Working, JobRow, Calls, RegisteredServed, AgentBehindRow, Stage,
      Deployments!RegisteredServed, Deployments!AgentBehindRow, Deployments!Deploy, Deployments!Call,
      Deployments!Intent, Deployments!Absent, Deployments!Legacy, Deployments!Fault, Deployments!Send,
      Deployments!Quiet, Deployments!End, Deployments!Remote, Deployments!Panel, Deployments!Reply, Deployments!Take,
      Deployments!Goto, Deployments!Done, Deployments!panelVars, Deployments!callVars, Deployments!unitVars,
      Deployments!pkiVars, Deployments!agentVars, Deployments!hostVars
<1>1. CASE Deployments!ServeInstall(d)
  <2>1. d <= cur /\ tx' = d
    BY <1>1 DEF Deployments!ServeInstall
  <2>2. tx' \in 1 .. cur
    BY <2>1
  <2>3. Numbers'
    BY <1>1, <2>2 DEF Deployments!ServeInstall
  <2>4. (JobTypes /\ HostTypes /\ SwitchTypes)'
    BY <1>1 DEF Deployments!ServeInstall
  <2> QED
    BY <1>1, <2>3, <2>4 DEF Deployments!ServeInstall, Deployments!NoTransaction
<1>2. CASE Deployments!ServeRollback(d)
  BY <1>2 DEF Deployments!ServeRollback
<1>3. CASE Deployments!ServeFinalize(d)
  BY <1>3 DEF Deployments!ServeFinalize
<1>4. CASE Deployments!Refuse(d, a)
  BY <1>4 DEF Deployments!Refuse
<1> QED
  BY <1>1, <1>2, <1>3, <1>4

LEMMA DeployInit ==
  Begins => DeployInv
<1> SUFFICES ASSUME Begins  PROVE DeployInv
  OBVIOUS
<1> USE BoundAssumption DEF DeployInv, JobTypes, HostTypes, SwitchTypes, Numbers, Adopted, Installing, RollingBack,
      Finalizing, Unregistered, Working, JobRow, Calls, RegisteredServed, AgentBehindRow, Stage,
      Deployments!RegisteredServed, Deployments!AgentBehindRow, Deployments!Deploy, Deployments!Call,
      Deployments!Intent, Deployments!Absent, Deployments!Legacy, Deployments!Fault, Deployments!Send,
      Deployments!Quiet, Deployments!End, Deployments!Remote, Deployments!Panel, Deployments!Reply, Deployments!Take,
      Deployments!Goto, Deployments!Done, Deployments!panelVars, Deployments!callVars, Deployments!unitVars,
      Deployments!pkiVars, Deployments!agentVars, Deployments!hostVars
<1>1. CASE mode = "fresh"
  <2>1. JobTypes /\ HostTypes
    BY <1>1 DEF Begins, Deployments!Init
  <2>2. SwitchTypes /\ (legacy <=> mode = "adopt") /\ (vpn <=> mode = "adopt")
    BY <1>1 DEF Begins, Deployments!Init
  <2>3. Numbers /\ Installing /\ RollingBack /\ Finalizing /\ Unregistered /\ Working /\ JobRow /\ Calls
    BY <1>1 DEF Begins, Deployments!Init
  <2> QED
    BY <1>1, <2>1, <2>2, <2>3 DEF Begins, Deployments!Init
<1>2. CASE mode = "adopt"
  <2>1. JobTypes /\ HostTypes
    BY <1>2 DEF Begins, Deployments!Init
  <2>2. SwitchTypes /\ (legacy <=> mode = "adopt") /\ (vpn <=> mode = "adopt")
    BY <1>2 DEF Begins, Deployments!Init
  <2>3. Numbers /\ Installing /\ RollingBack /\ Finalizing /\ Unregistered /\ Working /\ JobRow /\ Calls
    BY <1>2 DEF Begins, Deployments!Init
  <2> QED
    BY <1>2, <2>1, <2>2, <2>3 DEF Begins, Deployments!Init
<1> QED
  BY <1>1, <1>2 DEF Begins, Deployments!Init

LEMMA DeployStep ==
  ASSUME DeployInv, DeploymentSteps \/ UNCHANGED deployment
  PROVE  DeployInv'
<1>1. CASE UNCHANGED deployment
  BY <1>1 DEF deployment, DeployInv, JobTypes, HostTypes, SwitchTypes, Numbers, Adopted, Installing, RollingBack,
    Finalizing, Unregistered, Working, JobRow, Calls, RegisteredServed, AgentBehindRow,
    Deployments!RegisteredServed, Deployments!AgentBehindRow
<1>2. CASE Deployments!Next
  <2>1. CASE Deployments!Start \/ Deployments!JobStep \/ Deployments!PanelCrash
    BY <2>1, JobSteps DEF Deployments!JobStep
  <2>2. CASE Deployments!InstallerStep
    BY <2>2, InstallSteps, RollbackSteps, FinalizeSteps DEF Deployments!InstallerStep
  <2>3. CASE Deployments!InstallerDies \/ Deployments!Reboot \/ Deployments!VpnRestarts \/ Deployments!OperatorResolves
    BY <2>3, FinalizeSteps
  <2>4. CASE Deployments!Serve \/ \E d \in Deployments!Deploy, a \in Deployments!Call : Deployments!Refuse(d, a)
    <3>1. "install" \in Deployments!Call
      BY DEF Deployments!Call
    <3> QED
      BY <2>4, <3>1, CallSteps DEF Deployments!Serve
  <2> QED
    BY <1>2, <2>1, <2>2, <2>3, <2>4 DEF Deployments!Next
<1> QED
  BY <1>1, <1>2 DEF DeploymentSteps

LEMMA DeployInvariance ==
  HostJobs => []DeployInv
<1>1. DeployInv /\ [DeploymentSteps \/ ArchivesSteps]_<<part, deployment, archives>> => DeployInv'
  BY DeployStep DEF ArchivesSteps
<1> QED
  BY <1>1, DeployInit, PTL DEF HostJobs

\* Whatever fails, is lost, is killed or is served late, for any number of
\* deployments and faults: a row that names a deployment is about a node that is
\* installed, answers and is trusted, and that is never rolled back.
THEOREM RegisteredIsServed ==
  HostJobs => []RegisteredServed
<1>1. DeployInv => RegisteredServed
  BY DEF DeployInv
<1> QED
  BY <1>1, DeployInvariance, PTL

\* The panel, and the hooks of an adopted VPN, find the agent they go to through
\* every handover and its rollback.
THEOREM HooksFindAgent ==
  HostJobs => []AgentBehindRow
<1>1. DeployInv => AgentBehindRow
  BY DEF DeployInv
<1> QED
  BY <1>1, DeployInvariance, PTL
================================================================================
