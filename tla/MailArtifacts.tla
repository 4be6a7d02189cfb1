---------------------------- MODULE MailArtifacts -----------------------------
(***************************************************************************)
(* Attachments of one user's mail drafts (internal/modules/mail).  An      *)
(* upload is an object in the private bucket and a row; drafts refer to    *)
(* uploads; maintenance retires rows that are older than 30 days and that  *)
(* no draft refers to, then deletes the object, then the row.  Saving a    *)
(* draft and retiring an upload take the same advisory lock; deleting an   *)
(* upload or a draft takes none.                                           *)
(***************************************************************************)
EXTENDS Naturals, FiniteSets

CONSTANTS
  Upload,      \* Upload calls: each mints the id of its row and object
  Draft,       \* draft ids
  Unwanted,    \* the uploads the user may ask to delete
  Maint,       \* maintenance processes
  Nobody,      \* holder of the free lock
  NoUpload,    \* no upload
  Batch        \* LIMIT of the maintenance query (200)

ASSUME ArtifactsAssumption ==
  /\ NoUpload \notin Upload
  /\ Unwanted \subseteq Upload
  /\ Nobody \notin Draft \union Maint
  /\ Draft \intersect Maint = {}
  /\ Batch \in Nat \ {0}

VARIABLES
  upPc,        \* where each Upload call stands
  told,        \* uploads whose id the client was given
  row,         \* mail_uploads: none, live, retired (retired_at is set), gone
  bytes,       \* objects in the bucket
  created, retiredAt,  \* columns of the row, 0 for NULL
  clock,       \* the latest time written to a row
  cutoff,      \* rows created up to here are older than 30 days
  refs,        \* the attachments of each draft; {} also stands for no draft
  lock, saving,\* holder of the artifacts lock; what the draft's save wants to write
  delPc,       \* the DeleteUpload calls of each upload, "idle" before the first one
  mpc, mjob,   \* each maintenance process: its step and upload
  mtodo        \* what is left of its batch

uploadVars == <<upPc, told>>
rowVars    == <<row, bytes, created, retiredAt, clock>>
draftVars  == <<refs, saving>>
maintVars  == <<mpc, mjob, mtodo>>
vars == <<uploadVars, rowVars, cutoff, draftVars, lock, delPc, maintVars>>

UploadStep == {"idle", "stored", "discard", "done"}
RowState   == {"none", "live", "retired", "gone"}
DeleteStep == {"idle", "found", "removed", "done"}
MaintStep  == {"idle", "next", "mark", "bytes", "row"}

Present(u) == row[u] \in {"live", "retired"}

TypeOK ==
  /\ upPc \in [Upload -> UploadStep]
  /\ told \subseteq Upload
  /\ row \in [Upload -> RowState]
  /\ bytes \subseteq Upload
  /\ created \in [Upload -> Nat] /\ \A u \in Upload : Present(u) => created[u] > 0
  /\ retiredAt \in [Upload -> Nat]
  /\ clock \in Nat /\ cutoff \in Nat
  /\ refs \in [Draft -> SUBSET Upload] /\ saving \subseteq Upload
  /\ lock \in {Nobody} \union Draft \union Maint
  /\ delPc \in [Upload -> DeleteStep]
  /\ mpc \in [Maint -> MaintStep]
  /\ mjob \in [Maint -> Upload \union {NoUpload}]
  /\ mtodo \in [Maint -> SUBSET Upload]

Init ==
  /\ upPc = [u \in Upload |-> "idle"] /\ told = {}
  /\ row = [u \in Upload |-> "none"] /\ bytes = {}
  /\ created = [u \in Upload |-> 0] /\ retiredAt = [u \in Upload |-> 0]
  /\ clock = 0 /\ cutoff = 0
  /\ refs = [d \in Draft |-> {}] /\ saving = {}
  /\ lock = Nobody
  /\ delPc = [u \in Upload |-> "idle"]
  /\ mpc = [x \in Maint |-> "idle"] /\ mjob = [x \in Maint |-> NoUpload]
  /\ mtodo = [x \in Maint |-> {}]

------------------------------------------------------------------------------
(* Upload *)

UpGoto(u, step) == upPc' = [upPc EXCEPT ![u] = step]

\* store.Put; a reported failure may or may not have stored the object.
UploadPut(u) ==
  /\ upPc[u] = "idle"
  /\ \/ UpGoto(u, "stored") /\ bytes' = bytes \union {u}
     \/ UpGoto(u, "done") /\ bytes' \in {bytes, bytes \union {u}}
  /\ UNCHANGED <<told, row, created, retiredAt, clock>>
  /\ UNCHANGED <<cutoff, draftVars, lock, delPc, maintVars>>

NewRow(u) ==
  /\ row' = [row EXCEPT ![u] = "live"]
  /\ clock' = clock + 1 /\ created' = [created EXCEPT ![u] = clock + 1]

\* db.Create: done, failed, or committed with the acknowledgement lost.
UploadInsert(u) ==
  /\ upPc[u] = "stored"
  /\ \/ NewRow(u) /\ UpGoto(u, "done") /\ told' = told \union {u}
     \/ NewRow(u) /\ UpGoto(u, "discard") /\ UNCHANGED told
     \/ UpGoto(u, "discard") /\ UNCHANGED <<told, row, created, clock>>
  /\ UNCHANGED <<bytes, retiredAt>>
  /\ UNCHANGED <<cutoff, draftVars, lock, delPc, maintVars>>

\* A failed insert takes the object away, if it can.
UploadDiscard(u) ==
  /\ upPc[u] = "discard"
  /\ UpGoto(u, "done")
  /\ bytes' \in {bytes, bytes \ {u}}
  /\ UNCHANGED <<told, row, created, retiredAt, clock>>
  /\ UNCHANGED <<cutoff, draftVars, lock, delPc, maintVars>>

------------------------------------------------------------------------------
(* DeleteUpload *)

DelGoto(u, step) == delPc' = [delPc EXCEPT ![u] = step]

DeleteFind(u) ==
  /\ delPc[u] \in {"idle", "done"}
  /\ u \in told \intersect Unwanted /\ Present(u)
  /\ DelGoto(u, "found")
  /\ UNCHANGED <<uploadVars, rowVars, cutoff, draftVars, lock, maintVars>>

DeleteBytes(u) ==
  /\ delPc[u] = "found"
  /\ \/ bytes' = bytes \ {u} /\ DelGoto(u, "removed")
     \/ bytes' \in {bytes, bytes \ {u}} /\ DelGoto(u, "done")
  /\ UNCHANGED <<row, created, retiredAt, clock>>
  /\ UNCHANGED <<uploadVars, cutoff, draftVars, lock, maintVars>>

DeleteRow(u) ==
  /\ delPc[u] = "removed"
  /\ row' \in {row, [row EXCEPT ![u] = "gone"]}
  /\ DelGoto(u, "done")
  /\ UNCHANGED <<bytes, created, retiredAt, clock>>
  /\ UNCHANGED <<uploadVars, cutoff, draftVars, lock, maintVars>>

------------------------------------------------------------------------------
(* Drafts *)

\* Fault: a retired upload may still be attached.
AttachableRetired(u) == Present(u)
Attachable(u) == row[u] = "live"

\* SaveDraft takes the lock and looks every attachment up; one that is not
\* there makes the call fail and changes nothing.
SaveCheck(d) ==
  /\ lock = Nobody
  /\ \E S \in SUBSET told :
       /\ \A u \in S : Attachable(u)
       /\ saving' = S
  /\ lock' = d
  /\ UNCHANGED <<uploadVars, rowVars, cutoff, refs, delPc, maintVars>>

\* The transaction writes the draft, or rolls back (stale revision, crash).
SaveWrite(d) ==
  /\ lock = d
  /\ refs' \in {refs, [refs EXCEPT ![d] = saving]}
  /\ saving' = {}
  /\ lock' = Nobody
  /\ UNCHANGED <<uploadVars, rowVars, cutoff, delPc, maintVars>>

\* By the user, or by a send that removes the draft it sent.
DeleteDraft(d) ==
  /\ refs[d] # {}
  /\ refs' = [refs EXCEPT ![d] = {}]
  /\ UNCHANGED <<uploadVars, rowVars, cutoff, saving, lock, delPc, maintVars>>

------------------------------------------------------------------------------
(* The uploads part of RunMaintenance *)

Old(u) == created[u] <= cutoff
Referenced(u) == \E d \in Draft : u \in refs[d]

\* Fault: a retired row is not selected again.
SelectableLive(u) == row[u] = "live" /\ Old(u)
Selectable(u) == row[u] = "retired" \/ (row[u] = "live" /\ Old(u))

\* ORDER BY COALESCE(retired_at, created_at) LIMIT Batch.
Stamp(u) == IF retiredAt[u] > 0 THEN retiredAt[u] ELSE created[u]
Selected ==
  LET rows == {u \in Upload : Selectable(u)} IN
  {u \in rows : Cardinality({v \in rows : Stamp(v) < Stamp(u)}) < Batch}

MaintGoto(x, step, job) == mpc' = [mpc EXCEPT ![x] = step] /\ mjob' = [mjob EXCEPT ![x] = job]
MaintNext(x) == MaintGoto(x, "next", NoUpload)

MaintSelect(x) ==
  /\ mpc[x] = "idle"
  /\ MaintNext(x)
  /\ mtodo' = [mtodo EXCEPT ![x] = Selected]
  /\ UNCHANGED <<uploadVars, rowVars, cutoff, draftVars, lock, delPc>>

Retirable(u) == row[u] = "live" /\ Old(u) /\ ~Referenced(u)

\* The start of the transaction for one upload of the batch, taken in any order:
\* under the lock, a retired row goes on to its object, a row that may be retired
\* is marked next.  Any other row, or an error, is passed over.
MaintScan(x, u) ==
  /\ mpc[x] = "next" /\ u \in mtodo[x]
  /\ lock = Nobody
  /\ mtodo' = [mtodo EXCEPT ![x] = @ \ {u}]
  /\ \/ row[u] = "retired" /\ MaintGoto(x, "bytes", u) /\ UNCHANGED lock
     \/ Retirable(u) /\ MaintGoto(x, "mark", u) /\ lock' = x
     \/ UNCHANGED <<mpc, mjob, lock>>
  /\ UNCHANGED <<uploadVars, rowVars, cutoff, draftVars, delPc>>

\* UPDATE ... SET retired_at WHERE retired_at IS NULL, and the commit.
MaintMark(x) ==
  LET u == mjob[x] IN
  /\ mpc[x] = "mark"
  /\ \/ /\ row[u] = "live"
        /\ row' = [row EXCEPT ![u] = "retired"]
        /\ clock' = clock + 1
        /\ retiredAt' = [retiredAt EXCEPT ![u] = clock + 1]
        /\ MaintGoto(x, "bytes", u)
     \/ MaintNext(x) /\ UNCHANGED <<row, clock, retiredAt>>
  /\ lock' = Nobody
  /\ UNCHANGED <<uploadVars, bytes, created, cutoff, draftVars, delPc, mtodo>>

\* Fault: a failed deletion of the object goes unnoticed.
MaintBytesUnchecked(x) ==
  /\ mpc[x] = "bytes"
  /\ bytes' \in {bytes, bytes \ {mjob[x]}} /\ MaintGoto(x, "row", mjob[x])
  /\ UNCHANGED <<uploadVars, row, created, retiredAt, clock, cutoff, draftVars, lock, delPc, mtodo>>

\* store.Delete; on an error the retired row is kept for a later run.
MaintBytes(x) ==
  /\ mpc[x] = "bytes"
  /\ \/ bytes' = bytes \ {mjob[x]} /\ MaintGoto(x, "row", mjob[x])
     \/ bytes' \in {bytes, bytes \ {mjob[x]}} /\ MaintNext(x)
  /\ UNCHANGED <<uploadVars, row, created, retiredAt, clock, cutoff, draftVars, lock, delPc, mtodo>>

\* DELETE ... WHERE retired_at IS NOT NULL; an error leaves the row.
MaintRow(x) ==
  LET u == mjob[x] IN
  /\ mpc[x] = "row"
  /\ \/ row[u] = "retired" /\ row' = [row EXCEPT ![u] = "gone"]
     \/ UNCHANGED row
  /\ MaintNext(x)
  /\ UNCHANGED <<uploadVars, bytes, created, retiredAt, clock, cutoff, draftVars, lock, delPc, mtodo>>

MaintRest(x) ==
  /\ MaintGoto(x, "idle", NoUpload)
  /\ mtodo' = [mtodo EXCEPT ![x] = {}]
  /\ lock' = IF lock = x THEN Nobody ELSE lock
  /\ UNCHANGED <<uploadVars, rowVars, cutoff, draftVars, delPc>>

MaintEnd(x) == mpc[x] = "next" /\ mtodo[x] = {} /\ MaintRest(x)

\* The process dies; its transaction rolls back and frees the lock.
MaintCrash(x) ==
  /\ mpc[x] # "idle" /\ (mpc[x] = "next" => mtodo[x] # {})
  /\ MaintRest(x)

------------------------------------------------------------------------------
\* Another row becomes older than 30 days.
Age ==
  /\ cutoff < clock
  /\ cutoff' = cutoff + 1
  /\ UNCHANGED <<uploadVars, rowVars, draftVars, lock, delPc, maintVars>>

Maintain(x) ==
  \/ MaintMark(x) \/ MaintBytes(x) \/ MaintRow(x) \/ MaintEnd(x)
  \/ \E u \in Upload : MaintScan(x, u)

Next ==
  \/ \E u \in Upload :
       \/ UploadPut(u) \/ UploadInsert(u) \/ UploadDiscard(u)
       \/ DeleteFind(u) \/ DeleteBytes(u) \/ DeleteRow(u)
  \/ \E d \in Draft : SaveCheck(d) \/ SaveWrite(d) \/ DeleteDraft(d)
  \/ \E x \in Maint : Maintain(x) \/ MaintSelect(x) \/ MaintCrash(x)
  \/ Age

Spec == Init /\ [][Next]_vars

\* A transaction of SaveDraft ends and who waits for the lock gets it; time
\* passes; the timer starts maintenance again and again and from some time on its
\* process lives to the end of a run; neither database nor bucket refuses for ever.
FairSpec ==
  /\ Spec
  /\ WF_vars(Age)
  /\ \A d \in Draft : WF_vars(SaveWrite(d))
  /\ \A x \in Maint :
       /\ WF_vars(MaintSelect(x)) /\ SF_vars(Maintain(x))
       /\ <>[][~MaintCrash(x)]_vars
       /\ SF_vars(\E u \in Upload : MaintScan(x, u) /\ mjob'[x] = u)
       /\ SF_vars(MaintMark(x) /\ mpc'[x] = "bytes")
       /\ SF_vars(MaintBytes(x) /\ mpc'[x] = "row")
       /\ SF_vars(MaintRow(x) /\ row' # row)

------------------------------------------------------------------------------
(* Properties *)

\* "A later draft can never publish a reference to bytes that a cleanup worker
\* has already selected" (workspace_service.go): whatever save, retirement and
\* deletion interleave, an attachment of a draft has its row and its bytes,
\* unless the user himself asked to delete the upload.
AttachmentsStay ==
  \A d \in Draft : \A u \in refs[d] :
    delPc[u] = "idle" => row[u] = "live" /\ u \in bytes

\* A row is not removed before its object: failed deletions, crashes and two
\* deleters leave no bytes behind that nothing knows of.
GoneLeavesNothing == \A u \in Upload : row[u] = "gone" => u \notin bytes

\* "remove unreferenced compose uploads older than 30 days" (docs/operations):
\* an expired upload is removed, unless a draft refers to it meanwhile.
ExpiredUploadsLeave ==
  \A u \in Upload : Present(u) /\ Old(u) ~> row[u] = "gone" \/ Referenced(u)
==============================================================================
