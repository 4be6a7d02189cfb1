------------------------- MODULE MailArtifactsProofs -------------------------
(***************************************************************************)
(* Draft attachments are safe from maintenance, and no row is removed      *)
(* before its object, for any number of uploads, drafts and maintenance    *)
(* processes.  The induction rests on what the advisory lock protects:     *)
(* while a retirement is being decided no draft save is under way, and     *)
(* once a row is retired no draft can come to refer to it.                 *)
(***************************************************************************)
EXTENDS MailArtifacts, TLAPS

\* The life of an upload: its row follows its call, its bytes are there while
\* the row is live and nobody asked to delete it.
Known ==
  \A u \in Upload :
    /\ upPc[u] \in {"idle", "stored"} => row[u] = "none"
    /\ upPc[u] = "stored" => u \in bytes
    /\ u \in told => upPc[u] = "done" /\ row[u] # "none"
    /\ delPc[u] # "idle" => u \in told
    /\ delPc[u] = "removed" => u \notin bytes
    /\ u \in told /\ row[u] = "live" /\ delPc[u] = "idle" => u \in bytes

\* What a maintenance process may rely on when it acts on an upload.
Maintained ==
  \A x \in Maint :
    /\ mpc[x] \in {"mark", "bytes", "row"} => mjob[x] \in Upload
    /\ mpc[x] = "mark" => lock = x /\ \A d \in Draft : mjob[x] \notin refs[d]
    /\ mpc[x] \in {"bytes", "row"} => row[mjob[x]] \in {"retired", "gone"}
    /\ mpc[x] = "row" => mjob[x] \notin bytes

\* An attachment was handed out and is live, unless it was asked to be deleted.
Usable(u) == u \in told /\ (delPc[u] = "idle" => row[u] = "live")
Saving == (lock \notin Draft => saving = {}) /\ \A u \in saving : Usable(u)
Attached == \A d \in Draft : \A u \in refs[d] : Usable(u)

IInv == TypeOK /\ Known /\ Maintained /\ Saving /\ Attached /\ GoneLeavesNothing

USE ArtifactsAssumption
USE DEF uploadVars, rowVars, draftVars, maintVars, UploadStep, RowState, DeleteStep,
        MaintStep, Present, Usable

LEMMA InitIInv == Init => IInv
BY DEF Init, IInv, TypeOK, Known, Maintained, Saving, Attached, GoneLeavesNothing

\* An Upload call touches only what nobody has been told of yet.
LEMMA UploadKeepsIInv ==
  ASSUME IInv, NEW u \in Upload, UploadPut(u) \/ UploadInsert(u) \/ UploadDiscard(u)
  PROVE  IInv'
<1> USE DEF IInv, UpGoto
<1>1. CASE UploadPut(u)
  <2> USE <1>1 DEF UploadPut
  <2>1. TypeOK'
    BY DEF TypeOK
  <2>2. Known' /\ GoneLeavesNothing'
    BY DEF TypeOK, Known, GoneLeavesNothing
  <2>3. Maintained'
    BY DEF TypeOK, Known, Maintained
  <2>4. Saving' /\ Attached'
    BY DEF Saving, Attached
  <2> QED
    BY <2>1, <2>2, <2>3, <2>4
<1>2. CASE UploadInsert(u)
  <2> USE <1>2 DEF UploadInsert, NewRow
  <2>1. TypeOK'
    BY DEF TypeOK
  <2>2. Known' /\ GoneLeavesNothing'
    BY DEF TypeOK, Known, GoneLeavesNothing
  <2>3. Maintained'
    BY DEF TypeOK, Known, Maintained
  <2>4. Saving' /\ Attached'
    BY DEF TypeOK, Known, Saving, Attached
  <2> QED
    BY <2>1, <2>2, <2>3, <2>4
<1>3. CASE UploadDiscard(u)
  <2> USE <1>3 DEF UploadDiscard
  <2>1. TypeOK'
    BY DEF TypeOK
  <2>2. Known' /\ GoneLeavesNothing'
    BY DEF TypeOK, Known, GoneLeavesNothing
  <2>3. Maintained'
    BY DEF TypeOK, Maintained
  <2>4. Saving' /\ Attached'
    BY DEF Saving, Attached
  <2> QED
    BY <2>1, <2>2, <2>3, <2>4
<1> QED
  BY <1>1, <1>2, <1>3

\* The user may take bytes and row away; the upload then counts as unwanted.
LEMMA DeleteKeepsIInv ==
  ASSUME IInv, NEW u \in Upload, DeleteFind(u) \/ DeleteBytes(u) \/ DeleteRow(u)
  PROVE  IInv'
<1> USE DEF IInv, DelGoto
<1>1. CASE DeleteFind(u)
  BY <1>1 DEF DeleteFind, TypeOK, Known, Maintained, Saving, Attached, GoneLeavesNothing
<1>2. CASE DeleteBytes(u)
  <2> USE <1>2 DEF DeleteBytes
  <2>1. TypeOK'
    BY DEF TypeOK
  <2>2. Known' /\ GoneLeavesNothing'
    BY DEF TypeOK, Known, GoneLeavesNothing
  <2>3. Maintained' /\ Saving' /\ Attached'
    BY DEF TypeOK, Maintained, Saving, Attached
  <2> QED
    BY <2>1, <2>2, <2>3
<1>3. CASE DeleteRow(u)
  <2> USE <1>3 DEF DeleteRow
  <2>1. TypeOK'
    BY DEF TypeOK
  <2>2. Known' /\ GoneLeavesNothing'
    BY DEF TypeOK, Known, GoneLeavesNothing
  <2>3. Maintained' /\ Saving' /\ Attached'
    BY DEF TypeOK, Maintained, Saving, Attached
  <2> QED
    BY <2>1, <2>2, <2>3
<1> QED
  BY <1>1, <1>2, <1>3

\* A save attaches what it found live under the lock it still holds.
LEMMA DraftKeepsIInv ==
  ASSUME IInv, NEW d \in Draft, SaveCheck(d) \/ SaveWrite(d) \/ DeleteDraft(d)
  PROVE  IInv'
<1> USE DEF IInv
<1>1. CASE SaveCheck(d)
  <2> USE <1>1 DEF SaveCheck, Attachable
  <2>1. TypeOK'
    BY DEF TypeOK
  <2>2. Known' /\ GoneLeavesNothing' /\ Attached'
    BY DEF Known, GoneLeavesNothing, Attached
  <2>3. Maintained'
    BY DEF TypeOK, Maintained
  <2>4. Saving'
    BY DEF Saving
  <2> QED
    BY <2>1, <2>2, <2>3, <2>4
<1>2. CASE SaveWrite(d)
  <2> USE <1>2 DEF SaveWrite
  <2>1. TypeOK'
    BY DEF TypeOK
  <2>2. Known' /\ GoneLeavesNothing' /\ Saving'
    BY DEF Known, GoneLeavesNothing, Saving
  <2>3. Attached'
    BY DEF TypeOK, Saving, Attached
  <2>4. Maintained'
    BY DEF TypeOK, Maintained
  <2> QED
    BY <2>1, <2>2, <2>3, <2>4
<1>3. CASE DeleteDraft(d)
  BY <1>3 DEF DeleteDraft, TypeOK, Known, Maintained, Saving, Attached, GoneLeavesNothing
<1> QED
  BY <1>1, <1>2, <1>3

\* The end of a run or of its process gives back the lock it may hold.
LEMMA RestKeepsIInv ==
  ASSUME IInv, NEW x \in Maint, MaintRest(x) PROVE IInv'
<1> USE DEF IInv, MaintRest, MaintGoto
<1>1. TypeOK'
  BY DEF TypeOK
<1>2. Known' /\ GoneLeavesNothing' /\ Attached'
  BY DEF Known, GoneLeavesNothing, Attached
<1>3. Maintained' /\ Saving'
  BY DEF TypeOK, Maintained, Saving
<1> QED
  BY <1>1, <1>2, <1>3

\* Maintenance retires only what no draft refers to or is about to refer to, and
\* removes only what is retired.
LEMMA MaintKeepsIInv ==
  ASSUME IInv, NEW x \in Maint, Maintain(x) \/ MaintSelect(x) \/ MaintCrash(x)
  PROVE  IInv'
<1> USE DEF IInv, MaintGoto, MaintNext
<1>1. ASSUME NEW u \in Upload, MaintScan(x, u) PROVE IInv'
  <2> USE <1>1 DEF MaintScan, Retirable, Referenced
  <2>1. TypeOK'
    BY DEF TypeOK
  <2>2. Known' /\ GoneLeavesNothing' /\ Attached'
    BY DEF Known, GoneLeavesNothing, Attached
  <2>3. Maintained'
    BY DEF TypeOK, Maintained
  <2>4. Saving'
    BY DEF Saving
  <2> QED
    BY <2>1, <2>2, <2>3, <2>4
<1>2. CASE MaintMark(x)
  <2> USE <1>2 DEF MaintMark
  <2>1. mjob[x] \in Upload /\ lock = x /\ saving = {}
    BY DEF Maintained, Saving
  <2>2. TypeOK'
    BY <2>1 DEF TypeOK
  <2>3. Known' /\ GoneLeavesNothing'
    BY <2>1 DEF TypeOK, Known, GoneLeavesNothing
  <2>4. Maintained'
    BY <2>1 DEF TypeOK, Maintained
  <2>5. Saving' /\ Attached'
    BY <2>1 DEF TypeOK, Maintained, Saving, Attached
  <2> QED
    BY <2>2, <2>3, <2>4, <2>5
<1>3. CASE MaintBytes(x)
  <2> USE <1>3 DEF MaintBytes
  <2>1. mjob[x] \in Upload /\ row[mjob[x]] \in {"retired", "gone"}
    BY DEF Maintained
  <2>2. TypeOK'
    BY <2>1 DEF TypeOK
  <2>3. Known' /\ GoneLeavesNothing'
    BY <2>1 DEF Known, GoneLeavesNothing
  <2>4. Maintained'
    BY <2>1 DEF TypeOK, Maintained
  <2>5. Saving' /\ Attached'
    BY DEF Saving, Attached
  <2> QED
    BY <2>2, <2>3, <2>4, <2>5
<1>4. CASE MaintRow(x)
  <2> USE <1>4 DEF MaintRow
  <2>1. mjob[x] \in Upload /\ mjob[x] \notin bytes /\ row[mjob[x]] # "live"
    BY DEF Maintained
  <2>2. TypeOK'
    BY <2>1 DEF TypeOK
  <2>3. Known' /\ GoneLeavesNothing'
    BY <2>1 DEF TypeOK, Known, GoneLeavesNothing
  <2>4. Maintained'
    BY <2>1 DEF TypeOK, Maintained
  <2>5. Saving' /\ Attached'
    BY <2>1 DEF TypeOK, Saving, Attached
  <2> QED
    BY <2>2, <2>3, <2>4, <2>5
<1>5. CASE MaintSelect(x)
  <2> USE <1>5 DEF MaintSelect
  <2>1. Selected \subseteq Upload
    BY DEF Selected
  <2>2. TypeOK'
    BY <2>1 DEF TypeOK
  <2>3. (Known /\ Maintained /\ Saving /\ Attached /\ GoneLeavesNothing)'
    BY DEF TypeOK, Known, Maintained, Saving, Attached, GoneLeavesNothing
  <2> QED
    BY <2>2, <2>3
<1>6. CASE MaintEnd(x) \/ MaintCrash(x)
  BY <1>6, RestKeepsIInv DEF MaintEnd, MaintCrash
<1> QED
  BY <1>1, <1>2, <1>3, <1>4, <1>5, <1>6 DEF Maintain

LEMMA NextIInv == IInv /\ [Next]_vars => IInv'
<1> SUFFICES ASSUME IInv, [Next]_vars PROVE IInv'
  OBVIOUS
<1>1. CASE Age
  BY <1>1 DEF Age, IInv, TypeOK, Known, Maintained, Saving, Attached, GoneLeavesNothing
<1>2. CASE UNCHANGED vars
  BY <1>2 DEF vars, IInv, TypeOK, Known, Maintained, Saving, Attached, GoneLeavesNothing
<1> QED
  BY <1>1, <1>2, UploadKeepsIInv, DeleteKeepsIInv, DraftKeepsIInv, MaintKeepsIInv DEF Next

LEMMA IInvHolds == Spec => []IInv
BY InitIInv, NextIInv, PTL DEF Spec

\* Every variable keeps its type, and every row has its creation time.
THEOREM ArtifactsTypeCorrect == Spec => []TypeOK
BY IInvHolds, PTL DEF IInv

\* However saves, retirements and deletions interleave, an attachment nobody
\* asked to delete keeps its row and its bytes.
THEOREM ArtifactsKeepAttachments == Spec => []AttachmentsStay
<1>1. IInv => AttachmentsStay
  BY DEF IInv, TypeOK, Known, Attached, AttachmentsStay
<1> QED
  BY <1>1, IInvHolds, PTL

\* No row is removed before its object.
THEOREM ArtifactsLeaveNothing == Spec => []GoneLeavesNothing
BY IInvHolds, PTL DEF IInv
==============================================================================
