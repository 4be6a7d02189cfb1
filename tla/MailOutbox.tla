----------------------------- MODULE MailOutbox ------------------------------
(***************************************************************************)
(* The durable mail outbox of internal/modules/mail.  An HTTP call queues  *)
(* a message: it looks for an earlier row of the same request, composes,   *)
(* stores the encrypted snapshot, then inserts the row.  Dispatch workers  *)
(* claim due rows and walk them through the JMAP server; the author may    *)
(* cancel before the undo window closes; a reconciler asks the server for  *)
(* evidence about interrupted rows; maintenance removes snapshots of       *)
(* finished rows.  Every database statement, object-store call and         *)
(* upstream call is a step of its own, and any process may die between two *)
(* of its steps.                                                           *)
(***************************************************************************)
EXTENDS Naturals, FiniteSets

CONSTANTS
  Mail,         \* identifiers of Queue calls: each mints the id of its row and snapshot
  NoMail,       \* no message
  Request,      \* client-chosen request ids
  Content,        \* payloads, as the fingerprint tells them apart
  RequestOf,    \* the request id each Queue call carries
  ContentOf,      \* the payload of each Queue call
  WithDraft,    \* the Queue calls that send the (one) draft of the user
  Worker,       \* mail_outbox_worker processes
  Reconciler,   \* concurrent Reconcile calls: API requests and the maintenance job
  MaxRev,       \* bound on the draft's revision
  MaxInc        \* bound on how often the draft is created

ASSUME MailAssumption ==
  /\ NoMail \notin Mail
  /\ RequestOf \in [Mail -> Request]
  /\ ContentOf \in [Mail -> Content]
  /\ WithDraft \subseteq Mail
  /\ MaxRev \in Nat /\ MaxInc \in Nat

VARIABLES
  callPc,       \* where each Queue call stands
  answer,       \* the row id the call answered with, NoMail if none
  status,       \* mail_pending_sends.status, "none" while there is no row
  due,          \* send_after <= now
  aged,         \* claimed_at lies more than two minutes back
  queuedRev,    \* draft_revision recorded for the row, 0 without a draft
  queuedInc,    \* history: which creation of the draft that revision belongs to
  importNoted,  \* rows whose imported_email_id is set
  sendNoted,    \* rows whose submission_id is set
  objects,      \* snapshots in the private bucket
  ackLost,      \* history: inserts that committed but were reported as failed
  swept,        \* maintenance progress; "marked" is snapshot_deleted_at
  imported,     \* messages present in the JMAP mailbox
  submissions,  \* how often each message was accepted for delivery
  cancelPc,     \* where the Cancel call of each row stands
  wpc, wjob,    \* each worker's step and claimed row
  rpc, rjob,    \* each reconciler's step and row
  rmail, rproof,\* what it knows: the email id, an accepted submission
  active,       \* both the mailbox and the Atoman account are active
  draft         \* the user's draft: live, revision, creation number

callVars   == <<callPc, answer>>
rowVars    == <<status, due, aged, queuedRev, queuedInc, importNoted, sendNoted>>
storeVars  == <<objects, ackLost, swept>>
serverVars == <<imported, submissions>>
workerVars == <<wpc, wjob>>
reconVars  == <<rpc, rjob, rmail, rproof>>
userVars   == <<active, draft>>
vars == <<callVars, rowVars, storeVars, serverVars, cancelPc, workerVars,
          reconVars, userVars>>

Status   == {"none", "queued", "dispatching", "uncertain", "sent", "blocked", "cancelled"}
Terminal == {"sent", "cancelled", "blocked"}
Pending  == {"dispatching", "uncertain"}

CallStep   == {"idle", "looked", "composed", "stored", "discard", "reread", "done"}
CancelStep == {"idle", "armed", "tidy"}
SweepStep  == {"no", "picked", "deleted", "marked"}
BeforeSend == {"claimed", "load", "prepare", "import", "note", "send"}
WorkStep   == BeforeSend \union {"idle", "file", "conclude", "refuse", "doubt", "tidy"}
ReconStep  == {"idle", "mail", "proof", "write", "draft", "tidy"}

TypeOK ==
  /\ callPc \in [Mail -> CallStep]
  /\ answer \in [Mail -> Mail \union {NoMail}]
  /\ status \in [Mail -> Status]
  /\ due \in [Mail -> BOOLEAN] /\ aged \in [Mail -> BOOLEAN]
  /\ queuedRev \in [Mail -> Nat] /\ queuedInc \in [Mail -> Nat]
  /\ importNoted \subseteq Mail /\ sendNoted \subseteq Mail
  /\ objects \subseteq Mail /\ ackLost \subseteq Mail
  /\ swept \in [Mail -> SweepStep]
  /\ imported \subseteq Mail
  /\ submissions \in [Mail -> Nat]
  /\ cancelPc \in [Mail -> CancelStep]
  /\ wpc \in [Worker -> WorkStep] /\ wjob \in [Worker -> Mail \union {NoMail}]
  /\ rpc \in [Reconciler -> ReconStep]
  /\ rjob \in [Reconciler -> Mail \union {NoMail}]
  /\ rmail \in [Reconciler -> BOOLEAN] /\ rproof \in [Reconciler -> BOOLEAN]
  /\ active \in BOOLEAN
  /\ draft \in [live : BOOLEAN, rev : Nat, inc : Nat]

Init ==
  /\ callPc = [m \in Mail |-> "idle"]
  /\ answer = [m \in Mail |-> NoMail]
  /\ status = [m \in Mail |-> "none"]
  /\ due = [m \in Mail |-> FALSE]
  /\ aged = [m \in Mail |-> FALSE]
  /\ queuedRev = [m \in Mail |-> 0]
  /\ queuedInc = [m \in Mail |-> 0]
  /\ importNoted = {} /\ sendNoted = {}
  /\ objects = {} /\ ackLost = {}
  /\ swept = [m \in Mail |-> "no"]
  /\ imported = {}
  /\ submissions = [m \in Mail |-> 0]
  /\ cancelPc = [m \in Mail |-> "idle"]
  /\ wpc = [w \in Worker |-> "idle"] /\ wjob = [w \in Worker |-> NoMail]
  /\ rpc = [c \in Reconciler |-> "idle"] /\ rjob = [c \in Reconciler |-> NoMail]
  /\ rmail = [c \in Reconciler |-> FALSE] /\ rproof = [c \in Reconciler |-> FALSE]
  /\ active = TRUE
  /\ draft = [live |-> FALSE, rev |-> 0, inc |-> 0]

------------------------------------------------------------------------------
(* Queue *)

SameRequest(m, n) == RequestOf[m] = RequestOf[n]
Rows(m) == {n \in Mail : SameRequest(m, n) /\ status[n] # "none"}

Goto(m, step) == callPc' = [callPc EXCEPT ![m] = step]

\* An error response: the call ends and names no row.
Refused(m) == Goto(m, "done") /\ UNCHANGED answer

\* Fault: the response skips the comparison of fingerprints.
AnswerAnyContent(m, n) == Goto(m, "done") /\ answer' = [answer EXCEPT ![m] = n]

\* A 2xx response: the row's id if the fingerprint is the same, else a conflict.
Answer(m, n) ==
  /\ Goto(m, "done")
  /\ answer' = IF ContentOf[n] = ContentOf[m] THEN [answer EXCEPT ![m] = n] ELSE answer

\* The idempotency lookup that opens Queue.
Lookup(m) ==
  /\ callPc[m] = "idle"
  /\ \/ \E n \in Rows(m) : Answer(m, n)
     \/ Rows(m) = {} /\ Goto(m, "looked") /\ UNCHANGED answer
     \/ Refused(m)
  /\ UNCHANGED <<rowVars, storeVars, serverVars, cancelPc, workerVars, reconVars, userVars>>

\* Account and draft checks, then the payload is built from what they read.
Compose(m) ==
  /\ callPc[m] = "looked"
  /\ \/ Refused(m) /\ UNCHANGED <<queuedRev, queuedInc>>
     \/ /\ active
        /\ m \in WithDraft => draft.live
        /\ Goto(m, "composed")
        /\ queuedRev' = [queuedRev EXCEPT ![m] = IF m \in WithDraft THEN draft.rev ELSE 0]
        /\ queuedInc' = [queuedInc EXCEPT ![m] = IF m \in WithDraft THEN draft.inc ELSE 0]
        /\ UNCHANGED answer
  /\ UNCHANGED <<status, due, aged, importNoted, sendNoted>>
  /\ UNCHANGED <<storeVars, serverVars, cancelPc, workerVars, reconVars, userVars>>

\* store.Put; a reported failure may or may not have stored the object.
StorePut(m) ==
  /\ callPc[m] = "composed"
  /\ \/ Goto(m, "stored") /\ objects' = objects \union {m} /\ UNCHANGED answer
     \/ Refused(m) /\ objects' \in {objects, objects \union {m}}
  /\ UNCHANGED <<ackLost, swept>>
  /\ UNCHANGED <<rowVars, serverVars, cancelPc, workerVars, reconVars, userVars>>

\* Fault: the index is missing.
AdmittedAlways(m) == TRUE
\* The unique (user_id, request_id) index admits the row.
Admitted(m) == Rows(m) = {}

\* db.Create under that index.  The last disjunct
\* is a commit whose acknowledgement never arrives: Create returns an error.
Insert(m) ==
  /\ callPc[m] = "stored"
  /\ \/ /\ Admitted(m)
        /\ status' = [status EXCEPT ![m] = "queued"]
        /\ Answer(m, m)
        /\ UNCHANGED ackLost
     \/ Goto(m, "discard") /\ UNCHANGED <<status, answer, ackLost>>
     \/ /\ Admitted(m)
        /\ status' = [status EXCEPT ![m] = "queued"]
        /\ ackLost' = ackLost \union {m}
        /\ Goto(m, "discard") /\ UNCHANGED answer
  /\ UNCHANGED <<due, aged, queuedRev, queuedInc, importNoted, sendNoted, objects, swept>>
  /\ UNCHANGED <<serverVars, cancelPc, workerVars, reconVars, userVars>>

\* A best-effort store.Delete of this row's snapshot.
DropObject(m) == objects' \in {objects, objects \ {m}}

Discard(m) ==
  /\ callPc[m] = "discard"
  /\ DropObject(m)
  /\ Goto(m, "reread") /\ UNCHANGED answer
  /\ UNCHANGED <<ackLost, swept>>
  /\ UNCHANGED <<rowVars, serverVars, cancelPc, workerVars, reconVars, userVars>>

\* After a failed insert: answer with the winner of the request, if it can be read.
Reread(m) ==
  /\ callPc[m] = "reread"
  /\ Refused(m) \/ \E n \in Rows(m) : Answer(m, n)
  /\ UNCHANGED <<rowVars, storeVars, serverVars, cancelPc, workerVars, reconVars, userVars>>

------------------------------------------------------------------------------
(* Cancel *)

\* The call samples now while the undo window is still open.
CancelArm(m) ==
  /\ cancelPc[m] = "idle"
  /\ status[m] # "none" /\ ~due[m]
  /\ cancelPc' = [cancelPc EXCEPT ![m] = "armed"]
  /\ UNCHANGED <<callVars, rowVars, storeVars, serverVars, workerVars, reconVars, userVars>>

\* Fault: a message whose dispatch has begun can still be cancelled.
CancellableLate(m) == status[m] \in {"queued", "dispatching"}
Cancellable(m) == status[m] = "queued"

\* The conditional UPDATE ... WHERE status = 'queued'.
CancelWrite(m) ==
  /\ cancelPc[m] = "armed"
  /\ \/ /\ Cancellable(m)
        /\ status' = [status EXCEPT ![m] = "cancelled"]
        /\ cancelPc' = [cancelPc EXCEPT ![m] = "tidy"]
     \/ /\ ~Cancellable(m)
        /\ cancelPc' = [cancelPc EXCEPT ![m] = "idle"]
        /\ UNCHANGED status
  /\ UNCHANGED <<due, aged, queuedRev, queuedInc, importNoted, sendNoted>>
  /\ UNCHANGED <<callVars, storeVars, serverVars, workerVars, reconVars, userVars>>

CancelTidy(m) ==
  /\ cancelPc[m] = "tidy"
  /\ DropObject(m)
  /\ cancelPc' = [cancelPc EXCEPT ![m] = "idle"]
  /\ UNCHANGED <<ackLost, swept>>
  /\ UNCHANGED <<callVars, rowVars, serverVars, workerVars, reconVars, userVars>>

------------------------------------------------------------------------------
(* Dispatch worker: RunDue = ClaimDue, then deliverClaimed *)

WorkGoto(w, step) == wpc' = [wpc EXCEPT ![w] = step] /\ UNCHANGED wjob
WorkIdle(w) == wpc' = [wpc EXCEPT ![w] = "idle"] /\ wjob' = [wjob EXCEPT ![w] = NoMail]

\* Fault: an interrupted row is claimed again once its claim is old.
ClaimableAgain(m) == (status[m] = "queued" /\ due[m]) \/ (status[m] = "dispatching" /\ aged[m])
\* Fault: rows of a suspended account are passed over.
ClaimableActive(m) == status[m] = "queued" /\ due[m] /\ active
Claimable(m) == status[m] = "queued" /\ due[m]

\* SELECT ... FOR UPDATE SKIP LOCKED and the conditional UPDATE, one transaction.
Claim(w, m) ==
  /\ wpc[w] = "idle"
  /\ Claimable(m)
  /\ status' = [status EXCEPT ![m] = "dispatching"]
  /\ wpc' = [wpc EXCEPT ![w] = "claimed"]
  /\ wjob' = [wjob EXCEPT ![w] = m]
  /\ UNCHANGED <<due, aged, queuedRev, queuedInc, importNoted, sendNoted>>
  /\ UNCHANGED <<callVars, storeVars, serverVars, cancelPc, reconVars, userVars>>

CheckActive(w) ==
  /\ wpc[w] = "claimed"
  /\ WorkGoto(w, IF active THEN "load" ELSE "refuse")
  /\ UNCHANGED <<callVars, rowVars, storeVars, serverVars, cancelPc, reconVars, userVars>>

\* store.Get and vault.Open; both can fail whether or not the object is there.
LoadSnapshot(w) ==
  /\ wpc[w] = "load"
  /\ \/ wjob[w] \in objects /\ WorkGoto(w, "prepare")
     \/ WorkGoto(w, "doubt")
  /\ UNCHANGED <<callVars, rowVars, storeVars, serverVars, cancelPc, reconVars, userVars>>

\* Submit re-reads the account mapping and opens the JMAP session.
Prepare(w) ==
  /\ wpc[w] = "prepare"
  /\ \/ active /\ WorkGoto(w, "import")
     \/ WorkGoto(w, "doubt")
  /\ UNCHANGED <<callVars, rowVars, storeVars, serverVars, cancelPc, reconVars, userVars>>

\* Email/import: confirmed, accepted with the reply lost, or rejected.
Import(w) ==
  /\ wpc[w] = "import"
  /\ \/ imported' = imported \union {wjob[w]} /\ WorkGoto(w, "note")
     \/ imported' = imported \union {wjob[w]} /\ WorkGoto(w, "doubt")
     \/ UNCHANGED imported /\ WorkGoto(w, "doubt")
  /\ UNCHANGED submissions
  /\ UNCHANGED <<callVars, rowVars, storeVars, cancelPc, reconVars, userVars>>

\* onImported stores the email id while the row is still dispatching; an error
\* leaves open whether it was stored.
Noted(m, noted) == IF status[m] = "dispatching" THEN noted \union {m} ELSE noted

NoteImport(w) ==
  /\ wpc[w] = "note"
  /\ \/ /\ status[wjob[w]] = "dispatching"
        /\ importNoted' = Noted(wjob[w], importNoted)
        /\ WorkGoto(w, "send")
     \/ /\ importNoted' \in {importNoted, Noted(wjob[w], importNoted)}
        /\ WorkGoto(w, "doubt")
  /\ UNCHANGED <<status, due, aged, queuedRev, queuedInc, sendNoted>>
  /\ UNCHANGED <<callVars, storeVars, serverVars, cancelPc, reconVars, userVars>>

\* EmailSubmission/set: confirmed, accepted with the reply lost, or rejected.
Send(w) ==
  LET accepted == [submissions EXCEPT ![wjob[w]] = @ + 1] IN
  /\ wpc[w] = "send"
  /\ \/ submissions' = accepted /\ WorkGoto(w, "file")
     \/ submissions' = accepted /\ WorkGoto(w, "doubt")
     \/ UNCHANGED submissions /\ WorkGoto(w, "doubt")
  /\ UNCHANGED imported
  /\ UNCHANGED <<callVars, rowVars, storeVars, cancelPc, reconVars, userVars>>

\* Email/set moves the copy to Sent, then onSubmitted stores the submission id.
FileAndNote(w) ==
  /\ wpc[w] = "file"
  /\ \/ /\ status[wjob[w]] = "dispatching"
        /\ sendNoted' = Noted(wjob[w], sendNoted)
        /\ WorkGoto(w, "conclude")
     \/ /\ sendNoted' \in {sendNoted, Noted(wjob[w], sendNoted)}
        /\ WorkGoto(w, "doubt")
  /\ UNCHANGED <<status, due, aged, queuedRev, queuedInc, importNoted>>
  /\ UNCHANGED <<callVars, storeVars, serverVars, cancelPc, reconVars, userVars>>

\* Fault: the draft goes whatever its revision is by now.
RemoveAnyDraft(m) == draft' = [draft EXCEPT !.live = FALSE]

\* deleteAcceptedDraft: the row's revision of the draft, if it is still that one.
RemoveDraft(m) ==
  draft' = IF draft.live /\ queuedRev[m] # 0 /\ draft.rev = queuedRev[m]
             THEN [draft EXCEPT !.live = FALSE]
             ELSE draft

\* finishClaim(state): one conditional UPDATE, and the draft in the same transaction.
FinishClaim(m, state) ==
  /\ status[m] = "dispatching"
  /\ status' = [status EXCEPT ![m] = state]
  /\ IF state = "sent" THEN RemoveDraft(m) ELSE UNCHANGED draft
NotHeld(m) == status[m] # "dispatching" /\ UNCHANGED <<status, draft>>

Finish(w) ==
  /\ \/ /\ wpc[w] = "conclude"
        /\ \/ FinishClaim(wjob[w], "sent") /\ WorkGoto(w, "tidy")
           \/ NotHeld(wjob[w]) /\ WorkIdle(w)
     \/ /\ wpc[w] = "refuse"
        /\ FinishClaim(wjob[w], "blocked") \/ NotHeld(wjob[w])
        /\ WorkIdle(w)
     \/ /\ wpc[w] = "doubt"
        /\ FinishClaim(wjob[w], "uncertain") \/ NotHeld(wjob[w])
        /\ WorkIdle(w)
  /\ UNCHANGED <<due, aged, queuedRev, queuedInc, importNoted, sendNoted, active>>
  /\ UNCHANGED <<callVars, storeVars, serverVars, cancelPc, reconVars>>

WorkTidy(w) ==
  /\ wpc[w] = "tidy"
  /\ DropObject(wjob[w])
  /\ WorkIdle(w)
  /\ UNCHANGED <<ackLost, swept>>
  /\ UNCHANGED <<callVars, rowVars, serverVars, cancelPc, reconVars, userVars>>

\* The process dies, or a database error ends the run: systemd starts it afresh.
WorkCrash(w) ==
  /\ wpc[w] # "idle"
  /\ WorkIdle(w)
  /\ UNCHANGED <<callVars, rowVars, storeVars, serverVars, cancelPc, reconVars, userVars>>

------------------------------------------------------------------------------
(* Reconcile *)

ReconGoto(c, step) == rpc' = [rpc EXCEPT ![c] = step] /\ UNCHANGED rjob
ReconIdle(c) ==
  /\ rpc' = [rpc EXCEPT ![c] = "idle"]
  /\ rjob' = [rjob EXCEPT ![c] = NoMail]
  /\ rmail' = [rmail EXCEPT ![c] = FALSE]
  /\ rproof' = [rproof EXCEPT ![c] = FALSE]

\* Fault: only rows somebody marked uncertain are looked at.
ReconcilableUncertain(m) == status[m] = "uncertain" /\ aged[m]
Reconcilable(m) == status[m] \in Pending /\ aged[m]

\* Reads the row, checks its age and the account, keeps the receipts it found.
ReconBegin(c, m) ==
  /\ rpc[c] = "idle"
  /\ Reconcilable(m) /\ active
  /\ rpc' = [rpc EXCEPT ![c] = "mail"]
  /\ rjob' = [rjob EXCEPT ![c] = m]
  /\ rmail' = [rmail EXCEPT ![c] = m \in importNoted]
  /\ rproof' = [rproof EXCEPT ![c] = m \in sendNoted]
  /\ UNCHANGED <<callVars, rowVars, storeVars, serverVars, cancelPc, workerVars, userVars>>

\* Email/query by Message-ID; the copy may have been expunged, so it can miss.
FindMail(c) ==
  /\ rpc[c] = "mail"
  /\ \E found \in {FALSE, rjob[c] \in imported} :
       rmail' = [rmail EXCEPT ![c] = @ \/ found]
  /\ ReconGoto(c, "proof")
  /\ UNCHANGED rproof
  /\ UNCHANGED <<callVars, rowVars, storeVars, serverVars, cancelPc, workerVars, userVars>>

\* Fault: a message found in the mailbox counts as sent.
EvidenceOfImport(c) == {FALSE, rmail[c]}
\* The answers EmailSubmission/query can give.
Evidence(c) == {FALSE, rmail[c] /\ submissions[rjob[c]] > 0}

\* EmailSubmission/query, asked only when an email id is known.
FindProof(c) ==
  /\ rpc[c] = "proof"
  /\ \E found \in Evidence(c) :
       rproof' = [rproof EXCEPT ![c] = @ \/ found]
  /\ ReconGoto(c, "write")
  /\ UNCHANGED rmail
  /\ UNCHANGED <<callVars, rowVars, storeVars, serverVars, cancelPc, workerVars, userVars>>

\* UPDATE ... WHERE status IN ('dispatching', 'uncertain').
ReconWrite(c) ==
  LET m == rjob[c] IN
  /\ rpc[c] = "write"
  /\ \/ /\ status[m] \in Pending /\ rproof[c]
        /\ status' = [status EXCEPT ![m] = "sent"]
        /\ sendNoted' = sendNoted \union {m}
        /\ importNoted' = IF rmail[c] THEN importNoted \union {m} ELSE importNoted
        /\ ReconGoto(c, "draft") /\ UNCHANGED <<rmail, rproof>>
     \/ /\ status[m] \in Pending /\ ~rproof[c]
        /\ status' = [status EXCEPT ![m] = "uncertain"]
        /\ ReconIdle(c)
        /\ UNCHANGED <<importNoted, sendNoted>>
     \/ /\ status[m] \notin Pending
        /\ ReconIdle(c)
        /\ UNCHANGED <<status, importNoted, sendNoted>>
  /\ UNCHANGED <<due, aged, queuedRev, queuedInc>>
  /\ UNCHANGED <<callVars, storeVars, serverVars, cancelPc, workerVars, userVars>>

\* deleteAcceptedDraft again, here in a statement of its own.
ReconDraft(c) ==
  /\ rpc[c] = "draft"
  /\ RemoveDraft(rjob[c])
  /\ ReconGoto(c, "tidy")
  /\ UNCHANGED <<rmail, rproof, active>>
  /\ UNCHANGED <<callVars, rowVars, storeVars, serverVars, cancelPc, workerVars>>

ReconTidy(c) ==
  /\ rpc[c] = "tidy"
  /\ DropObject(rjob[c])
  /\ ReconIdle(c)
  /\ UNCHANGED <<ackLost, swept>>
  /\ UNCHANGED <<callVars, rowVars, serverVars, cancelPc, workerVars, userVars>>

\* An upstream or database error, or the end of the process.
ReconAbort(c) ==
  /\ rpc[c] # "idle"
  /\ ReconIdle(c)
  /\ UNCHANGED <<callVars, rowVars, storeVars, serverVars, cancelPc, workerVars, userVars>>

------------------------------------------------------------------------------
(* Maintenance: snapshots of rows finished more than 30 days ago *)

SweepGoto(m, step) == swept' = [swept EXCEPT ![m] = step]

\* Fault: rows whose outcome is not known count as finished.
SweepableUncertain(m) == status[m] \in Terminal \union {"uncertain"}
Sweepable(m) == status[m] \in Terminal

SweepPick(m) ==
  /\ swept[m] = "no"
  /\ Sweepable(m)
  /\ SweepGoto(m, "picked")
  /\ UNCHANGED <<objects, ackLost>>
  /\ UNCHANGED <<callVars, rowVars, serverVars, cancelPc, workerVars, reconVars, userVars>>

\* A failed deletion leaves the row for the next run.
SweepDelete(m) ==
  /\ swept[m] = "picked"
  /\ \/ objects' = objects \ {m} /\ SweepGoto(m, "deleted")
     \/ UNCHANGED objects /\ SweepGoto(m, "no")
  /\ UNCHANGED ackLost
  /\ UNCHANGED <<callVars, rowVars, serverVars, cancelPc, workerVars, reconVars, userVars>>

SweepMark(m) ==
  /\ swept[m] = "deleted"
  /\ SweepGoto(m, "no") \/ (status[m] \in Terminal /\ SweepGoto(m, "marked"))
  /\ UNCHANGED <<objects, ackLost>>
  /\ UNCHANGED <<callVars, rowVars, serverVars, cancelPc, workerVars, reconVars, userVars>>

------------------------------------------------------------------------------
(* The user's draft and accounts, and the clock *)

\* SaveDraft with revision 0 creates; otherwise it is a compare-and-set on the revision.
SaveDraft ==
  /\ \/ /\ ~draft.live /\ draft.inc < MaxInc
        /\ draft' = [live |-> TRUE, rev |-> 1, inc |-> draft.inc + 1]
     \/ /\ draft.live /\ draft.rev < MaxRev
        /\ draft' = [draft EXCEPT !.rev = @ + 1]
  /\ UNCHANGED active
  /\ UNCHANGED <<callVars, rowVars, storeVars, serverVars, cancelPc, workerVars, reconVars>>

DeleteDraft ==
  /\ draft.live
  /\ draft' = [draft EXCEPT !.live = FALSE]
  /\ UNCHANGED active
  /\ UNCHANGED <<callVars, rowVars, storeVars, serverVars, cancelPc, workerVars, reconVars>>

\* Suspension and reinstatement of the mailbox or the Atoman account.
ToggleAccount ==
  /\ active' = ~active
  /\ UNCHANGED draft
  /\ UNCHANGED <<callVars, rowVars, storeVars, serverVars, cancelPc, workerVars, reconVars>>

\* send_after passes.
BecomeDue(m) ==
  /\ status[m] = "queued" /\ ~due[m]
  /\ due' = [due EXCEPT ![m] = TRUE]
  /\ UNCHANGED <<status, aged, queuedRev, queuedInc, importNoted, sendNoted>>
  /\ UNCHANGED <<callVars, storeVars, serverVars, cancelPc, workerVars, reconVars, userVars>>

\* Two minutes pass after claimed_at.
BecomeAged(m) ==
  /\ status[m] \in Pending /\ ~aged[m]
  /\ aged' = [aged EXCEPT ![m] = TRUE]
  /\ UNCHANGED <<status, due, queuedRev, queuedInc, importNoted, sendNoted>>
  /\ UNCHANGED <<callVars, storeVars, serverVars, cancelPc, workerVars, reconVars, userVars>>

------------------------------------------------------------------------------
Queue(m) == Lookup(m) \/ Compose(m) \/ StorePut(m) \/ Insert(m) \/ Discard(m) \/ Reread(m)
Cancel(m) == CancelArm(m) \/ CancelWrite(m) \/ CancelTidy(m)
Sweep(m) == SweepPick(m) \/ SweepDelete(m) \/ SweepMark(m)
Clock(m) == BecomeDue(m) \/ BecomeAged(m)
Deliver(w) ==
  \/ CheckActive(w) \/ LoadSnapshot(w) \/ Prepare(w) \/ Import(w) \/ NoteImport(w)
  \/ Send(w) \/ FileAndNote(w) \/ Finish(w) \/ WorkTidy(w)
Reconcile(c) ==
  \/ FindMail(c) \/ FindProof(c) \/ ReconWrite(c) \/ ReconDraft(c) \/ ReconTidy(c)

Next ==
  \/ \E m \in Mail : Queue(m) \/ Cancel(m) \/ Sweep(m) \/ Clock(m)
  \/ \E w \in Worker : Deliver(w) \/ WorkCrash(w) \/ \E m \in Mail : Claim(w, m)
  \/ \E c \in Reconciler : Reconcile(c) \/ ReconAbort(c) \/ \E m \in Mail : ReconBegin(c, m)
  \/ SaveDraft \/ DeleteDraft \/ ToggleAccount

Spec == Init /\ [][Next]_vars

\* The clock moves; a worker process that runs keeps moving until it ends, and
\* systemd starts it again; due rows are polled every 500 ms, oldest first.
DispatchFairness ==
  /\ \A m \in Mail : WF_vars(Clock(m)) /\ WF_vars(\E w \in Worker : Claim(w, m))
  /\ \A w \in Worker : WF_vars(Deliver(w))

\* The daily maintenance timer reconciles again and again, and a mail server
\* that is asked again and again eventually shows the evidence it holds.
EvidenceFairness == \A c \in Reconciler :
  /\ WF_vars(Reconcile(c)) /\ \A m \in Mail : SF_vars(ReconBegin(c, m))
  /\ SF_vars(FindMail(c) /\ rjob[c] \in imported /\ rmail'[c])
  /\ SF_vars(FindProof(c) /\ rproof'[c])
  /\ SF_vars(rproof[c] /\ ReconWrite(c))

FairSpec == Spec /\ DispatchFairness /\ EvidenceFairness

------------------------------------------------------------------------------
(* Properties *)

\* However workers crash, replies are lost and reconcilers race them, the mail
\* server never accepts the same message twice ("never be retried without
\* operator reconciliation", outbox_service.go).
SentAtMostOnce == \A m \in Mail : submissions[m] <= 1

\* What the row says about delivery is never false: "sent" rows were accepted,
\* and a message whose row says queued, cancelled or blocked was not.
StatusTellsTruth ==
  \A m \in Mail :
    /\ status[m] = "sent" => submissions[m] > 0
    /\ status[m] \in {"none", "queued", "cancelled", "blocked"} => submissions[m] = 0

\* One claimed row is worked on by one worker only, even after a crash, a
\* restart or a reconciliation in the middle of the delivery.
NoSharedClaim ==
  \A v, w \in Worker : v # w /\ wjob[v] = wjob[w] => wjob[v] = NoMail

\* Retries of one request, however they interleave with each other and with
\* failed inserts, leave one row and name that same row in every answer.
OneRowPerRequest ==
  \A m, n \in Mail :
    SameRequest(m, n) =>
      /\ status[m] # "none" /\ status[n] # "none" => m = n
      /\ answer[m] # NoMail /\ answer[n] # NoMail => answer[m] = answer[n]

\* Every answer names an existing row with the fingerprint that was asked for.
AnswerNamesOwnRow ==
  \A m \in Mail : answer[m] # NoMail =>
    /\ status[answer[m]] # "none"
    /\ ContentOf[answer[m]] = ContentOf[m]

\* A row that may still have to be sent or investigated keeps its snapshot:
\* no cancel, tidy-up, discard or maintenance run takes it away, unless the
\* row's insert was reported as failed although it committed.
LiveRowKeepsSnapshot ==
  \A m \in Mail : status[m] \in {"queued"} \union Pending => m \in objects \union ackLost

\* A row of a terminal status never changes again.
TerminalIsFinal ==
  [][\A m \in Mail : status[m] \in Terminal => status'[m] = status[m]]_vars

\* A send that takes the draft away takes the revision recorded for a sent row,
\* and never a later edit of the same creation of the draft.
SendRemoves == draft.live /\ ~draft'.live /\ ~DeleteDraft
OnlySentRevisionRemoved ==
  [][SendRemoves => \E m \in WithDraft :
       /\ status'[m] = "sent"
       /\ queuedRev[m] = draft.rev
       /\ queuedInc[m] <= draft.inc]_vars

\* "Later edits always survive" (outbox_service.go): a send removes the draft
\* only in the very state, creation and revision, that was queued.
LaterEditsSurvive ==
  [][SendRemoves => \E m \in WithDraft :
       /\ status'[m] = "sent"
       /\ queuedRev[m] = draft.rev
       /\ queuedInc[m] = draft.inc]_vars

\* A due message is claimed or withdrawn: it does not wait in the queue for ever.
QueuedIsDispatched ==
  \A m \in Mail : status[m] = "queued" ~> status[m] # "queued"

\* A message the server accepted ends up as "sent", whatever crashed or was lost
\* on the way, provided its account is not suspended for good.
AcceptedIsConfirmed ==
  []<>active => \A m \in Mail : submissions[m] > 0 ~> status[m] = "sent"

------------------------------------------------------------------------------
(* The outbox implements MailPromise *)

StageOf == [none |-> "absent", queued |-> "queued", cancelled |-> "withdrawn",
            dispatching |-> "committed", uncertain |-> "committed",
            blocked |-> "refused", sent |-> "confirmed"]

Promise == INSTANCE MailPromise
             WITH stage <- [m \in Mail |-> StageOf[status[m]]], delivered <- submissions

\* Seen through the row's status and the server's acceptances alone, every run
\* of the outbox is a run of MailPromise: commit before delivery, delivery at
\* most once, "sent" only about a delivered message, cancelled never delivered.
KeepsPromise == Promise!PromiseSpec
==============================================================================
