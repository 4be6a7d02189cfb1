-------------------------- MODULE MailOutboxProofs ---------------------------
(***************************************************************************)
(* The safety of MailOutbox for any set of messages, workers, reconcilers  *)
(* and bounds.  None of the invariants is inductive: what saves a message  *)
(* from a second delivery is that the steps before the submission happen   *)
(* only on a row that was claimed once, is in dispatch and has not been    *)
(* accepted (Claims), and what keeps a snapshot is that everybody who is   *)
(* about to delete one has seen a status that never changes (Snapshots).   *)
(***************************************************************************)
EXTENDS MailOutbox, TLAPS

\* Where a worker stands tells what has become of the row it claimed.
Claims ==
  \A w \in Worker :
    /\ wpc[w] = "idle" <=> wjob[w] = NoMail
    /\ wjob[w] # NoMail => status[wjob[w]] \in {"dispatching", "uncertain", "sent", "blocked"}
    /\ wpc[w] \in BeforeSend \union {"refuse"} =>
         status[wjob[w]] \in Pending /\ submissions[wjob[w]] = 0
    /\ wpc[w] \in {"file", "conclude"} => submissions[wjob[w]] = 1
    /\ wpc[w] = "tidy" => status[wjob[w]] = "sent"

\* Acceptances and receipts agree with the row.
Accepted ==
  /\ \A m \in Mail : submissions[m] \in {0, 1}
  /\ \A m \in sendNoted : submissions[m] = 1
  /\ StatusTellsTruth

\* A reconciler's proof is never wrong, and it tidies up after sent rows only.
Proven ==
  \A c \in Reconciler :
    /\ rpc[c] = "idle" <=> rjob[c] = NoMail
    /\ rproof[c] => rjob[c] # NoMail /\ submissions[rjob[c]] = 1
    /\ rpc[c] \in {"draft", "tidy"} => status[rjob[c]] = "sent"

\* Whoever may still delete a snapshot does so for a row that needs it no more.
Snapshots ==
  \A m \in Mail :
    /\ callPc[m] \in {"idle", "looked", "composed", "stored"} => status[m] = "none"
    /\ callPc[m] = "stored" => m \in objects
    /\ callPc[m] = "discard" => status[m] = "none" \/ m \in ackLost
    /\ cancelPc[m] = "tidy" => status[m] = "cancelled"
    /\ swept[m] # "no" => status[m] \in Terminal

IInv == TypeOK /\ Claims /\ NoSharedClaim /\ Accepted /\ Proven /\ Snapshots
          /\ LiveRowKeepsSnapshot

USE MailAssumption
USE DEF callVars, rowVars, storeVars, serverVars, workerVars, reconVars, userVars,
        Status, Terminal, Pending, CallStep, CancelStep, SweepStep, BeforeSend, WorkStep,
        ReconStep

LEMMA InitIInv == Init => IInv
BY DEF Init, IInv, TypeOK, Claims, NoSharedClaim, Accepted, StatusTellsTruth, Proven,
       Snapshots, LiveRowKeepsSnapshot

\* A Queue call touches one snapshot, before its row exists or when its insert
\* failed.
LEMMA QueueKeepsIInv ==
  ASSUME IInv, NEW m \in Mail, Queue(m) PROVE IInv'
<1> USE DEF IInv
<1>1. CASE Lookup(m)
  <2> USE <1>1 DEF Lookup, Goto, Answer, Refused
  <2>1. TypeOK'
    BY DEF TypeOK, Rows
  <2>2. Snapshots'
    BY DEF Snapshots, TypeOK
  <2>3. (Claims /\ NoSharedClaim /\ Accepted /\ Proven /\ LiveRowKeepsSnapshot)'
    BY DEF Claims, NoSharedClaim, Accepted, StatusTellsTruth, Proven,
           LiveRowKeepsSnapshot
  <2> QED
    BY <2>1, <2>2, <2>3
<1>2. CASE Compose(m)
  <2> USE <1>2 DEF Compose, Goto, Refused
  <2>1. TypeOK'
    BY DEF TypeOK
  <2>2. Snapshots'
    BY DEF Snapshots, TypeOK
  <2>3. (Claims /\ NoSharedClaim /\ Accepted /\ Proven /\ LiveRowKeepsSnapshot)'
    BY DEF Claims, NoSharedClaim, Accepted, StatusTellsTruth, Proven,
           LiveRowKeepsSnapshot
  <2> QED
    BY <2>1, <2>2, <2>3
<1>3. CASE StorePut(m)
  <2> USE <1>3 DEF StorePut, Goto, Refused
  <2>1. TypeOK'
    BY DEF TypeOK
  <2>2. Snapshots'
    BY DEF Snapshots, TypeOK
  <2>3. LiveRowKeepsSnapshot'
    BY DEF LiveRowKeepsSnapshot, TypeOK
  <2>4. (Claims /\ NoSharedClaim /\ Accepted /\ Proven)'
    BY DEF Claims, NoSharedClaim, Accepted, StatusTellsTruth, Proven
  <2> QED
    BY <2>1, <2>2, <2>3, <2>4
<1>4. CASE Insert(m)
  <2> USE <1>4 DEF Insert, Goto, Answer, Admitted, Rows, SameRequest
  <2>1. TypeOK'
    BY DEF TypeOK
  <2>2. Claims'
    BY DEF Claims, TypeOK, Snapshots
  <2>3. Accepted'
    BY DEF Accepted, StatusTellsTruth, TypeOK, Snapshots
  <2>4. Proven'
    BY DEF Proven, TypeOK, Snapshots
  <2>5. Snapshots'
    BY DEF Snapshots, TypeOK
  <2>6. LiveRowKeepsSnapshot'
    BY DEF LiveRowKeepsSnapshot, TypeOK, Snapshots
  <2>7. (NoSharedClaim)'
    BY DEF NoSharedClaim
  <2> QED
    BY <2>1, <2>2, <2>3, <2>4, <2>5, <2>6, <2>7
<1>5. CASE Discard(m)
  <2> USE <1>5 DEF Discard, Goto, DropObject
  <2>1. TypeOK'
    BY DEF TypeOK
  <2>2. Snapshots'
    BY DEF Snapshots, TypeOK
  <2>3. LiveRowKeepsSnapshot'
    BY DEF LiveRowKeepsSnapshot, TypeOK, Snapshots
  <2>4. (Claims /\ NoSharedClaim /\ Accepted /\ Proven)'
    BY DEF Claims, NoSharedClaim, Accepted, StatusTellsTruth, Proven
  <2> QED
    BY <2>1, <2>2, <2>3, <2>4
<1>6. CASE Reread(m)
  <2> USE <1>6 DEF Reread, Goto, Answer, Refused
  <2>1. TypeOK'
    BY DEF TypeOK, Rows
  <2>2. Snapshots'
    BY DEF Snapshots, TypeOK
  <2>3. (Claims /\ NoSharedClaim /\ Accepted /\ Proven /\ LiveRowKeepsSnapshot)'
    BY DEF Claims, NoSharedClaim, Accepted, StatusTellsTruth, Proven,
           LiveRowKeepsSnapshot
  <2> QED
    BY <2>1, <2>2, <2>3
<1> QED
  BY <1>1, <1>2, <1>3, <1>4, <1>5, <1>6 DEF Queue

\* A cancelled row was still queued: nobody worked on it and nothing was sent.
LEMMA CancelKeepsIInv ==
  ASSUME IInv, NEW m \in Mail, Cancel(m) PROVE IInv'
<1> USE DEF IInv
<1>1. CASE CancelArm(m)
  <2> USE <1>1 DEF CancelArm
  <2>1. TypeOK'
    BY DEF TypeOK
  <2>2. Snapshots'
    BY DEF Snapshots, TypeOK
  <2>3. (Claims /\ NoSharedClaim /\ Accepted /\ Proven /\ LiveRowKeepsSnapshot)'
    BY DEF Claims, NoSharedClaim, Accepted, StatusTellsTruth, Proven,
           LiveRowKeepsSnapshot
  <2> QED
    BY <2>1, <2>2, <2>3
<1>2. CASE CancelWrite(m)
  <2> USE <1>2 DEF CancelWrite, Cancellable
  <2>1. TypeOK'
    BY DEF TypeOK
  <2>2. Claims'
    BY DEF Claims, TypeOK
  <2>3. Accepted'
    BY DEF Accepted, StatusTellsTruth, TypeOK
  <2>4. Proven'
    BY DEF Proven, TypeOK, Accepted, StatusTellsTruth
  <2>5. Snapshots'
    BY DEF Snapshots, TypeOK
  <2>6. LiveRowKeepsSnapshot'
    BY DEF LiveRowKeepsSnapshot, TypeOK
  <2>7. (NoSharedClaim)'
    BY DEF NoSharedClaim
  <2> QED
    BY <2>1, <2>2, <2>3, <2>4, <2>5, <2>6, <2>7
<1>3. CASE CancelTidy(m)
  <2> USE <1>3 DEF CancelTidy, DropObject
  <2>1. TypeOK'
    BY DEF TypeOK
  <2>2. Snapshots'
    BY DEF Snapshots, TypeOK
  <2>3. LiveRowKeepsSnapshot'
    BY DEF LiveRowKeepsSnapshot, TypeOK, Snapshots
  <2>4. (Claims /\ NoSharedClaim /\ Accepted /\ Proven)'
    BY DEF Claims, NoSharedClaim, Accepted, StatusTellsTruth, Proven
  <2> QED
    BY <2>1, <2>2, <2>3, <2>4
<1> QED
  BY <1>1, <1>2, <1>3 DEF Cancel

\* A claimed row was queued, so no other worker holds it and it was never sent.
LEMMA ClaimKeepsIInv ==
  ASSUME IInv, NEW w \in Worker, NEW m \in Mail, Claim(w, m) PROVE IInv'
<1> USE DEF IInv
<1>1. CASE Claim(w, m)
  <2> USE <1>1 DEF Claim, Claimable
  <2>1. TypeOK'
    BY DEF TypeOK
  <2>2. Claims'
    BY DEF Claims, TypeOK, Accepted, StatusTellsTruth
  <2>3. NoSharedClaim'
    BY DEF NoSharedClaim, TypeOK, Claims
  <2>4. Accepted'
    BY DEF Accepted, StatusTellsTruth, TypeOK
  <2>5. Proven'
    BY DEF Proven, TypeOK, Accepted, StatusTellsTruth
  <2>6. Snapshots'
    BY DEF Snapshots, TypeOK
  <2>7. LiveRowKeepsSnapshot'
    BY DEF LiveRowKeepsSnapshot, TypeOK
  <2> QED
    BY <2>1, <2>2, <2>3, <2>4, <2>5, <2>6, <2>7
<1> QED
  BY <1>1

\* A worker sends once, at a step it cannot come back to.
LEMMA DeliverKeepsIInv ==
  ASSUME IInv, NEW w \in Worker, Deliver(w) \/ WorkCrash(w) PROVE IInv'
<1> USE DEF IInv
<1>1. CASE CheckActive(w)
  <2> USE <1>1 DEF CheckActive, WorkGoto
  <2>1. TypeOK'
    BY DEF TypeOK
  <2>2. Claims'
    BY DEF Claims, TypeOK
  <2>3. (NoSharedClaim /\ Accepted /\ Proven /\ Snapshots /\ LiveRowKeepsSnapshot)'
    BY DEF NoSharedClaim, Accepted, StatusTellsTruth, Proven, Snapshots,
           LiveRowKeepsSnapshot
  <2> QED
    BY <2>1, <2>2, <2>3
<1>2. CASE LoadSnapshot(w)
  <2> USE <1>2 DEF LoadSnapshot, WorkGoto
  <2>1. TypeOK'
    BY DEF TypeOK
  <2>2. Claims'
    BY DEF Claims, TypeOK
  <2>3. (NoSharedClaim /\ Accepted /\ Proven /\ Snapshots /\ LiveRowKeepsSnapshot)'
    BY DEF NoSharedClaim, Accepted, StatusTellsTruth, Proven, Snapshots,
           LiveRowKeepsSnapshot
  <2> QED
    BY <2>1, <2>2, <2>3
<1>3. CASE Prepare(w)
  <2> USE <1>3 DEF Prepare, WorkGoto
  <2>1. TypeOK'
    BY DEF TypeOK
  <2>2. Claims'
    BY DEF Claims, TypeOK
  <2>3. (NoSharedClaim /\ Accepted /\ Proven /\ Snapshots /\ LiveRowKeepsSnapshot)'
    BY DEF NoSharedClaim, Accepted, StatusTellsTruth, Proven, Snapshots,
           LiveRowKeepsSnapshot
  <2> QED
    BY <2>1, <2>2, <2>3
<1>4. CASE Import(w)
  <2> USE <1>4 DEF Import, WorkGoto
  <2>1. TypeOK'
    BY DEF TypeOK, Claims
  <2>2. Claims'
    BY DEF Claims, TypeOK
  <2>3. (NoSharedClaim /\ Accepted /\ Proven /\ Snapshots /\ LiveRowKeepsSnapshot)'
    BY DEF NoSharedClaim, Accepted, StatusTellsTruth, Proven, Snapshots,
           LiveRowKeepsSnapshot
  <2> QED
    BY <2>1, <2>2, <2>3
<1>5. CASE NoteImport(w)
  <2> USE <1>5 DEF NoteImport, WorkGoto, Noted
  <2>1. TypeOK'
    BY DEF TypeOK, Claims
  <2>2. Claims'
    BY DEF Claims, TypeOK
  <2>3. (NoSharedClaim /\ Accepted /\ Proven /\ Snapshots /\ LiveRowKeepsSnapshot)'
    BY DEF NoSharedClaim, Accepted, StatusTellsTruth, Proven, Snapshots,
           LiveRowKeepsSnapshot
  <2> QED
    BY <2>1, <2>2, <2>3
<1>6. CASE Send(w)
  <2> USE <1>6 DEF Send, WorkGoto
  <2>1. TypeOK'
    BY DEF TypeOK
  <2>2. Claims'
    BY DEF Claims, TypeOK, NoSharedClaim
  <2>3. Accepted'
    BY DEF Accepted, StatusTellsTruth, TypeOK, Claims
  <2>4. Proven'
    BY DEF Proven, TypeOK, Claims
  <2>5. (NoSharedClaim /\ Snapshots /\ LiveRowKeepsSnapshot)'
    BY DEF NoSharedClaim, Snapshots, LiveRowKeepsSnapshot
  <2> QED
    BY <2>1, <2>2, <2>3, <2>4, <2>5
<1>7. CASE FileAndNote(w)
  <2> USE <1>7 DEF FileAndNote, WorkGoto, Noted
  <2>1. TypeOK'
    BY DEF TypeOK, Claims
  <2>2. Claims'
    BY DEF Claims, TypeOK
  <2>3. Accepted'
    BY DEF Accepted, StatusTellsTruth, TypeOK, Claims
  <2>4. (NoSharedClaim /\ Proven /\ Snapshots /\ LiveRowKeepsSnapshot)'
    BY DEF NoSharedClaim, Proven, Snapshots, LiveRowKeepsSnapshot
  <2> QED
    BY <2>1, <2>2, <2>3, <2>4
<1>8. CASE Finish(w)
  <2> USE <1>8 DEF Finish, WorkGoto, WorkIdle, FinishClaim, NotHeld, RemoveDraft
  <2>1. wjob[w] \in Mail
    BY DEF TypeOK, Claims
  <2>2. status' \in [Mail -> Status]
    BY <2>1 DEF TypeOK
  <2>3. draft' \in [live : BOOLEAN, rev : Nat, inc : Nat]
    <3>1. draft' = draft \/ draft' = [draft EXCEPT !.live = FALSE]
      OBVIOUS
    <3>2. draft \in [live : BOOLEAN, rev : Nat, inc : Nat]
      BY DEF TypeOK
    <3> HIDE DEF Finish, IInv
    <3> QED
      BY <3>1, <3>2
  <2>4. TypeOK'
    BY <2>2, <2>3 DEF TypeOK
  <2>5. Claims'
    BY DEF Claims, TypeOK, NoSharedClaim
  <2>6. NoSharedClaim'
    BY DEF NoSharedClaim, TypeOK
  <2>7. Accepted'
    BY DEF Accepted, StatusTellsTruth, TypeOK, Claims
  <2>8. Proven' /\ Snapshots' /\ LiveRowKeepsSnapshot'
    BY DEF Proven, Snapshots, LiveRowKeepsSnapshot, TypeOK
  <2> QED
    BY <2>4, <2>5, <2>6, <2>7, <2>8
<1>9. CASE WorkTidy(w)
  <2> USE <1>9 DEF WorkTidy, WorkIdle, DropObject
  <2>1. TypeOK'
    BY DEF TypeOK
  <2>2. Claims'
    BY DEF Claims, TypeOK
  <2>3. NoSharedClaim'
    BY DEF NoSharedClaim, TypeOK
  <2>4. Snapshots'
    BY DEF Snapshots, TypeOK, Claims
  <2>5. LiveRowKeepsSnapshot'
    BY DEF LiveRowKeepsSnapshot, TypeOK, Claims
  <2>6. (Accepted /\ Proven)'
    BY DEF Accepted, StatusTellsTruth, Proven
  <2> QED
    BY <2>1, <2>2, <2>3, <2>4, <2>5, <2>6
<1>10. CASE WorkCrash(w)
  <2> USE <1>10 DEF WorkCrash, WorkIdle
  <2>1. TypeOK'
    BY DEF TypeOK
  <2>2. Claims'
    BY DEF Claims, TypeOK
  <2>3. NoSharedClaim'
    BY DEF NoSharedClaim, TypeOK
  <2>4. (Accepted /\ Proven /\ Snapshots /\ LiveRowKeepsSnapshot)'
    BY DEF Accepted, StatusTellsTruth, Proven, Snapshots, LiveRowKeepsSnapshot
  <2> QED
    BY <2>1, <2>2, <2>3, <2>4
<1> QED
  BY <1>1, <1>2, <1>3, <1>4, <1>5, <1>6, <1>7, <1>8, <1>9, <1>10 DEF Deliver

\* A receipt on the row is a proof.
LEMMA BeginKeepsIInv ==
  ASSUME IInv, NEW c \in Reconciler, NEW m \in Mail, ReconBegin(c, m) PROVE IInv'
<1> USE DEF IInv
<1>1. CASE ReconBegin(c, m)
  <2> USE <1>1 DEF ReconBegin, Reconcilable
  <2>1. TypeOK'
    BY DEF TypeOK
  <2>2. Proven'
    BY DEF Proven, TypeOK, Accepted, StatusTellsTruth
  <2>3. (Claims /\ NoSharedClaim /\ Accepted /\ Snapshots /\ LiveRowKeepsSnapshot)'
    BY DEF Claims, NoSharedClaim, Accepted, StatusTellsTruth, Snapshots,
           LiveRowKeepsSnapshot
  <2> QED
    BY <2>1, <2>2, <2>3
<1> QED
  BY <1>1

\* A reconciler turns an unknown outcome into "sent" only with a proof.
LEMMA ReconcileKeepsIInv ==
  ASSUME IInv, NEW c \in Reconciler, Reconcile(c) \/ ReconAbort(c) PROVE IInv'
<1> USE DEF IInv
<1>1. CASE FindMail(c)
  <2> USE <1>1 DEF FindMail, ReconGoto
  <2>1. TypeOK'
    BY DEF TypeOK
  <2>2. Proven'
    BY DEF Proven, TypeOK
  <2>3. (Claims /\ NoSharedClaim /\ Accepted /\ Snapshots /\ LiveRowKeepsSnapshot)'
    BY DEF Claims, NoSharedClaim, Accepted, StatusTellsTruth, Snapshots,
           LiveRowKeepsSnapshot
  <2> QED
    BY <2>1, <2>2, <2>3
<1>2. CASE FindProof(c)
  <2> USE <1>2 DEF FindProof, ReconGoto, Evidence
  <2>1. PICK found \in Evidence(c) : rproof' = [rproof EXCEPT ![c] = rproof[c] \/ found]
    OBVIOUS
  <2>2. found => rjob[c] # NoMail /\ submissions[rjob[c]] = 1
    <3>1. found => submissions[rjob[c]] > 0
      BY <2>1, Zenon
    <3> QED
      BY <3>1 DEF TypeOK, Proven, Accepted
  <2>3. \A x \in Reconciler : rproof'[x] => rproof[x] \/ (x = c /\ found)
    BY <2>1 DEF TypeOK
  <2>4. TypeOK'
    BY DEF TypeOK
  <2>5. Proven'
    BY <2>2, <2>3 DEF Proven, TypeOK
  <2>6. (Claims /\ NoSharedClaim /\ Accepted /\ Snapshots /\ LiveRowKeepsSnapshot)'
    BY DEF Claims, NoSharedClaim, Accepted, StatusTellsTruth, Snapshots,
           LiveRowKeepsSnapshot
  <2> QED
    BY <2>4, <2>5, <2>6
<1>3. CASE ReconWrite(c)
  <2> USE <1>3 DEF ReconWrite, ReconGoto, ReconIdle
  <2>1. rjob[c] \in Mail
    BY DEF TypeOK, Proven
  <2>2. status' \in [Mail -> Status] /\ importNoted' \subseteq Mail /\ sendNoted' \subseteq Mail
    BY <2>1 DEF TypeOK
  <2>3. rpc' \in [Reconciler -> ReconStep] /\ rjob' \in [Reconciler -> Mail \union {NoMail}]
    BY DEF TypeOK
  <2>4. rmail' \in [Reconciler -> BOOLEAN] /\ rproof' \in [Reconciler -> BOOLEAN]
    <3>1. rmail' = rmail \/ rmail' = [rmail EXCEPT ![c] = FALSE]
      OBVIOUS
    <3>2. rproof' = rproof \/ rproof' = [rproof EXCEPT ![c] = FALSE]
      OBVIOUS
    <3>3. rmail \in [Reconciler -> BOOLEAN] /\ rproof \in [Reconciler -> BOOLEAN]
      BY DEF TypeOK
    <3> HIDE DEF ReconWrite, IInv
    <3> QED
      BY <3>1, <3>2, <3>3
  <2>5. TypeOK'
    BY <2>2, <2>3, <2>4 DEF TypeOK
  <2>6. Claims'
    BY DEF Claims, TypeOK, Proven
  <2>7. Accepted'
    BY DEF Accepted, StatusTellsTruth, TypeOK, Proven
  <2>8. Proven'
    BY DEF Proven, TypeOK
  <2>9. Snapshots' /\ LiveRowKeepsSnapshot'
    BY DEF Snapshots, LiveRowKeepsSnapshot, TypeOK, Proven
  <2>10. NoSharedClaim'
    BY DEF NoSharedClaim
  <2> QED
    BY <2>5, <2>6, <2>7, <2>8, <2>9, <2>10
<1>4. CASE ReconDraft(c)
  <2> USE <1>4 DEF ReconDraft, ReconGoto, RemoveDraft
  <2>1. TypeOK'
    BY DEF TypeOK
  <2>2. Proven'
    BY DEF Proven, TypeOK
  <2>3. (Claims /\ NoSharedClaim /\ Accepted /\ Snapshots /\ LiveRowKeepsSnapshot)'
    BY DEF Claims, NoSharedClaim, Accepted, StatusTellsTruth, Snapshots,
           LiveRowKeepsSnapshot
  <2> QED
    BY <2>1, <2>2, <2>3
<1>5. CASE ReconTidy(c)
  <2> USE <1>5 DEF ReconTidy, ReconIdle, DropObject
  <2>1. TypeOK'
    BY DEF TypeOK
  <2>2. Proven'
    BY DEF Proven, TypeOK
  <2>3. Snapshots'
    BY DEF Snapshots, TypeOK, Proven
  <2>4. LiveRowKeepsSnapshot'
    BY DEF LiveRowKeepsSnapshot, TypeOK, Proven
  <2>5. (Claims /\ NoSharedClaim /\ Accepted)'
    BY DEF Claims, NoSharedClaim, Accepted, StatusTellsTruth
  <2> QED
    BY <2>1, <2>2, <2>3, <2>4, <2>5
<1>6. CASE ReconAbort(c)
  <2> USE <1>6 DEF ReconAbort, ReconIdle
  <2>1. TypeOK'
    BY DEF TypeOK
  <2>2. Proven'
    BY DEF Proven, TypeOK
  <2>3. (Claims /\ NoSharedClaim /\ Accepted /\ Snapshots /\ LiveRowKeepsSnapshot)'
    BY DEF Claims, NoSharedClaim, Accepted, StatusTellsTruth, Snapshots,
           LiveRowKeepsSnapshot
  <2> QED
    BY <2>1, <2>2, <2>3
<1> QED
  BY <1>1, <1>2, <1>3, <1>4, <1>5, <1>6 DEF Reconcile

\* Maintenance picks finished rows, and a finished row stays finished.
LEMMA SweepKeepsIInv ==
  ASSUME IInv, NEW m \in Mail, Sweep(m) PROVE IInv'
<1> USE DEF IInv
<1>1. CASE SweepPick(m)
  <2> USE <1>1 DEF SweepPick, SweepGoto, Sweepable
  <2>1. TypeOK'
    BY DEF TypeOK
  <2>2. Snapshots'
    BY DEF Snapshots, TypeOK
  <2>3. (Claims /\ NoSharedClaim /\ Accepted /\ Proven /\ LiveRowKeepsSnapshot)'
    BY DEF Claims, NoSharedClaim, Accepted, StatusTellsTruth, Proven,
           LiveRowKeepsSnapshot
  <2> QED
    BY <2>1, <2>2, <2>3
<1>2. CASE SweepDelete(m)
  <2> USE <1>2 DEF SweepDelete, SweepGoto
  <2>1. TypeOK'
    BY DEF TypeOK
  <2>2. Snapshots'
    BY DEF Snapshots, TypeOK
  <2>3. LiveRowKeepsSnapshot'
    BY DEF LiveRowKeepsSnapshot, TypeOK, Snapshots
  <2>4. (Claims /\ NoSharedClaim /\ Accepted /\ Proven)'
    BY DEF Claims, NoSharedClaim, Accepted, StatusTellsTruth, Proven
  <2> QED
    BY <2>1, <2>2, <2>3, <2>4
<1>3. CASE SweepMark(m)
  <2> USE <1>3 DEF SweepMark, SweepGoto
  <2>1. TypeOK'
    BY DEF TypeOK
  <2>2. Snapshots'
    BY DEF Snapshots, TypeOK
  <2>3. (Claims /\ NoSharedClaim /\ Accepted /\ Proven /\ LiveRowKeepsSnapshot)'
    BY DEF Claims, NoSharedClaim, Accepted, StatusTellsTruth, Proven,
           LiveRowKeepsSnapshot
  <2> QED
    BY <2>1, <2>2, <2>3
<1> QED
  BY <1>1, <1>2, <1>3 DEF Sweep

\* The clock moves no row.
LEMMA ClockKeepsIInv ==
  ASSUME IInv, NEW m \in Mail, Clock(m) PROVE IInv'
<1> USE DEF IInv
<1>1. CASE BecomeDue(m)
  <2> USE <1>1 DEF BecomeDue
  <2>1. TypeOK'
    BY DEF TypeOK
  <2>2.
        (Claims /\ NoSharedClaim /\ Accepted /\ Proven /\ Snapshots /\ LiveRowKeepsSnapshot)'
    BY DEF Claims, NoSharedClaim, Accepted, StatusTellsTruth, Proven, Snapshots,
           LiveRowKeepsSnapshot
  <2> QED
    BY <2>1, <2>2
<1>2. CASE BecomeAged(m)
  <2> USE <1>2 DEF BecomeAged
  <2>1. TypeOK'
    BY DEF TypeOK
  <2>2.
        (Claims /\ NoSharedClaim /\ Accepted /\ Proven /\ Snapshots /\ LiveRowKeepsSnapshot)'
    BY DEF Claims, NoSharedClaim, Accepted, StatusTellsTruth, Proven, Snapshots,
           LiveRowKeepsSnapshot
  <2> QED
    BY <2>1, <2>2
<1> QED
  BY <1>1, <1>2 DEF Clock

\* The user's drafts and account are read by the others but hold nothing of them.
LEMMA UserKeepsIInv ==
  ASSUME IInv, SaveDraft \/ DeleteDraft \/ ToggleAccount PROVE IInv'
<1>1. /\ UNCHANGED <<callVars, rowVars, storeVars, serverVars, cancelPc, workerVars, reconVars>>
      /\ active' \in BOOLEAN
  BY DEF SaveDraft, DeleteDraft, ToggleAccount, IInv, TypeOK
<1>2. draft' \in [live : BOOLEAN, rev : Nat, inc : Nat]
  <2>1. CASE SaveDraft
    <3>1. draft.rev \in Nat /\ draft.inc \in Nat /\ draft.live \in BOOLEAN
      BY DEF IInv, TypeOK
    <3>2. CASE draft' = [live |-> TRUE, rev |-> 1, inc |-> draft.inc + 1]
      BY <3>1, <3>2
    <3>3. CASE draft' = [draft EXCEPT !.rev = draft.rev + 1]
      <4>1. draft' = [live |-> draft.live, rev |-> draft.rev + 1, inc |-> draft.inc]
        BY <3>3 DEF IInv, TypeOK
      <4> QED
        BY <3>1, <4>1
    <3> QED
      BY <2>1, <3>2, <3>3 DEF SaveDraft
  <2>2. CASE DeleteDraft
    BY <2>2 DEF DeleteDraft, IInv, TypeOK
  <2>3. CASE ToggleAccount
    BY <2>3 DEF ToggleAccount, IInv, TypeOK
  <2> QED
    BY <2>1, <2>2, <2>3
<1> QED
  BY <1>1, <1>2 DEF IInv, TypeOK, Claims, NoSharedClaim, Accepted, StatusTellsTruth, Proven,
              Snapshots, LiveRowKeepsSnapshot

LEMMA NextKeepsIInv == IInv /\ [Next]_vars => IInv'
<1> SUFFICES ASSUME IInv, [Next]_vars PROVE IInv'
  OBVIOUS
<1>1. CASE UNCHANGED vars
  BY <1>1 DEF vars, IInv, TypeOK, Claims, NoSharedClaim, Accepted, StatusTellsTruth,
              Proven, Snapshots, LiveRowKeepsSnapshot
<1>2. CASE Next
  BY <1>2, QueueKeepsIInv, CancelKeepsIInv, ClaimKeepsIInv, DeliverKeepsIInv,
     BeginKeepsIInv, ReconcileKeepsIInv, SweepKeepsIInv, ClockKeepsIInv, UserKeepsIInv
     DEF Next
<1> QED
  BY <1>1, <1>2

LEMMA IInvHolds == Spec => []IInv
BY InitIInv, NextKeepsIInv, PTL DEF Spec

\* Every variable keeps its type, in every outbox.
THEOREM OutboxTypeCorrect == Spec => []TypeOK
<1>1. IInv => TypeOK
  BY DEF IInv
<1> QED
  BY <1>1, IInvHolds, PTL

\* No crash, lost reply or reconciliation makes the server accept a message twice.
THEOREM OutboxSendsAtMostOnce == Spec => []SentAtMostOnce
<1>1. IInv => SentAtMostOnce
  BY DEF IInv, Accepted, SentAtMostOnce
<1> QED
  BY <1>1, IInvHolds, PTL

\* A "sent" row was accepted; a queued, cancelled or blocked one never was.
THEOREM OutboxTellsTruth == Spec => []StatusTellsTruth
<1>1. IInv => StatusTellsTruth
  BY DEF IInv, Accepted
<1> QED
  BY <1>1, IInvHolds, PTL

\* However many workers there are, no two of them hold the same row.
THEOREM OutboxSharesNoClaim == Spec => []NoSharedClaim
<1>1. IInv => NoSharedClaim
  BY DEF IInv
<1> QED
  BY <1>1, IInvHolds, PTL

\* A row that is not finished keeps its snapshot, but for a lost acknowledgement.
THEOREM OutboxKeepsSnapshots == Spec => []LiveRowKeepsSnapshot
<1>1. IInv => LiveRowKeepsSnapshot
  BY DEF IInv
<1> QED
  BY <1>1, IInvHolds, PTL


\* Every write of a status starts from one that is not terminal.
TerminalStays == \A m \in Mail : status[m] \in Terminal => status'[m] = status[m]

LEMMA StepKeepsTerminal == IInv /\ [Next]_vars => TerminalStays
<1> SUFFICES ASSUME IInv, [Next]_vars PROVE TerminalStays
  OBVIOUS
<1> USE DEF IInv, TypeOK, TerminalStays
<1>1. CASE UNCHANGED vars
  BY <1>1 DEF vars
<1>2. ASSUME NEW m \in Mail, Queue(m) PROVE TerminalStays
  BY <1>2 DEF Queue, Lookup, Compose, StorePut, Insert, Discard, Reread, Snapshots
<1>3. ASSUME NEW m \in Mail, Cancel(m) PROVE TerminalStays
  BY <1>3 DEF Cancel, CancelArm, CancelWrite, CancelTidy, Cancellable
<1>4. ASSUME NEW m \in Mail, Sweep(m) \/ Clock(m) PROVE TerminalStays
  BY <1>4 DEF Sweep, SweepPick, SweepDelete, SweepMark, Clock, BecomeDue, BecomeAged
<1>5. ASSUME NEW w \in Worker, Deliver(w) \/ WorkCrash(w) PROVE TerminalStays
  <2>1. CASE Finish(w)
    BY <2>1 DEF Finish, FinishClaim, NotHeld
  <2>2. Finish(w) \/ UNCHANGED status
    BY <1>5 DEF Deliver, CheckActive, LoadSnapshot, Prepare, Import, NoteImport, Send,
                FileAndNote, WorkTidy, WorkCrash
  <2> QED
    BY <2>1, <2>2
<1>6. ASSUME NEW w \in Worker, NEW m \in Mail, Claim(w, m) PROVE TerminalStays
  BY <1>6 DEF Claim, Claimable
<1>7. ASSUME NEW c \in Reconciler, Reconcile(c) \/ ReconAbort(c) PROVE TerminalStays
  <2>1. CASE ReconWrite(c)
    BY <2>1 DEF ReconWrite
  <2>2. ReconWrite(c) \/ UNCHANGED status
    BY <1>7 DEF Reconcile, FindMail, FindProof, ReconDraft, ReconTidy, ReconAbort
  <2> QED
    BY <2>1, <2>2
<1>8. ASSUME NEW c \in Reconciler, NEW m \in Mail, ReconBegin(c, m) PROVE TerminalStays
  BY <1>8 DEF ReconBegin
<1>9. CASE SaveDraft \/ DeleteDraft \/ ToggleAccount
  BY <1>9 DEF SaveDraft, DeleteDraft, ToggleAccount
<1> QED
  BY <1>1, <1>2, <1>3, <1>4, <1>5, <1>6, <1>7, <1>8, <1>9 DEF Next

\* A late worker or reconciler never takes a "sent", cancelled or blocked row back.
THEOREM OutboxTerminalIsFinal == Spec => TerminalIsFinal
<1>1. IInv /\ [Next]_vars => [\A m \in Mail : status[m] \in Terminal => status'[m] = status[m]]_vars
  BY StepKeepsTerminal DEF TerminalStays
<1> QED
  BY <1>1, IInvHolds, PTL DEF Spec, TerminalIsFinal

------------------------------------------------------------------------------
\* An answer names a row of its own request and content, and a request has one row.
Answered(m) ==
  answer[m] # NoMail =>
    /\ SameRequest(m, answer[m]) /\ ContentOf[answer[m]] = ContentOf[m]
    /\ status[answer[m]] # "none"
RInv ==
  /\ \A m \in Mail : Answered(m)
  /\ \A m, n \in Mail :
       SameRequest(m, n) /\ status[m] # "none" /\ status[n] # "none" => m = n

\* A row appears when Queue inserts it and never disappears.
RowsStay == \A m \in Mail : status'[m] = "none" <=> status[m] = "none"

LEMMA StepKeepsRows ==
  ASSUME IInv, [Next]_vars, ~\E m \in Mail : Queue(m)
  PROVE  RowsStay /\ UNCHANGED callVars
<1> USE DEF IInv, TypeOK, RowsStay
<1>1. CASE UNCHANGED vars
  BY <1>1 DEF vars
<1>2. ASSUME NEW m \in Mail, Cancel(m) \/ Sweep(m) \/ Clock(m)
      PROVE  RowsStay /\ UNCHANGED callVars
  BY <1>2 DEF Cancel, CancelArm, CancelWrite, CancelTidy, Cancellable, Sweep, SweepPick,
              SweepDelete, SweepMark, Clock, BecomeDue, BecomeAged
<1>3. ASSUME NEW w \in Worker, Deliver(w) \/ WorkCrash(w)
      PROVE  RowsStay /\ UNCHANGED callVars
  <2>1. CASE Finish(w)
    BY <2>1 DEF Finish, FinishClaim, NotHeld, Claims
  <2>2. Finish(w) \/ UNCHANGED <<status, callVars>>
    BY <1>3 DEF Deliver, CheckActive, LoadSnapshot, Prepare, Import, NoteImport, Send,
                FileAndNote, WorkTidy, WorkCrash
  <2> QED
    BY <2>1, <2>2
<1>4. ASSUME NEW w \in Worker, NEW m \in Mail, Claim(w, m)
      PROVE  RowsStay /\ UNCHANGED callVars
  BY <1>4 DEF Claim, Claimable
<1>5. ASSUME NEW c \in Reconciler, Reconcile(c) \/ ReconAbort(c)
      PROVE  RowsStay /\ UNCHANGED callVars
  <2>1. CASE ReconWrite(c)
    BY <2>1 DEF ReconWrite, Proven
  <2>2. ReconWrite(c) \/ UNCHANGED <<status, callVars>>
    BY <1>5 DEF Reconcile, FindMail, FindProof, ReconDraft, ReconTidy, ReconAbort
  <2> QED
    BY <2>1, <2>2
<1>6. ASSUME NEW c \in Reconciler, NEW m \in Mail, ReconBegin(c, m)
      PROVE  RowsStay /\ UNCHANGED callVars
  BY <1>6 DEF ReconBegin
<1>7. CASE SaveDraft \/ DeleteDraft \/ ToggleAccount
  BY <1>7 DEF SaveDraft, DeleteDraft, ToggleAccount
<1> QED
  BY <1>1, <1>2, <1>3, <1>4, <1>5, <1>6, <1>7 DEF Next

\* The unique index admits one row per request; an answer names a row just read
\* or just inserted.
LEMMA QueueKeepsRInv ==
  ASSUME IInv, RInv, NEW m \in Mail, Queue(m) PROVE RInv'
<1> USE DEF IInv, TypeOK, RInv, Answered
<1>1. ASSUME NEW n \in Rows(m), Answer(m, n), UNCHANGED status PROVE RInv'
  BY <1>1 DEF Answer, Rows, SameRequest
<1>2. CASE UNCHANGED <<answer, status>>
  BY <1>2 DEF SameRequest
<1>3. CASE Insert(m) /\ ~UNCHANGED status
  <2>1. Rows(m) = {} /\ status' = [status EXCEPT ![m] = "queued"]
    BY <1>3 DEF Insert, Admitted
  <2>2. \A n \in Mail : SameRequest(m, n) => status[n] = "none"
    BY <2>1 DEF Rows
  <2>3. answer' = answer \/ answer' = [answer EXCEPT ![m] = m]
    BY <1>3 DEF Insert, Answer
  <2>4. status'[m] = "queued" /\ \A n \in Mail : n # m => status'[n] = status[n]
    BY <2>1
  <2>5. \A n \in Mail : answer'[n] = answer[n] \/ (n = m /\ answer'[n] = m)
    BY <2>3
  <2> QED
    BY <2>2, <2>4, <2>5 DEF SameRequest
<1>4. CASE Insert(m) /\ UNCHANGED status
  <2>1. status' # [status EXCEPT ![m] = "queued"]
    BY <1>4 DEF Insert, Snapshots
  <2> QED
    BY <1>4, <1>2, <2>1 DEF Insert
<1> QED
  BY <1>1, <1>2, <1>3, <1>4 DEF Queue, Lookup, Compose, StorePut, Discard, Reread, Refused

LEMMA RequestsHold == Spec => [](IInv /\ RInv)
<1>1. Init => RInv
  BY DEF Init, RInv, Answered
<1>2. IInv /\ RInv /\ [Next]_vars => RInv'
  <2> SUFFICES ASSUME IInv, RInv, [Next]_vars PROVE RInv'
    OBVIOUS
  <2>1. CASE \E m \in Mail : Queue(m)
    BY <2>1, QueueKeepsRInv
  <2>2. CASE ~\E m \in Mail : Queue(m)
    BY <2>2, StepKeepsRows DEF RInv, Answered, RowsStay, SameRequest, IInv, TypeOK
  <2> QED
    BY <2>1, <2>2
<1> QED
  BY <1>1, <1>2, IInvHolds, PTL DEF Spec

\* However calls of one request interleave, it has one row, named by every answer.
THEOREM OutboxHasOneRowPerRequest == Spec => []OneRowPerRequest
<1>1. IInv /\ RInv => OneRowPerRequest
  BY DEF IInv, TypeOK, RInv, Answered, OneRowPerRequest, SameRequest
<1> QED
  BY <1>1, RequestsHold, PTL

\* No call answers with a row that is not there or that holds another content.
THEOREM OutboxAnswersOwnRow == Spec => []AnswerNamesOwnRow
<1>1. IInv /\ RInv => AnswerNamesOwnRow
  BY DEF RInv, Answered, AnswerNamesOwnRow
<1> QED
  BY <1>1, RequestsHold, PTL

------------------------------------------------------------------------------
\* What a Queue call recorded is an earlier state of the draft, and only a call
\* that sends the draft recorded one.
Revisions ==
  \A m \in Mail : queuedInc[m] <= draft.inc /\ (queuedRev[m] # 0 => m \in WithDraft)

\* The draft's creations are counted upwards, and a Queue call alone records one.
DraftGrows == draft'.inc >= draft.inc /\ UNCHANGED <<queuedRev, queuedInc>>

\* The steps a draft can be lost in.
DraftLost == draft.live /\ ~draft'.live
SentTakesDraft(m) ==
  DraftLost => queuedRev[m] # 0 /\ queuedRev[m] = draft.rev /\ status'[m] = "sent"

\* deleteAcceptedDraft leaves any other revision alone.
LEMMA RemoveTakesRevision ==
  ASSUME TypeOK, NEW m \in Mail, RemoveDraft(m) \/ UNCHANGED draft
  PROVE  /\ draft'.inc >= draft.inc
         /\ DraftLost => queuedRev[m] # 0 /\ queuedRev[m] = draft.rev
<1>1. CASE UNCHANGED draft
  BY <1>1 DEF TypeOK, DraftLost
<1>2. CASE draft' = [draft EXCEPT !.live = FALSE] /\ queuedRev[m] # 0 /\ draft.rev = queuedRev[m]
  BY <1>2 DEF TypeOK, DraftLost
<1> QED
  BY <1>1, <1>2 DEF RemoveDraft

\* finishClaim changes the draft only together with a row it turns "sent".
LEMMA FinishTakesRevision ==
  ASSUME IInv, NEW w \in Worker, Finish(w)
  PROVE  DraftGrows /\ SentTakesDraft(wjob[w]) /\ wjob[w] \in Mail
<1>1. wjob[w] \in Mail
  BY DEF IInv, TypeOK, Claims, Finish
<1>2. RemoveDraft(wjob[w]) \/ UNCHANGED draft
  BY DEF Finish, FinishClaim, NotHeld
<1>3. DraftLost => status' = [status EXCEPT ![wjob[w]] = "sent"]
  BY DEF Finish, FinishClaim, NotHeld, DraftLost
<1>4. status'[wjob[w]] = "sent" \/ ~DraftLost
  BY <1>1, <1>3 DEF IInv, TypeOK
<1> QED
  BY <1>1, <1>2, <1>4, RemoveTakesRevision DEF IInv, DraftGrows, SentTakesDraft, Finish

\* A reconciler gets to the draft after its row became "sent", which is final.
LEMMA ReconTakesRevision ==
  ASSUME IInv, NEW c \in Reconciler, ReconDraft(c)
  PROVE  DraftGrows /\ SentTakesDraft(rjob[c]) /\ rjob[c] \in Mail
<1>1. rjob[c] \in Mail /\ status[rjob[c]] = "sent"
  BY DEF IInv, TypeOK, Proven, ReconDraft
<1> QED
  BY <1>1, RemoveTakesRevision DEF IInv, DraftGrows, SentTakesDraft, ReconDraft

\* Everybody else leaves the draft live, but for its author.
LEMMA StepTakesRevision ==
  ASSUME IInv, [Next]_vars
  PROVE  \/ \E m \in Mail : Compose(m)
         \/ DraftGrows /\ (DraftLost => DeleteDraft \/ \E m \in Mail : SentTakesDraft(m))
<1> USE DEF DraftGrows, DraftLost
<1>0. draft \in [live : BOOLEAN, rev : Nat, inc : Nat]
  BY DEF IInv, TypeOK
<1>1. CASE UNCHANGED vars
  BY <1>0, <1>1 DEF vars
<1>2. ASSUME NEW m \in Mail, Queue(m) \/ Cancel(m) \/ Sweep(m) \/ Clock(m)
      PROVE  Compose(m) \/ UNCHANGED <<draft, queuedRev, queuedInc>>
  BY <1>2 DEF Queue, Lookup, StorePut, Insert, Discard, Reread, Cancel, CancelArm, CancelWrite,
              CancelTidy, Sweep, SweepPick, SweepDelete, SweepMark, Clock, BecomeDue, BecomeAged
<1>3. ASSUME NEW w \in Worker, Deliver(w) \/ WorkCrash(w) \/ \E m \in Mail : Claim(w, m)
      PROVE  Finish(w) \/ UNCHANGED <<draft, queuedRev, queuedInc>>
  BY <1>3 DEF Deliver, CheckActive, LoadSnapshot, Prepare, Import, NoteImport, Send,
              FileAndNote, WorkTidy, WorkCrash, Claim
<1>4. ASSUME NEW c \in Reconciler, Reconcile(c) \/ ReconAbort(c) \/ \E m \in Mail : ReconBegin(c, m)
      PROVE  ReconDraft(c) \/ UNCHANGED <<draft, queuedRev, queuedInc>>
  BY <1>4 DEF Reconcile, FindMail, FindProof, ReconWrite, ReconTidy, ReconAbort, ReconBegin
<1>5. CASE SaveDraft
  <2>1. draft'.inc >= draft.inc /\ draft'.live
    BY <1>0, <1>5 DEF SaveDraft
  <2> QED
    BY <1>5, <2>1 DEF SaveDraft
<1>6. CASE DeleteDraft \/ ToggleAccount
  BY <1>0, <1>6 DEF DeleteDraft, ToggleAccount
<1>7. CASE UNCHANGED <<draft, queuedRev, queuedInc>>
  BY <1>0, <1>7
<1> QED
  BY <1>1, <1>2, <1>3, <1>4, <1>5, <1>6, <1>7, FinishTakesRevision, ReconTakesRevision DEF Next

LEMMA RevisionsHold == Spec => [](IInv /\ Revisions)
<1>1. Init => Revisions
  BY DEF Init, Revisions
<1>2. IInv /\ Revisions /\ [Next]_vars => Revisions'
  <2> SUFFICES ASSUME IInv, Revisions, [Next]_vars PROVE Revisions'
    OBVIOUS
  <2>1. ASSUME NEW m \in Mail, Compose(m) PROVE Revisions'
    BY <2>1 DEF Compose, Revisions, IInv, TypeOK
  <2>2. CASE DraftGrows
    <3>1. draft'.inc \in Nat
      BY NextKeepsIInv DEF IInv, TypeOK
    <3> QED
      BY <2>2, <3>1 DEF DraftGrows, Revisions, IInv, TypeOK
  <2> QED
    BY <2>1, <2>2, StepTakesRevision
<1> QED
  BY <1>1, <1>2, IInvHolds, PTL DEF Spec

\* A send takes away the draft only in the revision that was queued, with a
\* message that is sent, and never one of an earlier creation.
THEOREM OutboxRemovesOnlySentRevision == Spec => OnlySentRevisionRemoved
<1>1. IInv /\ Revisions /\ [Next]_vars =>
        [SendRemoves => \E m \in WithDraft :
           /\ status'[m] = "sent"
           /\ queuedRev[m] = draft.rev
           /\ queuedInc[m] <= draft.inc]_vars
  <2> SUFFICES ASSUME IInv, Revisions, [Next]_vars, SendRemoves
               PROVE  \E m \in WithDraft :
                 status'[m] = "sent" /\ queuedRev[m] = draft.rev /\ queuedInc[m] <= draft.inc
    OBVIOUS
  <2>1. DraftLost /\ ~DeleteDraft
    BY DEF SendRemoves, DraftLost
  <2>2. ~\E m \in Mail : Compose(m)
    BY <2>1 DEF Compose, DraftLost
  <2>3. PICK m \in Mail : SentTakesDraft(m)
    BY <2>1, <2>2, StepTakesRevision
  <2> QED
    BY <2>1, <2>3 DEF SentTakesDraft, Revisions
<1> QED
  BY <1>1, RevisionsHold, PTL DEF Spec, OnlySentRevisionRemoved

\* How a step may treat the draft: composing reads it, its author saves it, and
\* all others leave it as it is or take it away.
LEMMA StepTreatsDraft ==
  ASSUME [Next]_vars
  PROVE  \/ \E m \in Mail : Compose(m)
         \/ SaveDraft
         \/ /\ draft' \in {draft, [draft EXCEPT !.live = FALSE]}
            /\ UNCHANGED <<queuedRev, queuedInc>>
<1>1. CASE UNCHANGED vars
  BY <1>1 DEF vars
<1>2. ASSUME NEW m \in Mail, Queue(m) \/ Cancel(m) \/ Sweep(m) \/ Clock(m)
      PROVE  Compose(m) \/ UNCHANGED <<draft, queuedRev, queuedInc>>
  BY <1>2 DEF Queue, Lookup, StorePut, Insert, Discard, Reread, Cancel, CancelArm, CancelWrite,
              CancelTidy, Sweep, SweepPick, SweepDelete, SweepMark, Clock, BecomeDue, BecomeAged
<1>3. ASSUME NEW w \in Worker, Deliver(w) \/ WorkCrash(w) \/ \E m \in Mail : Claim(w, m)
      PROVE  /\ draft' \in {draft, [draft EXCEPT !.live = FALSE]}
             /\ UNCHANGED <<queuedRev, queuedInc>>
  BY <1>3 DEF Deliver, CheckActive, LoadSnapshot, Prepare, Import, NoteImport, Send, Finish,
              FinishClaim, NotHeld, RemoveDraft, FileAndNote, WorkTidy, WorkCrash, Claim
<1>4. ASSUME NEW c \in Reconciler, Reconcile(c) \/ ReconAbort(c) \/ \E m \in Mail : ReconBegin(c, m)
      PROVE  /\ draft' \in {draft, [draft EXCEPT !.live = FALSE]}
             /\ UNCHANGED <<queuedRev, queuedInc>>
  BY <1>4 DEF Reconcile, FindMail, FindProof, ReconWrite, ReconDraft, RemoveDraft, ReconTidy,
              ReconAbort, ReconBegin
<1>5. CASE DeleteDraft \/ ToggleAccount
  BY <1>5 DEF DeleteDraft, ToggleAccount
<1> QED
  BY <1>1, <1>2, <1>3, <1>4, <1>5 DEF Next

\* A draft that is there was created, and so was the one a Queue call recorded.
Born ==
  /\ draft.inc <= MaxInc /\ (draft.live => draft.inc > 0)
  /\ \A m \in Mail : queuedRev[m] # 0 => queuedInc[m] > 0

LEMMA BornHolds == Spec => [](IInv /\ Revisions /\ Born)
<1>1. Init => Born
  BY DEF Init, Born
<1>2. IInv /\ Born /\ [Next]_vars => Born'
  <2> SUFFICES ASSUME IInv, Born, [Next]_vars PROVE Born'
    OBVIOUS
  <2> USE DEF Born, IInv, TypeOK
  <2>1. ASSUME NEW m \in Mail, Compose(m) PROVE Born'
    BY <2>1 DEF Compose
  <2>2. CASE SaveDraft
    BY <2>2 DEF SaveDraft
  <2>3. CASE /\ draft' \in {draft, [draft EXCEPT !.live = FALSE]}
             /\ UNCHANGED <<queuedRev, queuedInc>>
    <3>1. draft'.inc = draft.inc /\ (draft'.live => draft.live)
      BY <2>3
    <3> QED
      BY <2>3, <3>1
  <2> QED
    BY <2>1, <2>2, <2>3, StepTreatsDraft
<1> QED
  BY <1>1, <1>2, RevisionsHold, PTL DEF Spec

\* "Later edits always survive" is true of a draft that is created once: what a
\* send may wrongly take away is a draft created again after the message was queued.
THEOREM OutboxSparesLaterEdits ==
  ASSUME MaxInc <= 1
  PROVE  Spec => LaterEditsSurvive
<1>1. IInv /\ Revisions /\ Born /\ [Next]_vars =>
        [SendRemoves => \E m \in WithDraft :
           /\ status'[m] = "sent"
           /\ queuedRev[m] = draft.rev
           /\ queuedInc[m] = draft.inc]_vars
  <2> SUFFICES ASSUME IInv, Revisions, Born, [Next]_vars, SendRemoves
               PROVE  \E m \in WithDraft :
                 /\ status'[m] = "sent"
                 /\ queuedRev[m] = draft.rev
                 /\ queuedInc[m] = draft.inc
    OBVIOUS
  <2>1. DraftLost /\ ~DeleteDraft
    BY DEF SendRemoves, DraftLost
  <2>2. ~\E m \in Mail : Compose(m)
    BY <2>1 DEF Compose, DraftLost
  <2>3. PICK m \in Mail : SentTakesDraft(m)
    BY <2>1, <2>2, StepTakesRevision
  <2>4. queuedInc[m] = draft.inc
    <3>1. queuedInc[m] \in Nat /\ draft.inc \in Nat
      BY DEF IInv, TypeOK
    <3>2. queuedInc[m] > 0
      BY <2>1, <2>3 DEF SentTakesDraft, Born
    <3>3. queuedInc[m] <= draft.inc /\ draft.inc <= MaxInc
      BY DEF Revisions, Born
    <3> QED
      BY <3>1, <3>2, <3>3
  <2> QED
    BY <2>1, <2>3, <2>4 DEF SentTakesDraft, Revisions
<1> QED
  BY <1>1, BornHolds, PTL DEF Spec, LaterEditsSurvive

------------------------------------------------------------------------------
\* What AcceptedIsConfirmed needs at every moment: a message the server accepted is
\* in a status the reconciler looks at, or "sent", and its evidence is in the mailbox.
Confirmable ==
  \A m \in Mail : submissions[m] > 0 => status[m] \in Pending \union {"sent"} /\ m \in imported

Imported ==
  /\ \A m \in Mail : submissions[m] > 0 => m \in imported
  /\ \A w \in Worker : wpc[w] \in {"note", "send"} => wjob[w] \in imported

\* Everybody but the workers leaves the mail server alone.
LEMMA OthersKeepImported ==
  ASSUME Imported, UNCHANGED <<serverVars, workerVars>> PROVE Imported'
BY DEF Imported

\* A message is submitted only after its import was confirmed.
LEMMA DeliverKeepsImported ==
  ASSUME IInv, Imported, NEW w \in Worker, Deliver(w) \/ WorkCrash(w) PROVE Imported'
<1> USE DEF Imported, IInv, TypeOK
<1>1. CASE Import(w)
  BY <1>1 DEF Import, WorkGoto
<1>2. CASE Send(w)
  <2>1. wjob[w] \in Mail /\ wjob[w] \in imported
    BY <1>2 DEF Send, Claims
  <2>2. \A m \in Mail \ {wjob[w]} : submissions'[m] = submissions[m]
    BY <1>2 DEF Send
  <2>3. UNCHANGED imported /\ wpc' \in {[wpc EXCEPT ![w] = "file"], [wpc EXCEPT ![w] = "doubt"]}
        /\ UNCHANGED wjob
    BY <1>2 DEF Send, WorkGoto
  <2> QED
    BY <2>1, <2>2, <2>3
<1>3. CASE NoteImport(w)
  BY <1>3 DEF NoteImport, WorkGoto
<1>4. CASE CheckActive(w) \/ LoadSnapshot(w) \/ Prepare(w) \/ FileAndNote(w) \/ Finish(w)
           \/ WorkTidy(w) \/ WorkCrash(w)
  <2>1. UNCHANGED serverVars
    BY <1>4 DEF CheckActive, LoadSnapshot, Prepare, FileAndNote, Finish, WorkTidy, WorkCrash
  <2>2. \A v \in Worker : wpc'[v] \in {"note", "send"} => wpc'[v] = wpc[v] /\ wjob'[v] = wjob[v]
    BY <1>4 DEF CheckActive, LoadSnapshot, Prepare, FileAndNote, Finish, WorkTidy, WorkCrash,
                WorkGoto, WorkIdle
  <2> QED
    BY <2>1, <2>2
<1> QED
  BY <1>1, <1>2, <1>3, <1>4 DEF Deliver

LEMMA ImportedHolds == Spec => [](IInv /\ Imported)
<1>1. Init => Imported
  BY DEF Init, Imported
<1>2. IInv /\ Imported /\ [Next]_vars => Imported'
  <2> SUFFICES ASSUME IInv, Imported, [Next]_vars PROVE Imported'
    OBVIOUS
  <2>1. CASE UNCHANGED vars
    BY <2>1, OthersKeepImported DEF vars
  <2>2. ASSUME NEW m \in Mail, Queue(m) \/ Cancel(m) \/ Sweep(m) \/ Clock(m) PROVE Imported'
    BY <2>2, OthersKeepImported
       DEF Queue, Lookup, Compose, StorePut, Insert, Discard, Reread, Cancel, CancelArm,
           CancelWrite, CancelTidy, Sweep, SweepPick, SweepDelete, SweepMark, Clock, BecomeDue,
           BecomeAged
  <2>3. ASSUME NEW w \in Worker, NEW m \in Mail, Claim(w, m) PROVE Imported'
    BY <2>3 DEF Claim, Imported, IInv, TypeOK
  <2>4. ASSUME NEW c \in Reconciler,
               Reconcile(c) \/ ReconAbort(c) \/ \E m \in Mail : ReconBegin(c, m)
        PROVE  Imported'
    BY <2>4, OthersKeepImported
       DEF Reconcile, FindMail, FindProof, ReconWrite, ReconDraft, ReconTidy, ReconAbort, ReconBegin
  <2>5. CASE SaveDraft \/ DeleteDraft \/ ToggleAccount
    BY <2>5, OthersKeepImported DEF SaveDraft, DeleteDraft, ToggleAccount
  <2> QED
    BY <2>1, <2>2, <2>3, <2>4, <2>5, DeliverKeepsImported DEF Next
<1> QED
  BY <1>1, <1>2, IInvHolds, PTL DEF Spec

\* No crash, lost answer or race leaves an accepted message where no reconciliation
\* would find it.
THEOREM OutboxCanConfirm == Spec => []Confirmable
<1>1. IInv /\ Imported => Confirmable
  BY DEF IInv, TypeOK, Accepted, StatusTellsTruth, Imported, Confirmable
<1> QED
  BY <1>1, ImportedHolds, PTL

------------------------------------------------------------------------------
(* MailOutbox implements MailPromise.  Six of the outbox's actions move a  *)
(* message on its way, every other one is a stutter of the promise.        *)

USE DEF Promise!Accept, Promise!Withdraw, Promise!Commit, Promise!Deliver, Promise!Confirm,
        Promise!Refuse

\* The promise does not see a step that leaves statuses and acceptances alone.
Stutter == UNCHANGED <<status, submissions>>
Keeps == [Promise!PromiseNext]_(Promise!promiseVars)

LEMMA StutterKeeps == Stutter => Keeps
BY DEF Stutter, Keeps, Promise!promiseVars

LEMMA StageValues ==
  /\ StageOf["none"] = "absent" /\ StageOf["queued"] = "queued"
  /\ StageOf["cancelled"] = "withdrawn" /\ StageOf["blocked"] = "refused"
  /\ StageOf["dispatching"] = "committed" /\ StageOf["uncertain"] = "committed"
  /\ StageOf["sent"] = "confirmed"
BY DEF StageOf

\* Writing one status advances one stage.
LEMMA StatusAdvances ==
  ASSUME TypeOK, NEW m \in Mail, NEW s \in Status, status' = [status EXCEPT ![m] = s]
  PROVE  Promise!Advance(m, StageOf[status[m]], StageOf[s])
BY DEF TypeOK, Promise!Advance

\* Writing a status of the same stage advances none.
LEMMA StatusStays ==
  ASSUME TypeOK, NEW m \in Mail, NEW s \in Status, status' = [status EXCEPT ![m] = s],
         StageOf[s] = StageOf[status[m]], UNCHANGED submissions
  PROVE  Keeps
BY DEF TypeOK, Keeps, Promise!promiseVars

LEMMA InsertKeeps == ASSUME IInv, NEW m \in Mail, Insert(m) PROVE Keeps
<1>1. CASE status' = [status EXCEPT ![m] = "queued"] /\ UNCHANGED submissions
  <2>1. status[m] = "none"
    BY DEF IInv, Snapshots, Insert, CallStep
  <2>2. Promise!Advance(m, StageOf["none"], StageOf["queued"])
    BY <1>1, <2>1, StatusAdvances DEF IInv, Status
  <2>3. Promise!Accept(m)
    BY <1>1, <2>2, StageValues
  <2> QED
    BY <2>3 DEF Keeps, Promise!PromiseNext
<1>2. CASE Stutter
  BY <1>2, StutterKeeps
<1> QED
  BY <1>1, <1>2 DEF Insert, Stutter, serverVars

LEMMA CancelKeeps == ASSUME IInv, NEW m \in Mail, CancelWrite(m) PROVE Keeps
<1>1. CASE status[m] = "queued" /\ status' = [status EXCEPT ![m] = "cancelled"]
  <2>1. Promise!Advance(m, StageOf["queued"], StageOf["cancelled"])
    BY <1>1, StatusAdvances DEF IInv, Status
  <2>2. Promise!Withdraw(m)
    BY <2>1, StageValues DEF CancelWrite, serverVars
  <2> QED
    BY <2>2 DEF Keeps, Promise!PromiseNext
<1>2. CASE Stutter
  BY <1>2, StutterKeeps
<1> QED
  BY <1>1, <1>2 DEF CancelWrite, Cancellable, Stutter, serverVars

LEMMA ClaimKeeps == ASSUME IInv, NEW w \in Worker, NEW m \in Mail, Claim(w, m) PROVE Keeps
<1>1. Promise!Advance(m, StageOf["queued"], StageOf["dispatching"])
  BY StatusAdvances DEF IInv, Status, Claim, Claimable
<1>2. Promise!Commit(m)
  BY <1>1, StageValues DEF Claim, serverVars
<1> QED
  BY <1>2 DEF Keeps, Promise!PromiseNext

LEMMA SendKeeps == ASSUME IInv, NEW w \in Worker, Send(w) PROVE Keeps
<1>1. wjob[w] \in Mail /\ status[wjob[w]] \in Pending /\ submissions[wjob[w]] = 0
  BY DEF IInv, TypeOK, Claims, Send, BeforeSend
<1>2. CASE submissions' = [submissions EXCEPT ![wjob[w]] = submissions[wjob[w]] + 1]
  <2>1. submissions' = [submissions EXCEPT ![wjob[w]] = 1]
    BY <1>1, <1>2 DEF IInv, TypeOK
  <2>2. StageOf[status[wjob[w]]] = "committed" /\ UNCHANGED status
    BY <1>1, StageValues DEF Pending, Send, rowVars
  <2>3. Promise!Deliver(wjob[w])
    BY <1>1, <2>1, <2>2
  <2> QED
    BY <1>1, <2>3 DEF Keeps, Promise!PromiseNext
<1>3. CASE Stutter
  BY <1>3, StutterKeeps
<1> QED
  BY <1>2, <1>3 DEF Send, Stutter, rowVars

LEMMA FinishKeeps == ASSUME IInv, NEW w \in Worker, Finish(w) PROVE Keeps
<1>1. wjob[w] \in Mail
  BY DEF IInv, TypeOK, Claims, Finish
<1>2. UNCHANGED submissions
  BY DEF Finish, serverVars
<1>3. CASE wpc[w] = "conclude" /\ FinishClaim(wjob[w], "sent")
  <2>1. submissions[wjob[w]] = 1
    BY <1>3 DEF IInv, Claims
  <2>2. Promise!Advance(wjob[w], StageOf["dispatching"], StageOf["sent"])
    BY <1>1, <1>3, StatusAdvances DEF IInv, Status, FinishClaim
  <2>3. Promise!Confirm(wjob[w])
    BY <1>2, <2>1, <2>2, StageValues
  <2> QED
    BY <1>1, <2>3 DEF Keeps, Promise!PromiseNext
<1>4. CASE wpc[w] = "refuse" /\ FinishClaim(wjob[w], "blocked")
  <2>1. submissions[wjob[w]] = 0
    BY <1>4 DEF IInv, Claims
  <2>2. Promise!Advance(wjob[w], StageOf["dispatching"], StageOf["blocked"])
    BY <1>1, <1>4, StatusAdvances DEF IInv, Status, FinishClaim
  <2>3. Promise!Refuse(wjob[w])
    BY <1>2, <2>1, <2>2, StageValues
  <2> QED
    BY <1>1, <2>3 DEF Keeps, Promise!PromiseNext
<1>5. CASE FinishClaim(wjob[w], "uncertain")
  BY <1>1, <1>2, <1>5, StatusStays, StageValues DEF IInv, Status, FinishClaim
<1>6. CASE Stutter
  BY <1>6, StutterKeeps
<1> QED
  BY <1>2, <1>3, <1>4, <1>5, <1>6 DEF Finish, NotHeld, Stutter

LEMMA ReconWriteKeeps == ASSUME IInv, NEW c \in Reconciler, ReconWrite(c) PROVE Keeps
<1>1. rjob[c] \in Mail
  BY DEF IInv, TypeOK, Proven, ReconWrite
<1>2. UNCHANGED submissions
  BY DEF ReconWrite, serverVars
<1>3. CASE rproof[c] /\ status[rjob[c]] \in Pending /\ status' = [status EXCEPT ![rjob[c]] = "sent"]
  <2>1. submissions[rjob[c]] = 1
    BY <1>3 DEF IInv, Proven
  <2>2. Promise!Advance(rjob[c], StageOf[status[rjob[c]]], StageOf["sent"])
    BY <1>1, <1>3, StatusAdvances DEF IInv, Status
  <2>3. Promise!Confirm(rjob[c])
    BY <1>2, <1>3, <2>1, <2>2, StageValues DEF Pending
  <2> QED
    BY <1>1, <2>3 DEF Keeps, Promise!PromiseNext
<1>4. CASE status[rjob[c]] \in Pending /\ status' = [status EXCEPT ![rjob[c]] = "uncertain"]
  BY <1>1, <1>2, <1>4, StatusStays, StageValues DEF IInv, Status, Pending
<1>5. CASE Stutter
  BY <1>5, StutterKeeps
<1> QED
  BY <1>2, <1>3, <1>4, <1>5 DEF ReconWrite, Stutter

LEMMA StepKeeps == IInv /\ [Next]_vars => Keeps
<1> SUFFICES ASSUME IInv, [Next]_vars PROVE Keeps
  OBVIOUS
<1> USE DEF rowVars, serverVars
<1>1. CASE UNCHANGED vars
  BY <1>1, StutterKeeps DEF vars, Stutter
<1>2. ASSUME NEW m \in Mail, Queue(m) \/ Cancel(m) \/ Sweep(m) \/ Clock(m) PROVE Keeps
  <2>1. Insert(m) \/ CancelWrite(m) \/ Stutter
    BY <1>2 DEF Queue, Lookup, Compose, StorePut, Discard, Reread, Cancel, CancelArm,
                CancelTidy, Sweep, SweepPick, SweepDelete, SweepMark, Clock, BecomeDue,
                BecomeAged, Stutter
  <2> QED
    BY <2>1, InsertKeeps, CancelKeeps, StutterKeeps
<1>3. ASSUME NEW w \in Worker, Deliver(w) \/ WorkCrash(w) PROVE Keeps
  <2>1. Send(w) \/ Finish(w) \/ Stutter
    BY <1>3 DEF Deliver, CheckActive, LoadSnapshot, Prepare, Import, NoteImport, FileAndNote,
                WorkTidy, WorkCrash, Stutter
  <2> QED
    BY <2>1, SendKeeps, FinishKeeps, StutterKeeps
<1>4. ASSUME NEW c \in Reconciler, NEW m \in Mail, ReconBegin(c, m) PROVE Keeps
  BY <1>4, StutterKeeps DEF ReconBegin, Stutter
<1>5. ASSUME NEW c \in Reconciler, Reconcile(c) \/ ReconAbort(c) PROVE Keeps
  <2>1. ReconWrite(c) \/ Stutter
    BY <1>5 DEF Reconcile, FindMail, FindProof, ReconDraft, ReconTidy, ReconAbort, Stutter
  <2> QED
    BY <2>1, ReconWriteKeeps, StutterKeeps
<1>6. CASE SaveDraft \/ DeleteDraft \/ ToggleAccount
  BY <1>6, StutterKeeps DEF SaveDraft, DeleteDraft, ToggleAccount, Stutter
<1> QED
  BY <1>1, <1>2, <1>3, <1>4, <1>5, <1>6, ClaimKeeps DEF Next

\* Every run of the outbox, seen through status and acceptances, is one of MailPromise.
THEOREM OutboxKeepsPromise == Spec => KeepsPromise
<1>1. Init => Promise!PromiseInit
  BY DEF Init, Promise!PromiseInit, StageOf
<1>2. IInv /\ [Next]_vars => [Promise!PromiseNext]_(Promise!promiseVars)
  BY StepKeeps DEF Keeps
<1> QED
  BY <1>1, <1>2, IInvHolds, PTL DEF Spec, KeepsPromise, Promise!PromiseSpec
==============================================================================
