------------------------- MODULE MusicCleanupProofs -------------------------
(***************************************************************************)
(* What TLAPS proves of the music deletion queue for any keys, workers,    *)
(* tokens, batch size and number of calls: its invariants, and that it     *)
(* implements CleanupPromise, on which the modules that discard audio      *)
(* build.                                                                  *)
(***************************************************************************)
EXTENDS MusicCleanup, TLAPS

\* Only keys that were written are queued, claimed or waiting to be recorded; with
\* "each key is written once" this keeps a worker's deleted object deleted.
OnlyWritten ==
  /\ queued \subseteq written
  /\ \A k \in Key : unrecorded[k] # 0 => k \in written
  /\ \A w \in Worker : wleft[w] \subseteq written /\ wjob[w] \subseteq written

IInv == TypeOK /\ OnlyWritten /\ DeletedIsGone

LEMMA InitIInv == Init => IInv
  BY CleanupAssumption DEF Init, IInv, TypeOK, OnlyWritten, DeletedIsGone

\* The callers' steps, and the clock's.
LEMMA CallKeepsIInv ==
  ASSUME NEW k \in Key, IInv,
         Promote(k) \/ Discard(k) \/ Enqueue(k) \/ LoseFailure(k) \/ BecomeDue(k) \/ Expire(k)
  PROVE  IInv'
<1> USE DEF IInv, workVars, rowVars, callVars
<1>1. CASE Promote(k)
  <2>1. TypeOK' BY <1>1 DEF Promote, TypeOK
  <2>2. OnlyWritten' BY <1>1 DEF Promote, OnlyWritten
  <2>3. DeletedIsGone' BY <1>1 DEF Promote, Promotable, OnlyWritten, DeletedIsGone
  <2> QED BY <2>1, <2>2, <2>3
<1>2. CASE Discard(k)
  <2>1. TypeOK' BY <1>2 DEF Discard, TypeOK
  <2>2. OnlyWritten' BY <1>2 DEF Discard, OnlyWritten, TypeOK
  <2>3. DeletedIsGone' BY <1>2 DEF Discard, DeletedIsGone
  <2> QED BY <2>1, <2>2, <2>3
<1>3. CASE Enqueue(k)
  <2>1. TypeOK' BY <1>3 DEF Enqueue, TypeOK
  <2>2. OnlyWritten' BY <1>3 DEF Enqueue, OnlyWritten, TypeOK
  <2>3. DeletedIsGone' BY <1>3 DEF Enqueue, DeletedIsGone
  <2> QED BY <2>1, <2>2, <2>3
<1>4. CASE LoseFailure(k)
  <2>1. TypeOK' BY <1>4 DEF LoseFailure, TypeOK
  <2>2. OnlyWritten' BY <1>4 DEF LoseFailure, OnlyWritten, TypeOK
  <2>3. DeletedIsGone' BY <1>4 DEF LoseFailure, DeletedIsGone
  <2> QED BY <2>1, <2>2, <2>3
<1>5. CASE BecomeDue(k)
  BY <1>5 DEF BecomeDue, TypeOK, OnlyWritten, DeletedIsGone
<1>6. CASE Expire(k)
  BY <1>6 DEF Expire, TypeOK, OnlyWritten, DeletedIsGone
<1> QED BY <1>1, <1>2, <1>3, <1>4, <1>5, <1>6

\* The workers' steps.
LEMMA ClaimKeepsIInv ==
  ASSUME NEW w \in Worker, IInv, Claim(w)
  PROVE  IInv'
<1> USE DEF IInv, callVars
<1>1. PICK S \in SUBSET {k \in Key : Claimable(k)}, t \in Token :
        /\ token' = [k \in Key |-> IF k \in S THEN t ELSE token[k]]
        /\ leased' = [k \in Key |-> k \in S \/ leased[k]]
        /\ wtoken' = [wtoken EXCEPT ![w] = t]
        /\ wleft' = [wleft EXCEPT ![w] = S]
  BY DEF Claim
<1>2. S \subseteq queued /\ S \subseteq Key
  BY <1>1 DEF Claimable
<1>3. TypeOK'
  <2>1. token' \in [Key -> Token \union {NoToken}] /\ leased' \in [Key -> BOOLEAN]
    BY <1>1 DEF TypeOK
  <2>2. \A k \in Key : leased'[k] => k \in queued' /\ token'[k] # NoToken
    BY <1>1, <1>2, CleanupAssumption DEF Claim, TypeOK
  <2> QED BY <1>1, <1>2, <2>1, <2>2 DEF Claim, TypeOK
<1>4. OnlyWritten'
  BY <1>1, <1>2 DEF Claim, OnlyWritten, TypeOK
<1>5. DeletedIsGone'
  BY DEF Claim, DeletedIsGone, TypeOK
<1> QED BY <1>3, <1>4, <1>5

LEMMA AttemptKeepsIInv ==
  ASSUME NEW w \in Worker, NEW k \in Key, IInv, Attempt(w, k)
  PROVE  IInv'
<1> USE DEF IInv, callVars, rowVars
<1>1. TypeOK' BY DEF Attempt, TypeOK
<1>2. OnlyWritten' BY DEF Attempt, OnlyWritten, TypeOK
<1>3. DeletedIsGone'
  <2> SUFFICES ASSUME NEW v \in Worker, wpc'[v] = "deleted"
               PROVE  wjob'[v] \intersect object' = {}
    BY DEF DeletedIsGone
  <2>1. CASE v = w BY <2>1 DEF Attempt, TypeOK
  <2>2. CASE v # w BY <2>2 DEF Attempt, TypeOK, DeletedIsGone
  <2> QED BY <2>1, <2>2
<1> QED BY <1>1, <1>2, <1>3

LEMMA SettleKeepsIInv ==
  ASSUME NEW w \in Worker, IInv, Settle(w) \/ SettleFails(w) \/ Crash(w)
  PROVE  IInv'
<1> USE DEF IInv, callVars, rowVars
<1>1. CASE Settle(w)
  <2>1. Removed(w) \subseteq Held(w) /\ Held(w) \subseteq wjob[w]
    BY DEF Removed, Held
  <2>2. queued' \subseteq Key /\ token' \in [Key -> Token \union {NoToken}]
    BY <1>1 DEF Settle, TypeOK
  <2>3. leased' \in [Key -> BOOLEAN] /\ due' \in [Key -> BOOLEAN]
    BY <1>1 DEF Settle, StillLeased, TypeOK
  <2>4. \A k \in Key : leased'[k] => k \in queued' /\ token'[k] # NoToken
    BY <1>1, <2>1 DEF Settle, StillLeased, TypeOK
  <2>5. TypeOK' BY <1>1, <2>2, <2>3, <2>4 DEF Settle, NextJob, TypeOK
  <2>6. OnlyWritten' BY <1>1 DEF Settle, NextJob, OnlyWritten, TypeOK
  <2>7. DeletedIsGone' BY <1>1 DEF Settle, NextJob, DeletedIsGone, TypeOK
  <2> QED BY <2>5, <2>6, <2>7
<1>2. CASE SettleFails(w)
  <2>1. TypeOK' BY <1>2 DEF SettleFails, NextJob, TypeOK
  <2>2. OnlyWritten' BY <1>2 DEF SettleFails, NextJob, OnlyWritten, TypeOK
  <2>3. DeletedIsGone' BY <1>2 DEF SettleFails, NextJob, DeletedIsGone, TypeOK
  <2> QED BY <2>1, <2>2, <2>3
<1>3. CASE Crash(w)
  <2>1. TypeOK' BY <1>3 DEF Crash, TypeOK
  <2>2. OnlyWritten' BY <1>3 DEF Crash, OnlyWritten, TypeOK
  <2>3. DeletedIsGone' BY <1>3 DEF Crash, DeletedIsGone, TypeOK
  <2> QED BY <2>1, <2>2, <2>3
<1> QED BY <1>1, <1>2, <1>3

LEMMA NextIInv == IInv /\ [Next]_vars => IInv'
<1> SUFFICES ASSUME IInv, [Next]_vars PROVE IInv'
  OBVIOUS
<1>1. CASE \E k \in Key :
             Promote(k) \/ Discard(k) \/ Enqueue(k) \/ LoseFailure(k) \/ BecomeDue(k) \/ Expire(k)
  BY <1>1, CallKeepsIInv
<1>2. CASE \E w \in Worker : Claim(w) BY <1>2, ClaimKeepsIInv
<1>3. CASE \E w \in Worker : Settle(w) \/ SettleFails(w) \/ Crash(w) BY <1>3, SettleKeepsIInv
<1>4. CASE \E w \in Worker, k \in Key : Attempt(w, k) BY <1>4, AttemptKeepsIInv
<1>5. CASE UNCHANGED vars
  BY <1>5 DEF vars, IInv, TypeOK, OnlyWritten, DeletedIsGone, callVars, rowVars, workVars
<1> QED BY <1>1, <1>2, <1>3, <1>4, <1>5 DEF Next

\* The inductive invariant holds.
THEOREM IInvHolds == Spec => []IInv
  BY InitIInv, NextIInv, PTL DEF Spec

\* The variables have the types the queue's tables and workers give them.
THEOREM Typing == Spec => []TypeOK
  BY IInvHolds, PTL DEF IInv

\* A worker that comes to remove a row finds its object gone, however late it is.
THEOREM DeletionsStick == Spec => []DeletedIsGone
  BY IInvHolds, PTL DEF IInv

------------------------------------------------------------------------------
(* The queue implements CleanupPromise *)

LEMMA PromisedInit == Init => Promise!Init
  BY DEF Init, Promise!Init

LEMMA PromisedSettle ==
  ASSUME NEW w \in Worker, IInv, Settle(w)
  PROVE  [Promise!Next]_<<object, queued>>
<1>1. CASE Removed(w) = {}
  BY <1>1 DEF Settle, NextJob
<1>2. CASE Removed(w) # {}
  <2>1. PICK k : k \in Removed(w) BY <1>2
  <2>2. k \in wjob[w] /\ wpc[w] = "deleted" /\ Removed(w) \subseteq wjob[w]
    BY <2>1 DEF Removed, Held
  <2>3. k \in Key /\ Removed(w) = {k}
    BY <2>1, <2>2 DEF IInv, TypeOK
  <2>4. k \notin object
    BY <2>2 DEF IInv, DeletedIsGone
  <2> QED BY <2>3, <2>4 DEF Settle, NextJob, Promise!Next, Promise!Forget
<1> QED BY <1>1, <1>2

LEMMA PromisedStep == IInv /\ [Next]_vars => [Promise!Next]_<<object, queued>>
<1> SUFFICES ASSUME IInv, [Next]_vars PROVE [Promise!Next]_<<object, queued>>
  OBVIOUS
<1> USE DEF rowVars, callVars, workVars
<1>1. ASSUME NEW k \in Key, Promote(k) PROVE Promise!Next
  BY <1>1 DEF Promote, Promotable, IInv, OnlyWritten, Promise!Next, Promise!Write
<1>2. ASSUME NEW k \in Key, Discard(k) PROVE [Promise!Next]_<<object, queued>>
  BY <1>2 DEF Discard, Promise!Next, Promise!Delete
<1>3. ASSUME NEW k \in Key, Enqueue(k) PROVE Promise!Next
  BY <1>3 DEF Enqueue, Promise!Next, Promise!Condemn
<1>4. ASSUME NEW k \in Key, LoseFailure(k) \/ BecomeDue(k) \/ Expire(k)
      PROVE  UNCHANGED <<object, queued>>
  BY <1>4 DEF LoseFailure, BecomeDue, Expire
<1>5. ASSUME NEW w \in Worker, Claim(w) \/ SettleFails(w) \/ Crash(w)
      PROVE  UNCHANGED <<object, queued>>
  BY <1>5 DEF Claim, SettleFails, NextJob, Crash
<1>6. ASSUME NEW w \in Worker, NEW k \in Key, Attempt(w, k)
      PROVE  [Promise!Next]_<<object, queued>>
  BY <1>6 DEF Attempt, Promise!Next, Promise!Delete
<1>7. CASE UNCHANGED vars BY <1>7 DEF vars
<1> QED BY <1>1, <1>2, <1>3, <1>4, <1>5, <1>6, <1>7, PromisedSettle DEF Next

\* A recorded failure is not forgotten before its object is gone, and no object is
\* written under a key whose deletion is owed: DeleteMusicObjects and the worker
\* together implement CleanupPromise.
THEOREM PromiseKept == Spec => KeepsPromise
<1> QED BY IInvHolds, PromisedInit, PromisedStep, PTL DEF Spec, KeepsPromise, Promise!Spec
==============================================================================
