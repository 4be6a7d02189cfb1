---------------------------- MODULE MusicCleanup ----------------------------
(***************************************************************************)
(* The durable deletion queue of internal/storage: DeleteMusicObjects      *)
(* records the deletions that fail, and the worker of every server process *)
(* claims due rows under a lease with one token for the batch, deletes     *)
(* their objects one after the other and settles each row under its token. *)
(* Deletions fail, with and without effect, leases run out under a worker  *)
(* that still works, and processes die anywhere.                           *)
(***************************************************************************)
EXTENDS Naturals, FiniteSets

CONSTANTS
  Key,         \* object keys, each written at most once
  Worker,      \* server processes, each with one cleanup worker
  Token,       \* lease tokens
  NoToken,     \* the empty lease_token
  Batch,       \* musicCleanupBatchSize
  MaxCall      \* bound on the DeleteMusicObjects calls per key

ASSUME CleanupAssumption ==
  /\ NoToken \notin Token
  /\ Batch \in Nat \ {0}
  /\ MaxCall \in Nat

VARIABLES
  object,      \* the bucket
  written,     \* history: keys that were ever written
  calls, unrecorded, \* per key: calls made, and those that failed and have yet to enqueue
  queued, token, leased, due, \* the rows: lease_token, lease_until > now, next_attempt_at <= now
  wpc, wtoken, \* each worker, and the token of its claim
  wleft, wjob  \* the jobs of its batch it has not come to, and the one it is at

rowVars == <<queued, token, leased, due>>
workVars == <<wpc, wtoken, wleft, wjob>>
callVars == <<written, calls, unrecorded>>
vars == <<object, callVars, rowVars, workVars>>

TypeOK ==
  /\ object \subseteq written /\ written \subseteq Key
  /\ calls \in [Key -> Nat] /\ unrecorded \in [Key -> Nat]
  /\ queued \subseteq Key
  /\ token \in [Key -> Token \union {NoToken}]
  /\ leased \in [Key -> BOOLEAN] /\ due \in [Key -> BOOLEAN]
  /\ \A k \in Key : leased[k] => k \in queued /\ token[k] # NoToken
  /\ wpc \in [Worker -> {"idle", "batch", "deleted", "failed"}]
  /\ wtoken \in [Worker -> Token \union {NoToken}]
  /\ wleft \in [Worker -> SUBSET Key]
  /\ wjob \in [Worker -> SUBSET Key] /\ \A w \in Worker : \A j, k \in wjob[w] : j = k

Init ==
  /\ object = {} /\ written = {}
  /\ calls = [k \in Key |-> 0] /\ unrecorded = [k \in Key |-> 0]
  /\ queued = {} /\ token = [k \in Key |-> NoToken]
  /\ leased = [k \in Key |-> FALSE] /\ due = [k \in Key |-> FALSE]
  /\ wpc = [w \in Worker |-> "idle"] /\ wtoken = [w \in Worker |-> NoToken]
  /\ wleft = [w \in Worker |-> {}] /\ wjob = [w \in Worker |-> {}]

------------------------------------------------------------------------------
(* The callers: promotion writes an object, failures and switches discard it. *)

\* Every destination key carries a fresh uuid.
Promotable(k) == k \notin written

Promote(k) ==
  /\ Promotable(k)
  /\ written' = written \union {k} /\ object' = object \union {k}
  /\ UNCHANGED <<calls, unrecorded, rowVars, workVars>>

\* DeleteMusicObjects: the deletion works, fails, or works and seems to fail.
Discard(k) ==
  /\ k \in written /\ calls[k] < MaxCall
  /\ calls' = [calls EXCEPT ![k] = @ + 1]
  /\ \/ object' = object \ {k} /\ UNCHANGED unrecorded
     \/ /\ object' \in {object, object \ {k}}
        /\ unrecorded' = [unrecorded EXCEPT ![k] = @ + 1]
  /\ UNCHANGED <<written, rowVars, workVars>>

\* enqueueFailedMusicObjectDeletion: an existing row is left as it is.
Enqueue(k) ==
  /\ unrecorded[k] > 0
  /\ unrecorded' = [unrecorded EXCEPT ![k] = @ - 1]
  /\ queued' = queued \union {k}
  /\ due' = [due EXCEPT ![k] = k \in queued => @]
  /\ UNCHANGED <<object, written, calls, token, leased, workVars>>

\* The failure cannot be recorded either, or the process dies first: only the log knows.
LoseFailure(k) ==
  /\ unrecorded[k] > 0
  /\ unrecorded' = [unrecorded EXCEPT ![k] = @ - 1]
  /\ UNCHANGED <<object, written, calls, rowVars, workVars>>

------------------------------------------------------------------------------
(* RunMusicObjectCleanupOnce *)

\* Fault: a lease never runs out.
ClaimableUnleased(k) == k \in queued /\ due[k] /\ token[k] = NoToken
Claimable(k) == k \in queued /\ due[k] /\ ~leased[k]

Fresh(t) == (\A k \in Key : token[k] # t) /\ (\A w \in Worker : wtoken[w] # t)

\* SKIP LOCKED may leave out rows another transaction is just writing.
Claim(w) ==
  /\ wpc[w] = "idle"
  /\ \E S \in SUBSET {k \in Key : Claimable(k)}, t \in Token :
       /\ S # {} /\ Cardinality(S) <= Batch
       /\ Fresh(t)
       /\ token' = [k \in Key |-> IF k \in S THEN t ELSE token[k]]
       /\ leased' = [k \in Key |-> k \in S \/ leased[k]]
       /\ wtoken' = [wtoken EXCEPT ![w] = t]
       /\ wleft' = [wleft EXCEPT ![w] = S]
  /\ wpc' = [wpc EXCEPT ![w] = "batch"]
  /\ UNCHANGED <<object, callVars, queued, due, wjob>>

\* The next job of the batch: its object is deleted, or the store reports a failure.
Attempt(w, k) ==
  /\ wpc[w] = "batch" /\ k \in wleft[w]
  /\ \/ wpc' = [wpc EXCEPT ![w] = "deleted"] /\ object' = object \ {k}
     \/ wpc' = [wpc EXCEPT ![w] = "failed"] /\ object' \in {object, object \ {k}}
  /\ wleft' = [wleft EXCEPT ![w] = @ \ {k}]
  /\ wjob' = [wjob EXCEPT ![w] = {k}]
  /\ UNCHANGED <<callVars, rowVars, wtoken>>

NextJob(w) ==
  /\ wpc' = [wpc EXCEPT ![w] = IF wleft[w] = {} THEN "idle" ELSE "batch"]
  /\ wtoken' = [wtoken EXCEPT ![w] = IF wleft[w] = {} THEN NoToken ELSE @]
  /\ wjob' = [wjob EXCEPT ![w] = {}]
  /\ UNCHANGED <<object, callVars, wleft>>

Held(w) == {k \in wjob[w] \intersect queued : token[k] = wtoken[w]}

\* Fault: the row goes when its attempt is over, whatever came of it.
RemovedAlways(w) == Held(w)
Removed(w) == IF wpc[w] = "deleted" THEN Held(w) ELSE {}

StillLeased(w, k) == leased[k] /\ k \notin Held(w)

\* Delete the row of a deleted object, or free that of a failed one until its next
\* attempt; either writes only under the worker's own token.
Settle(w) ==
  /\ wpc[w] \in {"deleted", "failed"}
  /\ queued' = queued \ Removed(w)
  /\ token' = [k \in Key |-> IF k \in Held(w) THEN NoToken ELSE token[k]]
  /\ leased' = [k \in Key |-> StillLeased(w, k)]
  /\ due' = [k \in Key |-> k \notin Held(w) /\ due[k]]
  /\ NextJob(w)

\* The row cannot be written: it keeps its lease.
SettleFails(w) ==
  /\ wpc[w] \in {"deleted", "failed"}
  /\ NextJob(w)
  /\ UNCHANGED rowVars

Crash(w) ==
  /\ wpc[w] # "idle"
  /\ wpc' = [wpc EXCEPT ![w] = "idle"] /\ wtoken' = [wtoken EXCEPT ![w] = NoToken]
  /\ wleft' = [wleft EXCEPT ![w] = {}] /\ wjob' = [wjob EXCEPT ![w] = {}]
  /\ UNCHANGED <<object, callVars, rowVars>>

------------------------------------------------------------------------------
(* The clock *)

BecomeDue(k) ==
  /\ k \in queued /\ ~due[k]
  /\ due' = [due EXCEPT ![k] = TRUE]
  /\ UNCHANGED <<object, callVars, queued, token, leased, workVars>>

Expire(k) ==
  /\ leased[k]
  /\ leased' = [leased EXCEPT ![k] = FALSE]
  /\ UNCHANGED <<object, callVars, queued, token, due, workVars>>

------------------------------------------------------------------------------
Next ==
  \/ \E k \in Key :
       Promote(k) \/ Discard(k) \/ Enqueue(k) \/ LoseFailure(k) \/ BecomeDue(k) \/ Expire(k)
  \/ \E w \in Worker :
       \/ Claim(w) \/ Settle(w) \/ SettleFails(w) \/ Crash(w)
       \/ \E k \in Key : Attempt(w, k)

Spec == Init /\ [][Next]_vars

\* The worker loop ticks every 30 s and time passes; a store that is asked again and
\* again deletes at last; and the three minutes cannot always run out under a batch
\* of eight deletions of at most 15 s each.
FairSpec ==
  /\ Spec
  /\ \A k \in Key : WF_vars(BecomeDue(k)) /\ WF_vars(Expire(k))
  /\ \A w \in Worker : WF_vars(Settle(w) \/ \E k \in Key : Attempt(w, k))
  /\ \A k \in Key :
       /\ SF_vars(\E w \in Worker : Claim(w) /\ k \in wleft'[w])
       /\ SF_vars(\E w \in Worker :
                    token[k] = wtoken[w] /\ Attempt(w, k) /\ wpc'[w] = "deleted")
       /\ SF_vars(\E w \in Worker : k \in Removed(w) /\ Settle(w))

------------------------------------------------------------------------------
(* Properties *)

\* A recorded failure is not forgotten before its object is gone, whatever leases
\* run out, workers die and deletions of the same key fail meanwhile ("a key can
\* represent one idempotent cleanup request", model/music_cleanup_job.go).
Promise == INSTANCE CleanupPromise WITH condemned <- queued
KeepsPromise == Promise!Spec

\* When a worker comes to remove a row, the object is still gone: nobody wrote it
\* again since, not even while the worker's lease ran out ("versioned-object keys
\* are immutable").
DeletedIsGone == \A w \in Worker : wpc[w] = "deleted" => wjob[w] \intersect object = {}

\* Every recorded deletion is carried out and its row leaves the queue.
QueueDrains == \A k \in Key : k \in queued ~> k \notin queued
==============================================================================
