---------------------------- MODULE IndexNowQueue ----------------------------
(***************************************************************************)
(* The durable IndexNow queue of internal/platform/indexnow.  Publishers   *)
(* upsert a row per changed URL, each upsert raising the row's revision.   *)
(* The worker of every server process claims due rows under a lease with a *)
(* fresh token, submits the URLs, then acknowledges in one transaction: a  *)
(* row is deleted only under the claimed token and revision.  Leases may   *)
(* run out under a worker that still works, and workers may die anywhere.  *)
(***************************************************************************)
EXTENDS Naturals, FiniteSets

CONSTANTS
  URL,         \* the site's URLs
  Worker,      \* server processes, each with one IndexNow worker
  Token,       \* lease tokens; a claim takes one nobody holds, as a UUID would be
  NoToken,     \* the empty lease_token
  Batch,       \* indexNowDurableBatchSize
  MaxChange    \* bound on the changes published per URL

ASSUME QueueAssumption ==
  /\ NoToken \notin Token
  /\ Batch \in Nat \ {0}
  /\ MaxChange \in Nat

VARIABLES
  queued,      \* the URLs with a row
  revision, token, \* columns of the row, at rest while there is no row
  leased,      \* lease_until > now
  due,         \* next_attempt_at <= now
  wpc,         \* each worker: idle, claimed, accepted, failed
  wtoken,      \* the token of its claim
  wrev,        \* the revision it claimed of each URL, 0 outside its batch
  published,   \* history: how many changes of each URL were enqueued
  covered      \* history: how many of them the engine was told about

rowVars == <<queued, revision, token, leased, due>>
workVars == <<wpc, wtoken, wrev>>
vars == <<rowVars, workVars, published, covered>>

InBatch(w) == {u \in URL : wrev[w][u] > 0}
Held(w, u) == u \in queued /\ token[u] = wtoken[w]

TypeOK ==
  /\ queued \subseteq URL
  /\ revision \in [URL -> Nat] /\ \A u \in queued : revision[u] > 0
  /\ token \in [URL -> Token \union {NoToken}]
  /\ leased \in [URL -> BOOLEAN] /\ due \in [URL -> BOOLEAN]
  /\ wpc \in [Worker -> {"idle", "claimed", "accepted", "failed"}]
  /\ wtoken \in [Worker -> Token \union {NoToken}]
  /\ wrev \in [Worker -> [URL -> Nat]]
  /\ published \in [URL -> Nat] /\ covered \in [URL -> Nat]

Init ==
  /\ queued = {}
  /\ revision = [u \in URL |-> 0]
  /\ token = [u \in URL |-> NoToken]
  /\ leased = [u \in URL |-> FALSE] /\ due = [u \in URL |-> FALSE]
  /\ wpc = [w \in Worker |-> "idle"]
  /\ wtoken = [w \in Worker |-> NoToken]
  /\ wrev = [w \in Worker |-> [u \in URL |-> 0]]
  /\ published = [u \in URL |-> 0] /\ covered = [u \in URL |-> 0]

------------------------------------------------------------------------------
(* Publishers *)

NextRevision(u) == IF u \in queued THEN revision[u] + 1 ELSE 1

\* enqueueDurable: a running delivery keeps its lease on the row it re-enqueues.
Enqueue(u) ==
  /\ published[u] < MaxChange
  /\ queued' = queued \union {u}
  /\ revision' = [revision EXCEPT ![u] = NextRevision(u)]
  /\ due' = [due EXCEPT ![u] = TRUE]
  /\ published' = [published EXCEPT ![u] = @ + 1]
  /\ UNCHANGED <<token, leased, workVars, covered>>

------------------------------------------------------------------------------
(* runDurableOnce *)

\* Fault: a lease is forever, also when its worker is gone.
ClaimableUnleased(u) == u \in queued /\ due[u] /\ token[u] = NoToken
Claimable(u) == u \in queued /\ due[u] /\ ~leased[u]

Fresh(t) == (\A u \in URL : token[u] # t) /\ (\A w \in Worker : wtoken[w] # t)

\* SKIP LOCKED may leave out rows another transaction is just writing.
Claim(w) ==
  /\ wpc[w] = "idle"
  /\ \E S \in SUBSET {u \in URL : Claimable(u)}, t \in Token :
       /\ S # {} /\ Cardinality(S) <= Batch
       /\ Fresh(t)
       /\ token' = [u \in URL |-> IF u \in S THEN t ELSE token[u]]
       /\ leased' = [u \in URL |-> u \in S \/ leased[u]]
       /\ wtoken' = [wtoken EXCEPT ![w] = t]
       /\ wrev' = [wrev EXCEPT ![w] = [u \in URL |-> IF u \in S THEN revision[u] ELSE 0]]
  /\ wpc' = [wpc EXCEPT ![w] = "claimed"]
  /\ UNCHANGED <<queued, revision, due, published, covered>>

\* The engine has been told about every change of the batch published so far.
Cover(w) == covered' = [u \in URL |-> IF u \in InBatch(w) THEN published[u] ELSE covered[u]]

\* submitter.Submit: accepted, accepted with the answer lost, or refused.
Submit(w) ==
  /\ wpc[w] = "claimed"
  /\ \/ wpc' = [wpc EXCEPT ![w] = "accepted"] /\ Cover(w)
     \/ wpc' = [wpc EXCEPT ![w] = "failed"] /\ (Cover(w) \/ UNCHANGED covered)
  /\ UNCHANGED <<rowVars, wtoken, wrev, published>>

Rest(w) ==
  /\ wpc' = [wpc EXCEPT ![w] = "idle"]
  /\ wtoken' = [wtoken EXCEPT ![w] = NoToken]
  /\ wrev' = [wrev EXCEPT ![w] = [u \in URL |-> 0]]
  /\ UNCHANGED <<published, covered>>

Release(S) ==
  /\ token' = [u \in URL |-> IF u \in S THEN NoToken ELSE token[u]]
  /\ leased' = [u \in URL |-> u \notin S /\ leased[u]]

\* Fault: a delivered row is removed under its revision, whoever holds it.
DeliveredUnheld(w) == {u \in InBatch(w) : u \in queued /\ revision[u] = wrev[w][u]}
Delivered(w) == {u \in InBatch(w) : Held(w, u) /\ revision[u] = wrev[w][u]}

\* The batch was accepted: delete what did not change, release what did.
Acknowledge(w) ==
  LET gone == Delivered(w)
      kept == {u \in InBatch(w) : Held(w, u)} \ gone
  IN
  /\ wpc[w] = "accepted"
  /\ queued' = queued \ gone
  /\ revision' = [u \in URL |-> IF u \in gone THEN 0 ELSE revision[u]]
  /\ Release(gone \union kept)
  /\ due' = [u \in URL |-> u \notin gone /\ (u \in kept \/ due[u])]
  /\ Rest(w)

\* The batch failed: release it and try again after a delay.
Backoff(w) ==
  LET kept == {u \in InBatch(w) : Held(w, u)} IN
  /\ wpc[w] = "failed"
  /\ Release(kept)
  /\ due' = [u \in URL |-> u \notin kept /\ due[u]]
  /\ Rest(w)
  /\ UNCHANGED <<queued, revision>>

\* The process dies, or the closing transaction fails: the rows stay leased.
Crash(w) ==
  /\ wpc[w] # "idle"
  /\ Rest(w)
  /\ UNCHANGED rowVars

------------------------------------------------------------------------------
(* The clock *)

BecomeDue(u) ==
  /\ u \in queued /\ ~due[u]
  /\ due' = [due EXCEPT ![u] = TRUE]
  /\ UNCHANGED <<queued, revision, token, leased, workVars, published, covered>>

Expire(u) ==
  /\ leased[u]
  /\ leased' = [leased EXCEPT ![u] = FALSE]
  /\ UNCHANGED <<queued, revision, token, due, workVars, published, covered>>

------------------------------------------------------------------------------
Next ==
  \/ \E u \in URL : Enqueue(u) \/ BecomeDue(u) \/ Expire(u)
  \/ \E w \in Worker : Claim(w) \/ Submit(w) \/ Acknowledge(w) \/ Backoff(w) \/ Crash(w)

Spec == Init /\ [][Next]_vars

\* The worker loop polls every second; time passes; an engine that is asked about
\* a URL again and again accepts it at last; and a 45 s lease cannot always run
\* out under a delivery that takes at most 15 s.
FairSpec ==
  /\ Spec
  /\ \A u \in URL : WF_vars(BecomeDue(u)) /\ WF_vars(Expire(u))
  /\ \A w \in Worker : WF_vars(Submit(w) \/ Acknowledge(w) \/ Backoff(w))
  /\ \A u \in URL :
       /\ SF_vars(\E w \in Worker : Claim(w) /\ wrev'[w][u] > 0)
       /\ SF_vars(\E w \in Worker : Held(w, u) /\ Submit(w) /\ wpc'[w] = "accepted")
       /\ SF_vars(\E w \in Worker : u \in Delivered(w) /\ Acknowledge(w))

------------------------------------------------------------------------------
(* Properties *)

\* "An in-flight acknowledgement must never delete a newer change to the same
\* URL" (durable.go): whatever leases expire and workers die, a change nobody
\* told the engine about still has its row.
NoChangeLost == \A u \in URL : covered[u] < published[u] => u \in queued

\* Every row leaves the queue in the end, across crashes and refusals; by NoChangeLost
\* the engine has been told about every change by then.
EveryRowLeaves == \A u \in URL : u \in queued ~> u \notin queued
==============================================================================
