------------------------------- MODULE FullText -------------------------------
(***************************************************************************)
(* Fetching the full text of feed items (internal/service/fulltext_*.go).  *)
(* Every server process runs cycles: recover items that have been fetching *)
(* for too long, claim a batch and lease its sources, fetch the batch's    *)
(* items under a lease of their host, release the sources.  The jobs of a  *)
(* cycle run concurrently, but for one source and one host one at a time.  *)
(* The writes at the end of a job name the item by its id alone.           *)
(***************************************************************************)
EXTENDS Naturals, FiniteSets

CONSTANTS
  Item, Source, Host, \* feed items, their sources, the hosts of their links
  SourceOf, HostOf,   \* of each item
  Cycle,              \* server processes, each runs one cycle at a time
  NoOne,              \* an empty lease_token
  Batch,              \* fullTextBatchSizeForSettings
  LastRetry,          \* the last attempt whose failure is retried (4)
  DisableAfter,       \* fullTextAutoDisableFailureThreshold
  MaxAdmin, MaxCrash  \* bounds on administrators' requests and on crashes

ASSUME FullTextAssumption ==
  /\ SourceOf \in [Item -> Source] /\ HostOf \in [Item -> Host] /\ IsFiniteSet(Item)
  /\ NoOne \notin Cycle
  /\ {Batch, LastRetry, DisableAfter} \subseteq Nat \ {0}
  /\ MaxAdmin \in Nat /\ MaxCrash \in Nat

VARIABLES
  status, tries, due, stale, \* items: full_text_status, attempt count, next attempt reached, 20 minutes fetching
  enabled, failures, \* sources: full_text_enabled and consecutive failures, counted to DisableAfter
  lease, lapsed,     \* sources: the cycle whose token it is, lease_until passed
  hold, holdLapsed, ready, \* hosts: the same, and next_allowed_at reached
  phase,             \* of each cycle
  job, nth, seen,    \* per cycle and item: step, attempt count as claimed, source as checked
  admin, crashes     \* counters of the bounds

itemVars == <<status, tries, due, stale>>
sourceVars == <<enabled, failures, lease, lapsed>>
hostVars == <<hold, holdLapsed, ready>>
jobVars == <<phase, job, nth, seen>>
bounds == <<admin, crashes>>
vars == <<itemVars, sourceVars, hostVars, jobVars, bounds>>

Status == {"pending", "fetching", "retry", "success", "failed", "disabled"}
Waiting == {"pending", "retry"}
Failure == {"hard", "soft"}  \* with or without a code shouldAutoDisableFullTextSource names
Working == {"host", "fetch", "success", "release"} \union Failure

Unseen == [enabled |-> TRUE, failures |-> 0]

Init ==
  /\ status \in [Item -> {"pending", "disabled"}]
  /\ tries = [i \in Item |-> 0] /\ due = [i \in Item |-> TRUE]
  /\ stale = [i \in Item |-> FALSE]
  /\ enabled = [s \in Source |-> TRUE] /\ failures = [s \in Source |-> 0]
  /\ lease = [s \in Source |-> NoOne] /\ lapsed = [s \in Source |-> FALSE]
  /\ hold = [h \in Host |-> NoOne] /\ holdLapsed = [h \in Host |-> FALSE]
  /\ ready = [h \in Host |-> TRUE]
  /\ phase = [c \in Cycle |-> "idle"]
  /\ job = [c \in Cycle |-> [i \in Item |-> "none"]]
  /\ nth = [c \in Cycle |-> [i \in Item |-> 0]]
  /\ seen = [c \in Cycle |-> [i \in Item |-> Unseen]]
  /\ admin = 0 /\ crashes = 0

Goto(c, i, step) ==
  /\ job' = [job EXCEPT ![c][i] = step]
  /\ nth' = IF step = "none" THEN [nth EXCEPT ![c][i] = 0] ELSE nth
\* A job that ends takes its copies with it.
Leave(c, i) == Goto(c, i, "none") /\ seen' = [seen EXCEPT ![c][i] = Unseen]

\* CalculateNextFullTextRetryAt: this attempt's failure is followed by another attempt.
Retried(n) == n \in 1..LastRetry

------------------------------------------------------------------------------
(* recoverStaleFullTextFetches and claimFullTextBatch *)

\* Fault: an item is stale only once its attempt time is null.
StaleNever(i) == FALSE
Stale(i) == status[i] = "fetching" /\ stale[i]

\* The recovery writes the policy down once more, with attempts 1 to 3.
AfterRecovery(n) == IF n \in 1..(LastRetry - 1) THEN "retry" ELSE "failed"

FailuresOf(s, n) == IF failures[s] + n > DisableAfter THEN DisableAfter ELSE failures[s] + n

\* A transaction; when it fails the cycle logs it and goes on.
Recover(c) ==
  /\ phase[c] = "idle"
  /\ phase' = [phase EXCEPT ![c] = "claim"]
  /\ LET S == {i \in Item : Stale(i)} IN
     /\ status' = [i \in Item |-> IF i \in S THEN AfterRecovery(tries[i]) ELSE status[i]]
     /\ due' = [i \in Item |-> due[i] /\ (i \in S => AfterRecovery(tries[i]) # "retry")]
     /\ stale' = [i \in Item |-> stale[i] /\ i \notin S]
     /\ failures' = [s \in Source |-> FailuresOf(s, Cardinality({i \in S : SourceOf[i] = s}))]
  /\ UNCHANGED <<tries, enabled, lease, lapsed, hostVars, job, nth, seen, bounds>>

RecoverFails(c) ==
  /\ phase[c] = "idle"
  /\ phase' = [phase EXCEPT ![c] = "claim"]
  /\ UNCHANGED <<itemVars, sourceVars, hostVars, job, nth, seen, bounds>>

\* Fault: a lease that has run out keeps its source.
FreeWithoutLapse(s) == enabled[s] /\ lease[s] = NoOne
Free(s) == enabled[s] /\ (lease[s] = NoOne \/ lapsed[s])

Candidates == {i \in Item : status[i] \in Waiting /\ due[i] /\ Free(SourceOf[i])}

\* First one item of every source, then more of the same sources; which ones is priority.
Batches ==
  LET sources == {SourceOf[i] : i \in Candidates}
      smaller(a, b) == IF a < b THEN a ELSE b
  IN {B \in SUBSET Candidates :
        /\ Cardinality(B) = smaller(Batch, Cardinality(Candidates))
        /\ Cardinality({SourceOf[i] : i \in B}) = smaller(Batch, Cardinality(sources))}

NextTry(i) == tries[i] + 1

\* One transaction, then the items and sources are read again outside it.
Claim(c) ==
  /\ phase[c] = "claim"
  /\ IF Candidates = {}
     THEN /\ phase' = [phase EXCEPT ![c] = "idle"]
          /\ UNCHANGED <<itemVars, sourceVars, job, nth>>
     ELSE \E B \in Batches :
          /\ lease' = [s \in Source |-> IF \E i \in B : SourceOf[i] = s THEN c ELSE lease[s]]
          /\ lapsed' = [s \in Source |-> lapsed[s] /\ \A i \in B : SourceOf[i] # s]
          /\ status' = [i \in Item |-> IF i \in B THEN "fetching" ELSE status[i]]
          /\ tries' = [i \in Item |-> IF i \in B THEN NextTry(i) ELSE tries[i]]
          /\ stale' = [i \in Item |-> stale[i] /\ i \notin B]
          /\ nth' = [nth EXCEPT ![c] = [i \in Item |-> IF i \in B THEN tries'[i] ELSE 0]]
          /\ job' = [job EXCEPT ![c] = [i \in Item |-> IF i \in B THEN "wait" ELSE "none"]]
          /\ phase' = [phase EXCEPT ![c] = "run"]
          /\ UNCHANGED <<due, enabled, failures>>
  /\ UNCHANGED <<hostVars, seen, bounds>>

------------------------------------------------------------------------------
(* The goroutines of runFullTextCycle *)

\* sourceLocks and domainLocks, the first always before the second, which never is waited for in a circle.
LocksFree(c, i) ==
  \A j \in Item : job[c][j] \in Working => SourceOf[j] # SourceOf[i] /\ HostOf[j] # HostOf[i]

\* The job goes on only if its source still has the cycle's token; its item is left as it is.
Check(c, i) ==
  /\ job[c][i] = "wait" /\ LocksFree(c, i)
  /\ LET s == SourceOf[i] IN
     IF lease[s] = c
     THEN /\ Goto(c, i, "host")
          /\ seen' = [seen EXCEPT ![c][i] = [enabled |-> enabled[s], failures |-> failures[s]]]
     ELSE Leave(c, i)
  /\ UNCHANGED <<itemVars, sourceVars, hostVars, phase, bounds>>

\* Fault: a host's lease is not looked at, only its minimal interval.
AcquirableHeld(h) == ready[h]
Acquirable(h) == (hold[h] = NoOne \/ holdLapsed[h]) /\ ready[h]

Acquire(c, i) ==
  /\ job[c][i] = "host" /\ Acquirable(HostOf[i])
  /\ hold' = [hold EXCEPT ![HostOf[i]] = c]
  /\ holdLapsed' = [holdLapsed EXCEPT ![HostOf[i]] = FALSE]
  /\ Goto(c, i, "fetch")
  /\ UNCHANGED <<itemVars, sourceVars, ready, phase, seen, bounds>>

\* deferFullTextHostClaim
DeferredTries(i) == IF tries[i] = 0 THEN 0 ELSE tries[i] - 1

Defer(c, i) ==
  /\ job[c][i] = "host" /\ ~Acquirable(HostOf[i])
  /\ IF status[i] = "fetching"
     THEN /\ status' = [status EXCEPT ![i] = "retry"]
          /\ tries' = [tries EXCEPT ![i] = DeferredTries(i)]
          /\ due' = [due EXCEPT ![i] = FALSE] /\ stale' = [stale EXCEPT ![i] = FALSE]
     ELSE UNCHANGED itemVars
  /\ Leave(c, i)
  /\ UNCHANGED <<sourceVars, hostVars, phase, bounds>>

\* markFullTextSuccess, markFullTextFailure and markFullTextDisabled, where they write the item.
MarkItem(c, i, new) ==
  /\ status' = [status EXCEPT ![i] = new]
  /\ due' = [due EXCEPT ![i] = new # "retry"]
  /\ stale' = [stale EXCEPT ![i] = FALSE]
  /\ UNCHANGED tries

\* Fault: a source that was switched off since the claim is fetched all the same.
EligibleClaimed(c, i) == TRUE
Eligible(c, i) == seen[c][i].enabled

\* processFullTextItem: the article is fetched or reused, or it fails, or it may not be fetched.
Fetch(c, i) ==
  /\ job[c][i] = "fetch"
  /\ \/ MarkItem(c, i, "disabled") /\ Goto(c, i, "release")
     \/ Eligible(c, i) /\ MarkItem(c, i, "success") /\ Goto(c, i, "success")
     \/ \E f \in Failure :
          /\ Eligible(c, i)
          /\ MarkItem(c, i, IF Retried(nth[c][i]) THEN "retry" ELSE "failed")
          /\ Goto(c, i, f)
  /\ UNCHANGED <<sourceVars, hostVars, phase, seen, bounds>>

\* full_text_enabled is written from the copy of the check.
EnabledAfter(c, i) ==
  ~(job[c][i] = "hard" /\ seen[c][i].failures + 1 >= DisableAfter)

MarkSource(c, i) ==
  /\ job[c][i] \in Failure \union {"success"}
  /\ LET s == SourceOf[i] IN
     IF job[c][i] = "success"
     THEN failures' = [failures EXCEPT ![s] = 0] /\ UNCHANGED enabled
     ELSE /\ failures' = [failures EXCEPT ![s] = FailuresOf(s, 1)]
          /\ enabled' = [enabled EXCEPT ![s] = EnabledAfter(c, i)]
  /\ Goto(c, i, "release")
  /\ UNCHANGED <<itemVars, lease, lapsed, hostVars, phase, seen, bounds>>

\* releaseFullTextHostLease
Release(c, i) ==
  /\ job[c][i] = "release"
  /\ LET h == HostOf[i] IN
     IF hold[h] = c
     THEN /\ hold' = [hold EXCEPT ![h] = NoOne] /\ ready' = [ready EXCEPT ![h] = FALSE]
          /\ holdLapsed' = [holdLapsed EXCEPT ![h] = FALSE]
     ELSE UNCHANGED hostVars
  /\ Leave(c, i)
  /\ UNCHANGED <<itemVars, sourceVars, phase, bounds>>

\* A statement of a job fails: what it had not written stays, and a held host is still released.
JobFails(c, i) ==
  /\ \/ job[c][i] \in {"wait", "host", "release"} /\ Leave(c, i)
     \/ /\ job[c][i] \in {"fetch", "success"} \union Failure
        /\ Goto(c, i, "release") /\ UNCHANGED seen
  /\ crashes < MaxCrash /\ crashes' = crashes + 1
  /\ UNCHANGED <<itemVars, sourceVars, hostVars, phase, admin>>

\* All jobs are done: the sources that still have the cycle's token are released.
End(c) ==
  /\ phase[c] = "run" /\ \A i \in Item : job[c][i] = "none"
  /\ lease' = [s \in Source |-> IF lease[s] = c THEN NoOne ELSE lease[s]]
  /\ lapsed' = [s \in Source |-> lapsed[s] /\ lease[s] # c]
  /\ phase' = [phase EXCEPT ![c] = "idle"]
  /\ UNCHANGED <<itemVars, enabled, failures, hostVars, job, nth, seen, bounds>>

\* The process dies, or the reads after the claim fail: items and leases stay as they are.
Crash(c) ==
  /\ phase[c] # "idle" /\ crashes < MaxCrash
  /\ crashes' = crashes + 1
  /\ phase' = [phase EXCEPT ![c] = "idle"]
  /\ job' = [job EXCEPT ![c] = [i \in Item |-> "none"]]
  /\ nth' = [nth EXCEPT ![c] = [i \in Item |-> 0]]
  /\ seen' = [seen EXCEPT ![c] = [i \in Item |-> Unseen]]
  /\ UNCHANGED <<itemVars, sourceVars, hostVars, admin>>

------------------------------------------------------------------------------
(* Administrators and the passing of time *)

\* UpdateAdminFeedFullTextSourceSettings; turning a source on queues its disabled items.
SetEnabled(s, on) ==
  /\ admin < MaxAdmin /\ admin' = admin + 1
  /\ enabled' = [enabled EXCEPT ![s] = on]
  /\ LET S == {i \in Item : on /\ SourceOf[i] = s /\ status[i] = "disabled"} IN
     /\ status' = [i \in Item |-> IF i \in S THEN "pending" ELSE status[i]]
     /\ due' = [i \in Item |-> due[i] \/ i \in S]
  /\ UNCHANGED <<tries, stale, failures, lease, lapsed, hostVars, jobVars, crashes>>

\* RetryAdminFeedFullTextItem
Requeue(i) ==
  /\ admin < MaxAdmin /\ admin' = admin + 1
  /\ status[i] = "failed" /\ enabled[SourceOf[i]]
  /\ status' = [status EXCEPT ![i] = "pending"] /\ due' = [due EXCEPT ![i] = TRUE]
  /\ UNCHANGED <<tries, stale, sourceVars, hostVars, jobVars, crashes>>

BecomeDue(i) ==
  /\ ~due[i] /\ due' = [due EXCEPT ![i] = TRUE]
  /\ UNCHANGED <<status, tries, stale, sourceVars, hostVars, jobVars, bounds>>

\* A cycle of a hundred items may take longer than the fifteen and twenty minutes.
Age(i) ==
  /\ status[i] = "fetching" /\ ~stale[i]
  /\ stale' = [stale EXCEPT ![i] = TRUE]
  /\ UNCHANGED <<status, tries, due, sourceVars, hostVars, jobVars, bounds>>

Lapse(s) ==
  /\ lease[s] # NoOne /\ ~lapsed[s]
  /\ lapsed' = [lapsed EXCEPT ![s] = TRUE]
  /\ UNCHANGED <<itemVars, enabled, failures, lease, hostVars, jobVars, bounds>>

Using(c, h) == \E i \in Item : HostOf[i] = h /\ job[c][i] \in Working \ {"host"}

\* Requests end after ten seconds, so no job outlives the two minutes of its host's lease.
LapseHost(h) ==
  /\ hold[h] # NoOne /\ ~holdLapsed[h] /\ ~Using(hold[h], h)
  /\ holdLapsed' = [holdLapsed EXCEPT ![h] = TRUE]
  /\ UNCHANGED <<itemVars, sourceVars, hold, ready, jobVars, bounds>>

BecomeReady(h) ==
  /\ ~ready[h] /\ ready' = [ready EXCEPT ![h] = TRUE]
  /\ UNCHANGED <<itemVars, sourceVars, hold, holdLapsed, jobVars, bounds>>

------------------------------------------------------------------------------
Run(c) ==
  \/ Recover(c) \/ Claim(c) \/ End(c)
  \/ \E i \in Item :
       Check(c, i) \/ Acquire(c, i) \/ Defer(c, i) \/ Fetch(c, i) \/ MarkSource(c, i) \/ Release(c, i)

Clock ==
  \/ \E i \in Item : BecomeDue(i) \/ Age(i)
  \/ \E s \in Source : Lapse(s)
  \/ \E h \in Host : LapseHost(h) \/ BecomeReady(h)

Next ==
  \/ \E c \in Cycle : Run(c) \/ RecoverFails(c) \/ Crash(c) \/ \E i \in Item : JobFails(c, i)
  \/ \E s \in Source, on \in BOOLEAN : SetEnabled(s, on)
  \/ \E i \in Item : Requeue(i)
  \/ Clock

Spec == Init /\ [][Next]_vars

\* The ticker of every process starts cycles for ever and time passes; the
\* recovery, tried every cycle, does not fail every time, and a deferred item,
\* which waits longer than its host, finds the host free at last.
FairSpec ==
  /\ Spec
  /\ \A c \in Cycle :
       /\ WF_vars(Run(c)) /\ SF_vars(Recover(c))
       /\ \A i \in Item : WF_vars(Check(c, i)) /\ WF_vars(Fetch(c, i))
                       /\ WF_vars(MarkSource(c, i)) /\ WF_vars(Release(c, i)) /\ SF_vars(Acquire(c, i))
  /\ \A i \in Item : WF_vars(BecomeDue(i)) /\ WF_vars(Age(i))
  /\ \A s \in Source : WF_vars(Lapse(s))
  /\ \A h \in Host : WF_vars(LapseHost(h)) /\ WF_vars(BecomeReady(h))

------------------------------------------------------------------------------
(* Properties *)

\* Every variable has its type, an item in progress has been counted, and
\* a source or host whose lease ran out is one that has a lease.
TypeOK ==
  /\ status \in [Item -> Status] /\ tries \in [Item -> Nat]
  /\ due \in [Item -> BOOLEAN] /\ stale \in [Item -> BOOLEAN]
  /\ enabled \in [Source -> BOOLEAN] /\ failures \in [Source -> 0..DisableAfter]
  /\ lease \in [Source -> Cycle \union {NoOne}] /\ lapsed \in [Source -> BOOLEAN]
  /\ hold \in [Host -> Cycle \union {NoOne}] /\ holdLapsed \in [Host -> BOOLEAN]
  /\ ready \in [Host -> BOOLEAN]
  /\ phase \in [Cycle -> {"idle", "claim", "run"}]
  /\ job \in [Cycle -> [Item -> {"none", "wait"} \union Working]]
  /\ nth \in [Cycle -> [Item -> Nat]]
  /\ seen \in [Cycle -> [Item -> [enabled : BOOLEAN, failures : 0..DisableAfter]]]
  /\ \A s \in Source : lapsed[s] => lease[s] # NoOne
  /\ \A h \in Host : holdLapsed[h] => hold[h] # NoOne
  /\ \A c \in Cycle, i \in Item : job[c][i] # "none" => phase[c] = "run" /\ nth[c][i] > 0
  /\ admin \in 0..MaxAdmin /\ crashes \in 0..MaxCrash

\* No two requests go to one host at the same time, whichever processes, sources
\* and expired source leases they come from.
HostsServedSingly ==
  \A c, d \in Cycle, i, j \in Item :
    job[c][i] = "fetch" /\ job[d][j] = "fetch" /\ HostOf[i] = HostOf[j] => c = d /\ i = j

\* An item somebody is fetching is not left fetching for ever, whoever died and
\* whatever statement failed.
FetchingEnds == \A i \in Item : status[i] = "fetching" ~> status[i] # "fetching"

\* A waiting item is fetched, given up or disabled in the end, unless its source is switched off.
WaitingSettles ==
  \A i \in Item : status[i] \in Waiting
    ~> \/ status[i] \in {"success", "failed", "disabled"}
       \/ ~enabled[SourceOf[i]]

\* A source that was switched off is switched on again only by an administrator, or by a
\* fetch that read it before it was switched off and failed (markFullTextFailure writes
\* the enabled flag back), never by one that began after.
DisableStays ==
  [][\A s \in Source : ~enabled[s] /\ enabled'[s] =>
       \/ admin' = admin + 1
       \/ \E c \in Cycle, i \in Item :
            SourceOf[i] = s /\ job[c][i] \in Failure /\ seen[c][i].enabled /\ job'[c][i] = "release"]_vars
==============================================================================
