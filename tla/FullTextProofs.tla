---------------------------- MODULE FullTextProofs ----------------------------
(***************************************************************************)
(* What TLAPS proves of full-text fetching for any items, sources, hosts   *)
(* and processes: its types, that no host is asked twice at once, and who  *)
(* can switch a source on.  A process that uses a host holds its lease,    *)
(* and its own jobs exclude each other before they ask for it.             *)
(***************************************************************************)
EXTENDS FullText, FiniteSetTheorems, TLAPS

\* The jobs of a cycle that are past its locks have different hosts.
Excluded ==
  \A c \in Cycle : \A i, j \in Item :
    i # j /\ job[c][i] \in Working /\ job[c][j] \in Working => HostOf[i] # HostOf[j]

\* A job that is past the host's lease holds it, and the lease has not run out.
Holding ==
  \A c \in Cycle : \A i \in Item :
    job[c][i] \in Working \ {"host"} => hold[HostOf[i]] = c /\ ~holdLapsed[HostOf[i]]

\* What was fetched, or failed to be, was seen enabled.
SeenEnabled ==
  \A c \in Cycle : \A i \in Item :
    job[c][i] \in Failure \union {"success"} => seen[c][i].enabled

\* The types of the items, the sources and the hosts.
ItemsTyped ==
  /\ status \in [Item -> Status] /\ tries \in [Item -> Nat]
  /\ due \in [Item -> BOOLEAN] /\ stale \in [Item -> BOOLEAN]
SourcesTyped ==
  /\ enabled \in [Source -> BOOLEAN] /\ failures \in [Source -> 0..DisableAfter]
  /\ lease \in [Source -> Cycle \union {NoOne}] /\ lapsed \in [Source -> BOOLEAN]
  /\ \A s \in Source : lapsed[s] => lease[s] # NoOne
HostsTyped ==
  /\ hold \in [Host -> Cycle \union {NoOne}] /\ holdLapsed \in [Host -> BOOLEAN]
  /\ ready \in [Host -> BOOLEAN]
  /\ \A h \in Host : holdLapsed[h] => hold[h] # NoOne
JobsTyped ==
  /\ phase \in [Cycle -> {"idle", "claim", "run"}]
  /\ job \in [Cycle -> [Item -> {"none", "wait"} \union Working]]
  /\ nth \in [Cycle -> [Item -> Nat]]
  /\ seen \in [Cycle -> [Item -> [enabled : BOOLEAN, failures : 0..DisableAfter]]]
  /\ \A c \in Cycle, i \in Item : job[c][i] # "none" => phase[c] = "run" /\ nth[c][i] > 0
BoundsTyped == admin \in 0..MaxAdmin /\ crashes \in 0..MaxCrash

Typed == ItemsTyped /\ SourcesTyped /\ HostsTyped /\ JobsTyped /\ BoundsTyped
IInv == Typed /\ Excluded /\ Holding /\ SeenEnabled

USE FullTextAssumption
USE DEF itemVars, sourceVars, hostVars, jobVars, bounds, Failure, Working, Waiting, Status

LEMMA TypedIsTypeOK == Typed <=> TypeOK
BY DEF Typed, TypeOK, ItemsTyped, SourcesTyped, HostsTyped, JobsTyped, BoundsTyped

LEMMA InitIInv == Init => IInv
<1> SUFFICES ASSUME Init PROVE IInv
  OBVIOUS
<1>1. TypeOK BY DEF Init, TypeOK, Unseen
<1>2. Excluded /\ Holding /\ SeenEnabled
  BY DEF Init, Excluded, Holding, SeenEnabled
<1> QED BY <1>1, <1>2, TypedIsTypeOK DEF IInv

LEMMA FailuresTyped ==
  ASSUME SourcesTyped, NEW s \in Source, NEW n \in Nat
  PROVE  FailuresOf(s, n) \in 0 .. DisableAfter
BY DEF SourcesTyped, FailuresOf

------------------------------------------------------------------------------
(* Frames: what the jobs rest on *)

LEMMA JobsFrame ==
  ASSUME IInv, UNCHANGED <<phase, job, nth, seen>>, UNCHANGED <<hold, holdLapsed>>
  PROVE  JobsTyped' /\ Excluded' /\ Holding' /\ SeenEnabled'
<1>1. JobsTyped' BY DEF IInv, Typed, JobsTyped
<1>2. Excluded' BY DEF IInv, Excluded
<1>3. Holding' /\ SeenEnabled' BY DEF IInv, Holding, SeenEnabled
<1> QED BY <1>1, <1>2, <1>3

LEMMA UpdateTyped ==
  ASSUME NEW A, NEW B, NEW R, NEW f \in [A -> [B -> R]], NEW a \in A, NEW b \in B, NEW r \in R
  PROVE  [f EXCEPT ![a][b] = r] \in [A -> [B -> R]]
OBVIOUS

\* A job that moves to a step it may be in.
LEMMA JobMoves ==
  ASSUME IInv, NEW c \in Cycle, NEW i \in Item, NEW step \in {"none", "wait"} \union Working,
         Goto(c, i, step), job[c][i] # "none", UNCHANGED phase,
         seen' = seen
           \/ seen' = [seen EXCEPT ![c][i] = Unseen]
           \/ seen' = [seen EXCEPT ![c][i] = [enabled |-> enabled[SourceOf[i]], failures |-> failures[SourceOf[i]]]]
  PROVE  /\ JobsTyped' /\ job'[c][i] = step
         /\ \A d \in Cycle, j \in Item : d # c \/ j # i => job'[d][j] = job[d][j] /\ seen'[d][j] = seen[d][j]
<1> USE DEF Goto, Unseen
<1>1. JobsTyped /\ SourcesTyped BY DEF IInv, Typed
<1>2. job' \in [Cycle -> [Item -> {"none", "wait"} \union Working]]
  BY <1>1 DEF JobsTyped
<1>3. nth' \in [Cycle -> [Item -> Nat]]
  BY <1>1 DEF JobsTyped
<1>4. seen' \in [Cycle -> [Item -> [enabled : BOOLEAN, failures : 0..DisableAfter]]]
  <2>1. [enabled |-> TRUE, failures |-> 0] \in [enabled : BOOLEAN, failures : 0..DisableAfter]
    OBVIOUS
  <2>2. [enabled |-> enabled[SourceOf[i]], failures |-> failures[SourceOf[i]]]
          \in [enabled : BOOLEAN, failures : 0..DisableAfter]
    <3>1. enabled[SourceOf[i]] \in BOOLEAN /\ failures[SourceOf[i]] \in 0..DisableAfter
      BY <1>1 DEF SourcesTyped
    <3> QED BY <3>1
  <2>3. \E r \in [enabled : BOOLEAN, failures : 0..DisableAfter] :
          seen' = seen \/ seen' = [seen EXCEPT ![c][i] = r]
    BY <2>1, <2>2
  <2> DEFINE Seen == [enabled : BOOLEAN, failures : 0..DisableAfter]
  <2>4. \E r \in Seen : seen' = seen \/ seen' = [seen EXCEPT ![c][i] = r]
    BY <2>3
  <2>5. seen \in [Cycle -> [Item -> Seen]] BY <1>1 DEF JobsTyped
  <2>6. seen' \in [Cycle -> [Item -> Seen]]
    <3> HIDE DEF Seen
    <3>1. PICK r \in Seen : seen' = seen \/ seen' = [seen EXCEPT ![c][i] = r] BY <2>4
    <3>2. [seen EXCEPT ![c][i] = r] \in [Cycle -> [Item -> Seen]] BY <2>5, <3>1, UpdateTyped
    <3> QED BY <2>5, <3>1, <3>2
  <2> QED BY <2>6
<1>5. /\ job'[c][i] = step
      /\ \A d \in Cycle, j \in Item : d # c \/ j # i =>
           job'[d][j] = job[d][j] /\ nth'[d][j] = nth[d][j] /\ seen'[d][j] = seen[d][j]
      /\ step # "none" => nth' = nth
  BY <1>1 DEF JobsTyped
<1>6. \A d \in Cycle, j \in Item : job'[d][j] # "none" => phase'[d] = "run" /\ nth'[d][j] > 0
  <2> SUFFICES ASSUME NEW d \in Cycle, NEW j \in Item, job'[d][j] # "none"
               PROVE  phase'[d] = "run" /\ nth'[d][j] > 0
    OBVIOUS
  <2>1. CASE d = c /\ j = i BY <1>1, <1>5, <2>1 DEF JobsTyped
  <2>2. CASE d # c \/ j # i BY <1>1, <1>5, <2>2 DEF JobsTyped
  <2> QED BY <2>1, <2>2
<1> QED BY <1>1, <1>2, <1>3, <1>4, <1>5, <1>6 DEF JobsTyped

------------------------------------------------------------------------------
(* The cycle *)

LEMMA RecoverKeepsIInv ==
  ASSUME IInv, NEW c \in Cycle, Recover(c) \/ RecoverFails(c)
  PROVE  IInv'
<1>1. ItemsTyped /\ SourcesTyped /\ HostsTyped /\ JobsTyped /\ BoundsTyped BY DEF IInv, Typed
<1>2. phase' = [phase EXCEPT ![c] = "claim"] /\ phase[c] = "idle"
      /\ UNCHANGED <<tries, enabled, lease, lapsed, hostVars, job, nth, seen, bounds>>
  BY DEF Recover, RecoverFails
<1>3. ItemsTyped'
  <2>1. CASE RecoverFails(c) BY <1>1, <2>1 DEF RecoverFails, ItemsTyped
  <2>2. CASE Recover(c)
    <3>1. \A i \in Item : AfterRecovery(tries[i]) \in Status BY DEF AfterRecovery
    <3>2. status' \in [Item -> Status]
      <4>1. status' = [i \in Item |-> IF i \in {j \in Item : Stale(j)} THEN AfterRecovery(tries[i]) ELSE status[i]]
        BY <2>2 DEF Recover
      <4> HIDE DEF Status
      <4> QED BY <1>1, <3>1, <4>1 DEF ItemsTyped
    <3>3. due' \in [Item -> BOOLEAN] /\ stale' \in [Item -> BOOLEAN]
      BY <1>1, <2>2 DEF Recover, ItemsTyped
    <3> QED BY <1>1, <1>2, <3>2, <3>3 DEF ItemsTyped
  <2> QED BY <2>1, <2>2
<1>4. SourcesTyped'
  <2>1. \A S \in SUBSET Item : Cardinality(S) \in Nat BY FS_Subset, FS_CardinalityType
  <2>2. \A s \in Source : FailuresOf(s, Cardinality({i \in {i \in Item : Stale(i)} : SourceOf[i] = s}))
                            \in 0 .. DisableAfter
    BY <1>1, <2>1, FailuresTyped
  <2>3. failures' \in [Source -> 0 .. DisableAfter]
    <3>1. CASE Recover(c)
      <4>1. failures' = [s \in Source |-> FailuresOf(s, Cardinality({i \in {i \in Item : Stale(i)} : SourceOf[i] = s}))]
        BY <3>1 DEF Recover
      <4> QED BY <2>2, <4>1
    <3>2. CASE RecoverFails(c)
      BY <1>1, <3>2 DEF RecoverFails, SourcesTyped
    <3> QED BY <3>1, <3>2
  <2> QED BY <1>1, <1>2, <2>3 DEF SourcesTyped
<1>5. HostsTyped' /\ BoundsTyped' BY <1>1, <1>2 DEF HostsTyped, BoundsTyped
<1>6. JobsTyped' BY <1>1, <1>2 DEF JobsTyped
<1>7. Excluded' /\ Holding' /\ SeenEnabled' BY <1>2 DEF IInv, Excluded, Holding, SeenEnabled
<1> QED BY <1>3, <1>4, <1>5, <1>6, <1>7 DEF IInv, Typed

LEMMA ClaimKeepsIInv ==
  ASSUME IInv, NEW c \in Cycle, Claim(c)
  PROVE  IInv'
<1>1. ItemsTyped /\ SourcesTyped /\ HostsTyped /\ JobsTyped /\ BoundsTyped BY DEF IInv, Typed
<1>2. phase[c] = "claim" /\ UNCHANGED <<hostVars, seen, bounds>> BY DEF Claim
<1>3. \A i \in Item : job[c][i] = "none" BY <1>1, <1>2 DEF JobsTyped
<1>4. HostsTyped' /\ BoundsTyped' BY <1>1, <1>2 DEF HostsTyped, BoundsTyped
<1>5. CASE Candidates = {}
  <2>1. phase' = [phase EXCEPT ![c] = "idle"] /\ UNCHANGED <<itemVars, sourceVars, job, nth>>
    BY <1>5 DEF Claim
  <2>2. ItemsTyped' /\ SourcesTyped' BY <1>1, <2>1 DEF ItemsTyped, SourcesTyped
  <2>3. JobsTyped' BY <1>1, <1>2, <1>3, <2>1 DEF JobsTyped
  <2>4. Excluded' /\ Holding' /\ SeenEnabled' BY <1>2, <2>1 DEF IInv, Excluded, Holding, SeenEnabled
  <2> QED BY <1>4, <2>2, <2>3, <2>4 DEF IInv, Typed
<1>6. CASE Candidates # {}
  <2>1. PICK B \in Batches :
          /\ lease' = [s \in Source |-> IF \E i \in B : SourceOf[i] = s THEN c ELSE lease[s]]
          /\ lapsed' = [s \in Source |-> lapsed[s] /\ \A i \in B : SourceOf[i] # s]
          /\ status' = [i \in Item |-> IF i \in B THEN "fetching" ELSE status[i]]
          /\ tries' = [i \in Item |-> IF i \in B THEN NextTry(i) ELSE tries[i]]
          /\ stale' = [i \in Item |-> stale[i] /\ i \notin B]
          /\ nth' = [nth EXCEPT ![c] = [i \in Item |-> IF i \in B THEN tries'[i] ELSE 0]]
          /\ job' = [job EXCEPT ![c] = [i \in Item |-> IF i \in B THEN "wait" ELSE "none"]]
          /\ phase' = [phase EXCEPT ![c] = "run"]
          /\ UNCHANGED <<due, enabled, failures>>
    BY <1>6 DEF Claim
  <2>2. \A i \in Item : NextTry(i) \in Nat \ {0} BY <1>1 DEF NextTry, ItemsTyped
  <2>3. ItemsTyped' BY <1>1, <2>1, <2>2 DEF ItemsTyped
  <2>4. SourcesTyped' BY <1>1, <2>1 DEF SourcesTyped
  <2>5. \A d \in Cycle, i \in Item :
          /\ d # c => job'[d][i] = job[d][i] /\ nth'[d][i] = nth[d][i] /\ phase'[d] = phase[d]
          /\ job'[c][i] \in {"wait", "none"} /\ phase'[c] = "run"
          /\ job'[c][i] = "wait" => nth'[c][i] = NextTry(i)
    BY <1>1, <2>1 DEF JobsTyped
  <2>6. JobsTyped'
    <3>1. job' \in [Cycle -> [Item -> {"none", "wait"} \union Working]]
      BY <1>1, <2>1 DEF JobsTyped
    <3>2. nth' \in [Cycle -> [Item -> Nat]]
      BY <1>1, <2>1, <2>3 DEF JobsTyped, ItemsTyped
    <3>3. phase' \in [Cycle -> {"idle", "claim", "run"}] BY <1>1, <2>1 DEF JobsTyped
    <3>4. \A d \in Cycle, i \in Item : job'[d][i] # "none" => phase'[d] = "run" /\ nth'[d][i] > 0
      <4> SUFFICES ASSUME NEW d \in Cycle, NEW i \in Item, job'[d][i] # "none"
                   PROVE  phase'[d] = "run" /\ nth'[d][i] > 0
        OBVIOUS
      <4>1. CASE d = c
        <5>1. job'[c][i] = "wait" /\ nth'[c][i] = NextTry(i) /\ phase'[c] = "run" BY <2>5, <4>1
        <5>2. NextTry(i) > 0 BY <2>2
        <5> QED BY <4>1, <5>1, <5>2
      <4>2. CASE d # c BY <1>1, <2>5, <4>2 DEF JobsTyped
      <4> QED BY <4>1, <4>2
    <3> QED BY <1>1, <1>2, <3>1, <3>2, <3>3, <3>4 DEF JobsTyped
  <2>7. Excluded' /\ Holding' /\ SeenEnabled'
    BY <1>2, <2>5 DEF IInv, Excluded, Holding, SeenEnabled
  <2> QED BY <1>4, <2>3, <2>4, <2>6, <2>7 DEF IInv, Typed
<1> QED BY <1>5, <1>6

LEMMA EndKeepsIInv ==
  ASSUME IInv, NEW c \in Cycle, End(c) \/ Crash(c)
  PROVE  IInv'
<1>1. ItemsTyped /\ SourcesTyped /\ HostsTyped /\ JobsTyped /\ BoundsTyped BY DEF IInv, Typed
<1>2. /\ UNCHANGED <<itemVars, enabled, failures, hostVars>>
      /\ phase' = [phase EXCEPT ![c] = "idle"]
  BY DEF End, Crash
<1>3. ItemsTyped' /\ HostsTyped' /\ BoundsTyped'
  BY <1>1, <1>2 DEF End, Crash, ItemsTyped, HostsTyped, BoundsTyped
<1>4. SourcesTyped' BY <1>1, <1>2 DEF End, Crash, SourcesTyped
<1>5. \A d \in Cycle, i \in Item :
        /\ d # c => job'[d][i] = job[d][i] /\ nth'[d][i] = nth[d][i] /\ phase'[d] = phase[d]
        /\ job'[c][i] = "none"
        /\ d # c => seen'[d][i] = seen[d][i]
  BY <1>1, <1>2 DEF End, Crash, JobsTyped
<1>6. JobsTyped'
  <2>1. CASE End(c) BY <1>1, <1>2, <1>5, <2>1 DEF End, JobsTyped
  <2>2. CASE Crash(c)
    <3>1. job' \in [Cycle -> [Item -> {"none", "wait"} \union Working]]
      BY <1>1, <2>2 DEF Crash, JobsTyped
    <3>2. nth' \in [Cycle -> [Item -> Nat]]
      BY <1>1, <2>2 DEF Crash, JobsTyped
    <3>3. seen' \in [Cycle -> [Item -> [enabled : BOOLEAN, failures : 0..DisableAfter]]]
      BY <1>1, <2>2 DEF Crash, JobsTyped, Unseen
    <3>4. phase' \in [Cycle -> {"idle", "claim", "run"}] BY <1>1, <1>2 DEF JobsTyped
    <3>5. \A d \in Cycle, i \in Item : job'[d][i] # "none" => phase'[d] = "run" /\ nth'[d][i] > 0
      <4> SUFFICES ASSUME NEW d \in Cycle, NEW i \in Item, job'[d][i] # "none"
                   PROVE  phase'[d] = "run" /\ nth'[d][i] > 0
        OBVIOUS
      <4>1. d # c BY <1>5
      <4> QED BY <1>1, <1>5, <4>1 DEF JobsTyped
    <3> QED BY <3>1, <3>2, <3>3, <3>4, <3>5 DEF JobsTyped
  <2> QED BY <2>1, <2>2
<1>7. Excluded' /\ Holding' /\ SeenEnabled'
  BY <1>2, <1>5 DEF IInv, Excluded, Holding, SeenEnabled
<1> QED BY <1>3, <1>4, <1>6, <1>7 DEF IInv, Typed

------------------------------------------------------------------------------
(* Administrators and the clock *)

LEMMA OutsideKeepsIInv ==
  ASSUME IInv,
         \/ \E s \in Source, on \in BOOLEAN : SetEnabled(s, on)
         \/ \E i \in Item : Requeue(i) \/ BecomeDue(i) \/ Age(i)
         \/ \E s \in Source : Lapse(s)
         \/ \E h \in Host : BecomeReady(h)
  PROVE  IInv'
<1> USE DEF SetEnabled, Requeue, BecomeDue, Age, Lapse, BecomeReady
<1>1. ItemsTyped /\ SourcesTyped /\ HostsTyped /\ JobsTyped /\ BoundsTyped BY DEF IInv, Typed
<1>2. UNCHANGED <<jobVars, hold, holdLapsed>> OBVIOUS
<1>3. ItemsTyped' BY <1>1 DEF ItemsTyped
<1>4. SourcesTyped'
  <2>1. CASE \E s \in Source, on \in BOOLEAN : SetEnabled(s, on) BY <1>1, <2>1 DEF SourcesTyped
  <2>2. CASE \E s \in Source : Lapse(s) BY <1>1, <2>2 DEF SourcesTyped
  <2>3. CASE \/ \E i \in Item : Requeue(i) \/ BecomeDue(i) \/ Age(i)
             \/ \E h \in Host : BecomeReady(h)
    BY <1>1, <2>3 DEF SourcesTyped
  <2> QED BY <2>1, <2>2, <2>3
<1>5. HostsTyped' BY <1>1 DEF HostsTyped
<1>6. BoundsTyped' BY <1>1 DEF BoundsTyped
<1> HIDE DEF SetEnabled, Requeue, BecomeDue, Age, Lapse, BecomeReady
<1>7. JobsTyped' /\ Excluded' /\ Holding' /\ SeenEnabled' BY <1>2, JobsFrame
<1> QED BY <1>3, <1>4, <1>5, <1>6, <1>7 DEF IInv, Typed

\* A host's lease does not run out under a job that uses it.
LEMMA LapseHostKeepsIInv ==
  ASSUME IInv, NEW h \in Host, LapseHost(h)
  PROVE  IInv'
<1> USE DEF LapseHost
<1>1. ItemsTyped /\ SourcesTyped /\ HostsTyped /\ JobsTyped /\ BoundsTyped BY DEF IInv, Typed
<1>2. ItemsTyped' /\ SourcesTyped' /\ BoundsTyped' BY <1>1 DEF ItemsTyped, SourcesTyped, BoundsTyped
<1>3. HostsTyped' BY <1>1 DEF HostsTyped
<1>4. JobsTyped' BY <1>1 DEF JobsTyped
<1>5. Excluded' /\ SeenEnabled' BY DEF IInv, Excluded, SeenEnabled
<1>6. Holding' BY <1>1 DEF IInv, Holding, HostsTyped, Using
<1> QED BY <1>2, <1>3, <1>4, <1>5, <1>6 DEF IInv, Typed

------------------------------------------------------------------------------
(* The jobs of a cycle *)

\* A job passes its locks when no other job of its cycle is past them.
LEMMA CheckKeepsIInv ==
  ASSUME IInv, NEW c \in Cycle, NEW i \in Item, Check(c, i)
  PROVE  IInv'
<1>1. ItemsTyped /\ SourcesTyped /\ HostsTyped /\ JobsTyped /\ BoundsTyped BY DEF IInv, Typed
<1>2. /\ UNCHANGED <<itemVars, sourceVars, hostVars, phase, bounds>>
      /\ job[c][i] = "wait" /\ LocksFree(c, i)
  BY DEF Check
<1>3. PICK step \in {"host", "none"} :
        /\ Goto(c, i, step)
        /\ \/ seen' = [seen EXCEPT ![c][i] = Unseen]
           \/ seen' = [seen EXCEPT ![c][i] = [enabled |-> enabled[SourceOf[i]], failures |-> failures[SourceOf[i]]]]
  BY DEF Check, Leave
<1>4. /\ JobsTyped' /\ job'[c][i] = step
      /\ \A d \in Cycle, j \in Item : d # c \/ j # i => job'[d][j] = job[d][j] /\ seen'[d][j] = seen[d][j]
  BY <1>2, <1>3, JobMoves
<1>5. ItemsTyped' /\ SourcesTyped' /\ HostsTyped' /\ BoundsTyped'
  BY <1>1, <1>2 DEF ItemsTyped, SourcesTyped, HostsTyped, BoundsTyped
<1>6. Excluded' BY <1>2, <1>4 DEF IInv, Excluded, LocksFree
<1>7. Holding' /\ SeenEnabled' BY <1>2, <1>4 DEF IInv, Holding, SeenEnabled
<1> QED BY <1>4, <1>5, <1>6, <1>7 DEF IInv, Typed

\* The lease is taken from nobody who uses the host.
LEMMA AcquireKeepsIInv ==
  ASSUME IInv, NEW c \in Cycle, NEW i \in Item, Acquire(c, i)
  PROVE  IInv'
<1>1. ItemsTyped /\ SourcesTyped /\ HostsTyped /\ JobsTyped /\ BoundsTyped BY DEF IInv, Typed
<1>2. /\ job[c][i] = "host" /\ Acquirable(HostOf[i])
      /\ hold' = [hold EXCEPT ![HostOf[i]] = c]
      /\ holdLapsed' = [holdLapsed EXCEPT ![HostOf[i]] = FALSE]
      /\ Goto(c, i, "fetch")
      /\ UNCHANGED <<itemVars, sourceVars, ready, phase, seen, bounds>>
  BY DEF Acquire
<1>3. /\ JobsTyped' /\ job'[c][i] = "fetch"
      /\ \A d \in Cycle, j \in Item : d # c \/ j # i => job'[d][j] = job[d][j] /\ seen'[d][j] = seen[d][j]
  BY <1>2, JobMoves
<1>4. ItemsTyped' /\ SourcesTyped' /\ BoundsTyped'
  BY <1>1, <1>2 DEF ItemsTyped, SourcesTyped, BoundsTyped
<1>5. HostsTyped' BY <1>1, <1>2 DEF HostsTyped
<1>6. Excluded' BY <1>2, <1>3 DEF IInv, Excluded
<1>7. SeenEnabled' BY <1>2, <1>3 DEF IInv, SeenEnabled
<1>8. Holding'
  <2> SUFFICES ASSUME NEW d \in Cycle, NEW j \in Item, job'[d][j] \in Working \ {"host"}
               PROVE  hold'[HostOf[j]] = d /\ ~holdLapsed'[HostOf[j]]
    BY DEF Holding
  <2>1. CASE d = c /\ j = i BY <1>1, <1>2, <2>1 DEF HostsTyped
  <2>2. CASE d # c \/ j # i
    <3>1. job[d][j] \in Working \ {"host"} BY <1>3, <2>2
    <3>2. hold[HostOf[j]] = d /\ ~holdLapsed[HostOf[j]] BY <3>1 DEF IInv, Holding
    <3>3. HostOf[j] # HostOf[i] BY <1>2, <3>2 DEF Acquirable
    <3> QED BY <1>1, <1>2, <3>2, <3>3 DEF HostsTyped
  <2> QED BY <2>1, <2>2
<1> QED BY <1>3, <1>4, <1>5, <1>6, <1>7, <1>8 DEF IInv, Typed

\* The other steps of a job give up what it has, or keep it.
LEMMA JobKeepsIInv ==
  ASSUME IInv, NEW c \in Cycle, NEW i \in Item,
         Defer(c, i) \/ Fetch(c, i) \/ MarkSource(c, i) \/ JobFails(c, i)
  PROVE  IInv'
<1>1. ItemsTyped /\ SourcesTyped /\ HostsTyped /\ JobsTyped /\ BoundsTyped BY DEF IInv, Typed
<1>2. UNCHANGED <<hostVars, phase>> /\ job[c][i] # "none"
  BY DEF Defer, Fetch, MarkSource, JobFails
<1>3. PICK step \in {"none", "success", "hard", "soft", "release"} :
        /\ Goto(c, i, step)
        /\ seen' = seen \/ seen' = [seen EXCEPT ![c][i] = Unseen]
        /\ step # "none" => job[c][i] \in Working \ {"host"} /\ seen' = seen
        /\ step \in {"success", "hard", "soft"} => seen[c][i].enabled
  BY DEF Defer, Fetch, MarkSource, JobFails, Leave, Eligible
<1>4. /\ JobsTyped' /\ job'[c][i] = step
      /\ \A d \in Cycle, j \in Item : d # c \/ j # i => job'[d][j] = job[d][j] /\ seen'[d][j] = seen[d][j]
  BY <1>2, <1>3, JobMoves
<1>5. HostsTyped' BY <1>1, <1>2 DEF HostsTyped
<1>6. BoundsTyped' BY <1>1 DEF Defer, Fetch, MarkSource, JobFails, BoundsTyped
<1>7. ItemsTyped'
  <2>1. CASE Defer(c, i)
    <3>1. DeferredTries(i) \in Nat BY <1>1 DEF DeferredTries, ItemsTyped
    <3> QED BY <1>1, <2>1, <3>1 DEF Defer, ItemsTyped
  <2>2. CASE Fetch(c, i) BY <1>1, <2>2 DEF Fetch, MarkItem, ItemsTyped
  <2>3. CASE MarkSource(c, i) \/ JobFails(c, i)
    BY <1>1, <2>3 DEF MarkSource, JobFails, ItemsTyped
  <2> QED BY <2>1, <2>2, <2>3
<1>8. SourcesTyped'
  <2>1. CASE MarkSource(c, i)
    <3>1. FailuresOf(SourceOf[i], 1) \in 0 .. DisableAfter BY <1>1, FailuresTyped
    <3>2. failures' \in [Source -> 0 .. DisableAfter] BY <1>1, <2>1, <3>1 DEF MarkSource, SourcesTyped
    <3>3. enabled' \in [Source -> BOOLEAN] BY <1>1, <2>1 DEF MarkSource, SourcesTyped, EnabledAfter
    <3> QED BY <1>1, <2>1, <3>2, <3>3 DEF MarkSource, SourcesTyped
  <2>2. CASE Defer(c, i) \/ Fetch(c, i) \/ JobFails(c, i)
    BY <1>1, <2>2 DEF Defer, Fetch, JobFails, SourcesTyped
  <2> QED BY <2>1, <2>2
<1>9. Excluded'
  <2>1. \A d \in Cycle, j \in Item : job'[d][j] \in Working => job[d][j] \in Working
    BY <1>3, <1>4
  <2> QED BY <2>1 DEF IInv, Excluded
<1>10. Holding'
  <2>1. \A d \in Cycle, j \in Item : job'[d][j] \in Working \ {"host"} => job[d][j] \in Working \ {"host"}
    BY <1>3, <1>4
  <2> QED BY <1>2, <2>1 DEF IInv, Holding
<1>11. SeenEnabled' BY <1>3, <1>4 DEF IInv, SeenEnabled
<1> QED BY <1>4, <1>5, <1>6, <1>7, <1>8, <1>9, <1>10, <1>11 DEF IInv, Typed

\* A host that is released has no other job of its holder.
LEMMA ReleaseKeepsIInv ==
  ASSUME IInv, NEW c \in Cycle, NEW i \in Item, Release(c, i)
  PROVE  IInv'
<1>1. ItemsTyped /\ SourcesTyped /\ HostsTyped /\ JobsTyped /\ BoundsTyped BY DEF IInv, Typed
<1>2. /\ job[c][i] = "release" /\ Goto(c, i, "none") /\ seen' = [seen EXCEPT ![c][i] = Unseen]
      /\ UNCHANGED <<itemVars, sourceVars, phase, bounds>>
      /\ \A h \in Host : h # HostOf[i] => hold'[h] = hold[h] /\ holdLapsed'[h] = holdLapsed[h]
  BY <1>1 DEF Release, Leave, HostsTyped
<1>3. /\ JobsTyped' /\ job'[c][i] = "none"
      /\ \A d \in Cycle, j \in Item : d # c \/ j # i => job'[d][j] = job[d][j] /\ seen'[d][j] = seen[d][j]
  <2>1. /\ "none" \in {"none", "wait"} \union Working /\ Goto(c, i, "none") /\ job[c][i] # "none"
        /\ UNCHANGED phase /\ seen' = [seen EXCEPT ![c][i] = Unseen]
    BY <1>2
  <2> QED BY <2>1, JobMoves
<1>4. ItemsTyped' /\ SourcesTyped' /\ BoundsTyped'
  BY <1>1, <1>2 DEF ItemsTyped, SourcesTyped, BoundsTyped
<1>5. HostsTyped' BY <1>1 DEF Release, HostsTyped
<1>6. Excluded' /\ SeenEnabled' BY <1>3 DEF IInv, Excluded, SeenEnabled
<1>7. Holding'
  <2> SUFFICES ASSUME NEW d \in Cycle, NEW j \in Item, job'[d][j] \in Working \ {"host"}
               PROVE  hold'[HostOf[j]] = d /\ ~holdLapsed'[HostOf[j]]
    BY DEF Holding
  <2>1. d # c \/ j # i BY <1>3
  <2>2. job[d][j] \in Working \ {"host"} BY <1>3, <2>1
  <2>3. hold[HostOf[j]] = d /\ ~holdLapsed[HostOf[j]] /\ hold[HostOf[i]] = c
    BY <1>2, <2>2 DEF IInv, Holding
  <2>4. HostOf[j] # HostOf[i]
    <3>1. CASE d # c BY <2>3, <3>1
    <3>2. CASE d = c BY <1>2, <2>1, <2>2, <3>2 DEF IInv, Excluded
    <3> QED BY <3>1, <3>2
  <2> QED BY <1>2, <2>3, <2>4
<1> QED BY <1>3, <1>4, <1>5, <1>6, <1>7 DEF IInv, Typed

LEMMA NextIInv == IInv /\ [Next]_vars => IInv'
<1> SUFFICES ASSUME IInv, [Next]_vars PROVE IInv'
  OBVIOUS
<1>1. ASSUME NEW c \in Cycle, Run(c) PROVE IInv'
  BY <1>1, RecoverKeepsIInv, ClaimKeepsIInv, EndKeepsIInv, CheckKeepsIInv, AcquireKeepsIInv, JobKeepsIInv,
     ReleaseKeepsIInv DEF Run
<1>2. ASSUME NEW c \in Cycle, RecoverFails(c) \/ Crash(c) PROVE IInv'
  BY <1>2, RecoverKeepsIInv, EndKeepsIInv
<1>3. ASSUME NEW c \in Cycle, NEW i \in Item, JobFails(c, i) PROVE IInv'
  BY <1>3, JobKeepsIInv
<1>4. CASE \/ \E s \in Source, on \in BOOLEAN : SetEnabled(s, on)
           \/ \E i \in Item : Requeue(i)
  BY <1>4, OutsideKeepsIInv
<1>5. CASE Clock
  BY <1>5, OutsideKeepsIInv, LapseHostKeepsIInv DEF Clock
<1>6. CASE UNCHANGED vars
  <2> USE <1>6 DEF vars
  <2>1. ItemsTyped /\ SourcesTyped /\ HostsTyped /\ BoundsTyped BY DEF IInv, Typed
  <2>2. ItemsTyped' /\ SourcesTyped' /\ HostsTyped' /\ BoundsTyped'
    BY <2>1 DEF ItemsTyped, SourcesTyped, HostsTyped, BoundsTyped
  <2>3. JobsTyped' /\ Excluded' /\ Holding' /\ SeenEnabled' BY JobsFrame
  <2> QED BY <2>2, <2>3 DEF IInv, Typed
<1> QED BY <1>1, <1>2, <1>3, <1>4, <1>5, <1>6 DEF Next

------------------------------------------------------------------------------
(* Theorems *)

\* The inductive invariant holds.
THEOREM IInvHolds == Spec => []IInv
BY InitIInv, NextIInv, PTL DEF Spec

\* The variables have the types of the rows and of a cycle's jobs.
THEOREM Typing == Spec => []TypeOK
<1>1. IInv => TypeOK BY TypedIsTypeOK DEF IInv
<1> QED BY <1>1, IInvHolds, PTL

\* No two requests go to one host at the same time, from one process or from two.
THEOREM OneRequestPerHost == Spec => []HostsServedSingly
<1>1. IInv => HostsServedSingly
  <2> SUFFICES ASSUME IInv, NEW c \in Cycle, NEW d \in Cycle, NEW i \in Item, NEW j \in Item,
                      job[c][i] = "fetch", job[d][j] = "fetch", HostOf[i] = HostOf[j]
               PROVE  c = d /\ i = j
    BY DEF HostsServedSingly
  <2>1. c = d BY DEF IInv, Holding
  <2> QED BY <2>1 DEF IInv, Excluded
<1> QED BY <1>1, IInvHolds, PTL

\* Only an administrator, or a failed fetch that saw the source enabled, switches it on.
THEOREM SwitchedOnBy == Spec => DisableStays
<1>1. ASSUME IInv, [Next]_vars, NEW s \in Source, ~enabled[s], enabled'[s]
      PROVE  \/ admin' = admin + 1
             \/ \E c \in Cycle, i \in Item :
                  SourceOf[i] = s /\ job[c][i] \in Failure /\ seen[c][i].enabled /\ job'[c][i] = "release"
  <2>1. enabled' # enabled BY <1>1
  <2>2. \A c \in Cycle : ~(RecoverFails(c) \/ Crash(c) \/ Recover(c) \/ Claim(c) \/ End(c))
    BY <2>1 DEF RecoverFails, Crash, Recover, Claim, End
  <2>3. \A c \in Cycle, i \in Item :
          ~(JobFails(c, i) \/ Check(c, i) \/ Acquire(c, i) \/ Defer(c, i) \/ Fetch(c, i) \/ Release(c, i))
    BY <2>1 DEF JobFails, Check, Acquire, Defer, Fetch, Release
  <2>4. ~Clock /\ ~UNCHANGED vars /\ \A i \in Item : ~Requeue(i)
    BY <2>1 DEF Clock, BecomeDue, Age, Lapse, LapseHost, BecomeReady, vars, Requeue
  <2>5. CASE \E t \in Source, on \in BOOLEAN : SetEnabled(t, on)
    BY <2>5 DEF SetEnabled
  <2>6. ASSUME NEW c \in Cycle, NEW i \in Item, MarkSource(c, i)
        PROVE  SourceOf[i] = s /\ job[c][i] \in Failure /\ seen[c][i].enabled /\ job'[c][i] = "release"
    <3>1. JobsTyped /\ SourcesTyped BY <1>1 DEF IInv, Typed
    <3>2. job[c][i] \in Failure /\ enabled' = [enabled EXCEPT ![SourceOf[i]] = EnabledAfter(c, i)]
      BY <2>1, <2>6 DEF MarkSource
    <3>3. SourceOf[i] = s BY <1>1, <3>1, <3>2 DEF SourcesTyped
    <3>4. seen[c][i].enabled BY <1>1, <3>2 DEF IInv, SeenEnabled
    <3>5. job'[c][i] = "release" BY <2>6, <3>1 DEF MarkSource, Goto, JobsTyped
    <3> QED BY <3>2, <3>3, <3>4, <3>5
  <2> QED BY <1>1, <2>2, <2>3, <2>4, <2>5, <2>6 DEF Next, Run
<1>2. IInv /\ [Next]_vars
        => [\A s \in Source : ~enabled[s] /\ enabled'[s] =>
              \/ admin' = admin + 1
              \/ \E c \in Cycle, i \in Item :
                   SourceOf[i] = s /\ job[c][i] \in Failure /\ seen[c][i].enabled /\ job'[c][i] = "release"]_vars
  BY <1>1
<1> QED BY <1>2, IInvHolds, PTL DEF Spec, DisableStays
==============================================================================
