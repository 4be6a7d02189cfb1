-------------------------- MODULE AlbumImportProofs --------------------------
(***************************************************************************)
(* What TLAPS proves of the album import for any imports, workers, bounds  *)
(* and names of copies.  Three arguments carry the induction: a claim's    *)
(* number is its worker's alone; what an album plays is never what a       *)
(* handler still has to delete, because a copy is named afresh and         *)
(* processed audio is thrown away only once the album plays a copy; and a  *)
(* cleanup takes an import's source first, so that an import that has its  *)
(* source and no album has all the audio that anyone names.                *)
(***************************************************************************)
EXTENDS AlbumImport, TLAPS

\* The types, by the group of variables an action leaves alone.
SessionTyped ==
  /\ status \in [Import -> {"uploading", "active", "ready", "attention", "committed", "canceled"}]
  /\ uploaded \subseteq Import /\ request \subseteq Import /\ invalid \subseteq Import
  /\ expiry \in [Import -> {"none", "set", "due"}] /\ tracks \in [Import -> SUBSET Track]
FilesTyped ==
  /\ held \in [Import -> SUBSET Key] /\ done \subseteq Import /\ audio \in [Import -> SUBSET Key]
  /\ object \subseteq Key /\ discard \subseteq Key /\ unsure \subseteq Key /\ orphan \subseteq Key
JobsTyped ==
  /\ job \in [Import -> {"none", "queued", "running", "completed", "failed", "canceled"}]
  /\ attempts \in [Import -> 0 .. MaxAttempts] /\ token \in [Import -> Claims]
  /\ stale \subseteq Import /\ claims \in [Import -> Claims]
  /\ \A i \in Import : job[i] # "running" => token[i] = 0
WorkTyped ==
  /\ wpc \in [Worker -> {"idle", "claimed", "covering", "covered", "encoding", "stored",
                         "recorded", "enriching", "processed", "failing", "finalizing"}]
  /\ wjob \in [Worker -> SUBSET Import] /\ wtoken \in [Worker -> Claims]
  /\ todo \subseteq Worker /\ saw \in [Worker -> Payload]
UserTyped == asked \in [Import -> 0 .. MaxRequest] /\ refusal \subseteq Import

\* What an import holds, what its album plays and what its tracks name is its own; what was
\* published plays, and before its uploads are complete an import has none of it.
Own(i) == Playbacks(i) \union Copy(i) \union {File(i)}
Owned ==
  \A i \in Import :
    /\ held[i] \subseteq {Source(i)} \union Playbacks(i)
    /\ audio[i] \subseteq Playbacks(i) \union Copy(i)
    /\ status[i] = "committed" => audio[i] # {}
    /\ i \notin uploaded => status[i] \in {"uploading", "canceled"} /\ held[i] = {}
Named ==
  /\ \A i \in Import : tracks[i] \subseteq Own(i) /\ (i \notin uploaded => tracks[i] = {})
  /\ \A w \in Worker : wjob[w] = {} => saw[w].tracks = {}
  /\ \A w \in Worker, i \in Import :
       wjob[w] = {i} => saw[w].tracks \subseteq Own(i) /\ i \in uploaded /\ status[i] # "uploading"

\* A handler deletes what no album plays, but for the copies of commits that seemed to fail,
\* and processed audio only once the album has other.
Doomed ==
  \A i \in Import :
    /\ audio[i] \intersect discard \subseteq unsure
    /\ discard \intersect Playbacks(i) # {} => audio[i] # {}

\* The number of a claim is its worker's alone.
Leases ==
  /\ \A w \in Worker : wpc[w] = "idle" <=> wjob[w] = {}
  /\ \A w \in Worker : wjob[w] = {} \/ \E i \in Import : wjob[w] = {i}
  /\ \A w \in Worker, i \in Import : wjob[w] = {i} => 1 <= wtoken[w] /\ wtoken[w] <= claims[i]
  /\ \A v, w \in Worker : v # w /\ wjob[v] = wjob[w] /\ wjob[v] # {} => wtoken[v] # wtoken[w]

\* A queued job has an attempt left.
Retries == \A i \in Import : job[i] = "queued" => attempts[i] < MaxAttempts

\* As long as an import holds its source and its album plays nothing, the audio that anyone
\* names, or is about to, is in the store: a cleanup takes the source before anything else.
Mentions(i, k) ==
  \/ k \in tracks[i] \/ k \in held[i] \/ \E w \in Worker : k \in saw[w].tracks
  \/ \E w \in Worker : On(w, i, "stored") /\ k = Playback(i, wtoken[w])
Whole(i) == audio[i] = {} /\ Source(i) \in held[i]
Kept == \A i \in Import : Whole(i) => \A k \in Playbacks(i) : Mentions(i, k) => k \in object

\* An import that lost its source and is not expired lost it before it was queued again: it is
\* not ready, and who has its lease cannot begin.
Robbed(i) == i \in uploaded /\ Source(i) \notin held[i] /\ audio[i] = {} /\ expiry[i] = "set"
Working(w, i) ==
  /\ wjob[w] = {i} /\ wpc[w] \notin {"claimed", "failing"}
  /\ job[i] = "running" /\ token[i] = wtoken[w]
Stopped == \A i \in Import : Robbed(i) => status[i] # "ready" /\ \A w \in Worker : ~Working(w, i)

Typed == SessionTyped /\ FilesTyped /\ JobsTyped /\ WorkTyped /\ UserTyped
IInv ==
  /\ Typed /\ Owned /\ Named /\ Doomed /\ PublishedPlayable /\ Leases /\ Retries /\ Kept
  /\ Stopped

USE ImportAssumption
USE DEF sessionVars, fileVars, jobVars, workVars, userVars

LEMMA TypedIsTypeOK == Typed <=> TypeOK
BY DEF Typed, TypeOK, SessionTyped, FilesTyped, JobsTyped, WorkTyped, UserTyped

\* The keys of an import, of its kinds and of different imports differ.
LEMMA PlaybackFacts ==
  ASSUME NEW i, NEW c, NEW x, NEW y
  PROVE  Playback(i, c) # <<x, y>> /\ \A j, d : Playback(i, c) = Playback(j, d) => i = j /\ c = d
<1>1. DOMAIN <<i, "playback", c>> = 1 .. 3 /\ DOMAIN <<x, y>> = 1 .. 2 OBVIOUS
<1>2. 1 .. 3 # 1 .. 2
  <2>1. 3 \in 1 .. 3 /\ 3 \notin 1 .. 2 OBVIOUS
  <2> QED BY <2>1
<1>3. ASSUME NEW j, NEW d, Playback(i, c) = Playback(j, d) PROVE i = j /\ c = d
  BY <1>3 DEF Playback
<1> QED BY <1>1, <1>2, <1>3 DEF Playback

LEMMA KeyFacts ==
  ASSUME NEW i \in Import
  PROVE  /\ Source(i) \in Key /\ Playbacks(i) \subseteq Key /\ Copy(i) \subseteq Key
         /\ Own(i) \subseteq Track
         /\ \A c \in Claims : Playback(i, c) \in Playbacks(i)
         /\ \A j \in Import :
              /\ Source(i) \notin Playbacks(j) /\ Source(i) \notin Copy(j)
              /\ File(i) \notin Playbacks(j) /\ Playbacks(i) \intersect Copy(j) = {}
              /\ i # j => /\ Playbacks(i) \intersect Playbacks(j) = {} /\ Source(i) # Source(j)
                          /\ Playbacks(i) \intersect Own(j) = {}
                          /\ Copy(i) \intersect Copy(j) = {}
<1>1. Source(i) \in Key /\ Playbacks(i) \subseteq Key /\ Copy(i) \subseteq Key BY DEF Key
<1>2. Own(i) \subseteq Track BY <1>1 DEF Own, Track
<1>3. \A c \in Claims : Playback(i, c) \in Playbacks(i) BY DEF Playbacks
<1>4. ASSUME NEW j \in Import
      PROVE  /\ Source(i) \notin Playbacks(j) /\ Source(i) \notin Copy(j)
             /\ File(i) \notin Playbacks(j) /\ Playbacks(i) \intersect Copy(j) = {}
             /\ i # j => /\ Playbacks(i) \intersect Playbacks(j) = {} /\ Source(i) # Source(j)
                         /\ Playbacks(i) \intersect Own(j) = {}
                         /\ Copy(i) \intersect Copy(j) = {}
  <2>1. Source(i) \notin Playbacks(j) /\ File(i) \notin Playbacks(j)
    BY PlaybackFacts DEF Playbacks, Source, File
  <2>2. Source(i) \notin Copy(j) BY DEF Source, Copy
  <2>3. ASSUME NEW c \in Claims PROVE Playback(i, c) \notin Copy(j) /\ Playback(i, c) # File(j)
    BY PlaybackFacts DEF Copy, File
  <2>4. Playbacks(i) \intersect Copy(j) = {} /\ File(j) \notin Playbacks(i) BY <2>3 DEF Playbacks
  <2>5. ASSUME i # j PROVE Playbacks(i) \intersect Playbacks(j) = {} /\ Source(i) # Source(j)
                           /\ Copy(i) \intersect Copy(j) = {}
    <3>1. Playbacks(i) \intersect Playbacks(j) = {} BY <2>5, PlaybackFacts DEF Playbacks
    <3>2. Source(i) # Source(j) /\ Copy(i) \intersect Copy(j) = {} BY <2>5 DEF Source, Copy
    <3> QED BY <3>1, <3>2
  <2> QED BY <2>1, <2>2, <2>4, <2>5 DEF Own
<1> QED BY <1>1, <1>2, <1>3, <1>4

LEMMA InitIInv == Init => IInv
<1> SUFFICES ASSUME Init PROVE IInv
  OBVIOUS
<1>1. PICK old \in SUBSET Legacy :
        /\ status = [i \in Import |-> IF i \in old THEN "committed" ELSE "uploading"]
        /\ uploaded = old /\ done = old /\ request = old
        /\ held = [i \in Import |-> IF i \in old THEN {Source(i), Playback(i, 1)} ELSE {}]
        /\ audio = [i \in Import |-> IF i \in old THEN {Playback(i, 1)} ELSE {}] /\ tracks = audio
        /\ job = [i \in Import |-> IF i \in old THEN "completed" ELSE "none"]
        /\ claims = [i \in Import |-> IF i \in old THEN 1 ELSE 0] /\ attempts = claims
        /\ object = UNION {held[i] : i \in Import}
  BY DEF Init
<1>2. 1 \in Claims /\ 0 \in Claims BY DEF Claims
<1>3. \A i \in Import : /\ Source(i) \in Key /\ Playback(i, 1) \in Key /\ Playback(i, 1) \in Playbacks(i)
                        /\ Playback(i, 1) \in Track
  BY <1>2, KeyFacts DEF Track
<1>4. Typed
  <2>1. SessionTyped BY <1>1, <1>3 DEF Init, SessionTyped
  <2>2. FilesTyped BY <1>1, <1>3 DEF Init, FilesTyped
  <2>3. JobsTyped BY <1>1, <1>2 DEF Init, JobsTyped
  <2>4. WorkTyped /\ UserTyped BY <1>2 DEF Init, WorkTyped, UserTyped, NoPayload, Payload
  <2> QED BY <2>1, <2>2, <2>3, <2>4 DEF Typed
<1>5. Owned BY <1>1, <1>3 DEF Owned
<1>6. Named BY <1>1, <1>3 DEF Init, Named, Own, NoPayload
<1>7. Doomed BY DEF Init, Doomed
<1>8. PublishedPlayable BY <1>1 DEF PublishedPlayable
<1>9. Leases /\ Retries BY <1>1 DEF Init, Leases, Retries
<1>10. Kept
  <2>1. \A i \in Import : ~Whole(i) BY <1>1 DEF Whole
  <2> QED BY <2>1 DEF Kept
<1>11. Stopped
  <2>1. \A i \in Import : ~Robbed(i) BY <1>1 DEF Robbed
  <2> QED BY <2>1 DEF Stopped
<1> QED BY <1>4, <1>5, <1>6, <1>7, <1>8, <1>9, <1>10, <1>11 DEF IInv

------------------------------------------------------------------------------
(* Steps that leave the store and what the imports hold alone *)

LEMMA FilesFrame ==
  ASSUME IInv, UNCHANGED <<held, audio, object, discard, unsure>>, done' \subseteq Import, orphan' \subseteq Key,
         UNCHANGED uploaded,
         \A i \in Import : \/ status'[i] = status[i]
                           \/ status'[i] # "committed" /\ (i \in uploaded \/ status'[i] = "canceled")
  PROVE  FilesTyped' /\ Owned' /\ Doomed' /\ PublishedPlayable'
<1> USE DEF IInv
<1>1. FilesTyped' BY DEF Typed, FilesTyped
<1>2. Owned' BY DEF Owned
<1>3. Doomed' BY DEF Doomed
<1>4. PublishedPlayable' BY DEF PublishedPlayable
<1> QED BY <1>1, <1>2, <1>3, <1>4

\* Nobody names more audio than before, or what more is named is in the store.
LEMMA KeptFrame ==
  ASSUME IInv, \A i \in Import : Whole(i)' => Whole(i),
         \A i \in Import : \A k \in Playbacks(i) : Whole(i)' /\ k \in object => k \in object',
         \A i \in Import : \A k \in Playbacks(i) : Whole(i)' /\ Mentions(i, k)' => Mentions(i, k) \/ k \in object'
  PROVE  Kept'
BY DEF IInv, Kept

\* Nobody works on more than before.
LEMMA StoppedFrame ==
  ASSUME IInv,
         \A i \in Import : Robbed(i)' =>
           \/ /\ Robbed(i) /\ (status'[i] = "ready" => status[i] = "ready")
              /\ \A w \in Worker : Working(w, i)' => Working(w, i)
           \/ status'[i] # "ready" /\ \A w \in Worker : ~Working(w, i)'
  PROVE  Stopped'
BY DEF IInv, Stopped

\* Steps of handlers and of the clock: the session and its job change, and no import
\* becomes ready or gets a longer life without losing its lease.
LEMMA SessionFrame ==
  ASSUME IInv, UNCHANGED <<uploaded, tracks, held, audio, object, discard, unsure, orphan, workVars, claims>>,
         done' \subseteq Import,
         \A i \in Import :
           /\ \/ status'[i] = status[i]
              \/ status'[i] \in {"active", "attention"} /\ i \in uploaded
              \/ status'[i] = "canceled"
           /\ expiry'[i] = "set" => expiry[i] = "set" \/ (status'[i] # "ready" /\ job'[i] # "running")
           /\ job'[i] = "running" => job[i] = "running" /\ token'[i] = token[i]
  PROVE  FilesTyped' /\ WorkTyped' /\ Owned' /\ Named' /\ Doomed' /\ PublishedPlayable' /\ Leases' /\ Kept' /\ Stopped'
<1> USE DEF IInv
<1>1. FilesTyped' /\ Owned' /\ Doomed' /\ PublishedPlayable'
  <2>1. orphan' \subseteq Key BY DEF Typed, FilesTyped
  <2> QED BY <2>1, FilesFrame
<1>2. WorkTyped' /\ Leases' BY DEF Typed, WorkTyped, Leases
<1>3. Named' BY DEF Named
<1>4. Kept'
  <2>1. \A i \in Import : Whole(i)' => Whole(i) BY DEF Whole
  <2>2. \A i \in Import : \A k \in Playbacks(i) : Mentions(i, k)' => Mentions(i, k) BY DEF Mentions, On
  <2> QED BY <2>1, <2>2, KeptFrame
<1>5. Stopped'
  <2> SUFFICES ASSUME NEW i \in Import, Robbed(i)'
               PROVE  \/ /\ Robbed(i) /\ (status'[i] = "ready" => status[i] = "ready")
                         /\ \A w \in Worker : Working(w, i)' => Working(w, i)
                      \/ status'[i] # "ready" /\ \A w \in Worker : ~Working(w, i)'
    BY StoppedFrame
  <2>1. CASE expiry[i] = "set" BY <2>1 DEF Robbed, Working
  <2>2. CASE expiry[i] # "set" BY <2>2 DEF Robbed, Working
  <2> QED BY <2>1, <2>2
<1> QED BY <1>1, <1>2, <1>3, <1>4, <1>5

\* A step of a processor that writes at most its import's payload and names no new audio.
LEMMA WorkerFrame ==
  ASSUME IInv, NEW w \in Worker, NEW i \in Import, wjob[w] = {i}, wpc[w] # "idle",
         UNCHANGED <<status, uploaded, expiry, held, audio, object, discard, unsure, orphan, jobVars, wjob,
                     wtoken, userVars>>,
         done' \subseteq Import, request' \subseteq Import, invalid' \subseteq Import, todo' \subseteq Worker,
         NEW pc \in {"covering", "covered", "encoding", "recorded", "enriching", "processed", "failing"},
         wpc' = [wpc EXCEPT ![w] = pc],
         pc = "failing" \/ wpc[w] \notin {"claimed", "failing"} \/ Source(i) \in held[i],
         NEW payload \in Payload, saw' = [saw EXCEPT ![w] = payload],
         NEW ts \in SUBSET Own(i), tracks' = [tracks EXCEPT ![i] = ts],
         payload.tracks \subseteq Own(i),
         \A k \in Playbacks(i) : k \in payload.tracks \union ts => Mentions(i, k)
  PROVE  IInv'
<1> USE DEF IInv, Typed
<1>1. FilesTyped' /\ Owned' /\ Doomed' /\ PublishedPlayable'
  <2>1. orphan' \subseteq Key BY DEF FilesTyped
  <2> QED BY <2>1, FilesFrame
<1>2. Typed'
  <2>1. ts \subseteq Track BY KeyFacts
  <2>2. SessionTyped' BY <2>1 DEF SessionTyped
  <2>3. JobsTyped' /\ WorkTyped' /\ UserTyped' BY DEF JobsTyped, WorkTyped, UserTyped
  <2> QED BY <1>1, <2>2, <2>3
<1>3. /\ wpc'[w] = pc /\ saw'[w] = payload /\ tracks'[i] = ts
      /\ \A v \in Worker : v # w => wpc'[v] = wpc[v] /\ saw'[v] = saw[v]
      /\ \A j \in Import : j # i => tracks'[j] = tracks[j]
  BY DEF SessionTyped, WorkTyped
<1>4. Leases' /\ Retries' BY <1>3 DEF Leases, Retries
<1>5. Named' BY <1>3 DEF Named
<1>6. Kept'
  <2>1. \A j \in Import : Whole(j)' => Whole(j) BY DEF Whole
  <2>2. ASSUME NEW j \in Import, NEW k \in Playbacks(j), Mentions(j, k)' PROVE Mentions(j, k)
    <3>1. CASE k \in tracks'[j]
      BY <1>3, <3>1 DEF Mentions
    <3>2. CASE k \in held'[j] BY <3>2 DEF Mentions
    <3>3. ASSUME NEW v \in Worker, k \in saw'[v].tracks PROVE Mentions(j, k)
      <4>1. CASE v # w BY <1>3, <3>3, <4>1 DEF Mentions
      <4>2. CASE v = w
        <5>1. k \in Own(i) BY <1>3, <3>3, <4>2
        <5>2. j = i BY <5>1, KeyFacts
        <5> QED BY <1>3, <3>3, <4>2, <5>2
      <4> QED BY <4>1, <4>2
    <3>4. ASSUME NEW v \in Worker, On(v, j, "stored")', k = Playback(j, wtoken'[v]) PROVE Mentions(j, k)
      <4>1. v # w BY <1>3, <3>4 DEF On
      <4> QED BY <1>3, <3>4, <4>1 DEF On, Mentions
    <3> QED BY <2>2, <3>1, <3>2, <3>3, <3>4 DEF Mentions
  <2> QED BY <2>1, <2>2, KeptFrame
<1>7. Stopped'
  <2> SUFFICES ASSUME NEW j \in Import, Robbed(j)', NEW v \in Worker, Working(v, j)' PROVE Robbed(j) /\ Working(v, j)
    BY StoppedFrame DEF Robbed
  <2>1. Robbed(j) BY DEF Robbed
  <2>2. CASE v # w BY <1>3, <2>1, <2>2 DEF Working
  <2>3. CASE v = w
    <3>1. j = i /\ pc # "failing" BY <1>3, <2>3 DEF Working
    <3> QED BY <1>3, <2>1, <2>3, <3>1 DEF Working, Robbed
  <2> QED BY <2>2, <2>3
<1> QED BY <1>1, <1>2, <1>4, <1>5, <1>6, <1>7

LEMMA LeaveEffect ==
  ASSUME IInv, NEW w \in Worker, Leave(w), UNCHANGED claims
  PROVE  /\ WorkTyped' /\ Leases'
         /\ \A v \in Worker : v # w => wpc'[v] = wpc[v] /\ wjob'[v] = wjob[v] /\ wtoken'[v] = wtoken[v] /\ saw'[v] = saw[v]
         /\ wpc'[w] = "idle" /\ wjob'[w] = {} /\ saw'[w].tracks = {}
<1> USE DEF IInv, Typed, Leave
<1>1. WorkTyped' BY DEF WorkTyped, Claims, NoPayload, Payload
<1>2. /\ wpc'[w] = "idle" /\ wjob'[w] = {} /\ saw'[w].tracks = {}
      /\ \A v \in Worker : v # w => wpc'[v] = wpc[v] /\ wjob'[v] = wjob[v] /\ wtoken'[v] = wtoken[v] /\ saw'[v] = saw[v]
  BY DEF WorkTyped, NoPayload
<1>3. Leases' BY <1>2 DEF Leases
<1> QED BY <1>1, <1>2, <1>3

\* What a worker that goes back to its loop no longer names or works on.
LEMMA LeaveFrame ==
  ASSUME IInv, NEW w \in Worker, Leave(w), UNCHANGED <<claims, tracks, held, uploaded>>,
         \A i \in Import : status'[i] = "uploading" => status[i] = "uploading"
  PROVE  /\ Named'
         /\ \A i \in Import : \A k \in Playbacks(i) : Mentions(i, k)' => Mentions(i, k)
         /\ \A v \in Worker, i \in Import :
              wjob'[v] = {i} /\ wpc'[v] \notin {"claimed", "failing"}
                => wjob[v] = {i} /\ wpc[v] \notin {"claimed", "failing"} /\ wtoken'[v] = wtoken[v]
<1>1. /\ \A v \in Worker : v # w => wpc'[v] = wpc[v] /\ wjob'[v] = wjob[v] /\ wtoken'[v] = wtoken[v] /\ saw'[v] = saw[v]
      /\ wpc'[w] = "idle" /\ wjob'[w] = {} /\ saw'[w].tracks = {}
  BY LeaveEffect
<1>2. Named' BY <1>1 DEF IInv, Named
<1>3. \A i \in Import : \A k \in Playbacks(i) : Mentions(i, k)' => Mentions(i, k) BY <1>1 DEF Mentions, On
<1>4. \A v \in Worker, i \in Import :
        wjob'[v] = {i} /\ wpc'[v] \notin {"claimed", "failing"}
          => wjob[v] = {i} /\ wpc[v] \notin {"claimed", "failing"} /\ wtoken'[v] = wtoken[v]
  BY <1>1
<1> QED BY <1>2, <1>3, <1>4

------------------------------------------------------------------------------
(* The uploader *)

LEMMA QueueEffect ==
  ASSUME IInv, NEW i \in Import, Queue(i)
  PROVE  /\ status' = [status EXCEPT ![i] = "active"] /\ JobsTyped' /\ Retries' /\ UNCHANGED claims
         /\ job'[i] = "queued"
         /\ \A j \in Import : job'[j] = "running" => job[j] = "running" /\ token'[j] = token[j]
<1> USE DEF IInv, Typed, Queue
<1>1. JobsTyped' BY DEF JobsTyped, Claims
<1>2. Retries' BY DEF JobsTyped, Retries
<1>3. job'[i] = "queued" BY DEF JobsTyped
<1>4. \A j \in Import : job'[j] = "running" => job[j] = "running" /\ token'[j] = token[j] BY DEF JobsTyped
<1> QED BY <1>1, <1>2, <1>3, <1>4

\* An import whose uploads are not complete has no audio that anyone could name.
LEMMA UnnamedBefore ==
  ASSUME IInv, NEW i \in Import, i \notin uploaded, NEW k \in Playbacks(i)
  PROVE  ~Mentions(i, k)
<1> USE DEF IInv
<1>1. k \notin tracks[i] /\ k \notin held[i] BY DEF Owned, Named
<1>2. ASSUME NEW w \in Worker PROVE k \notin saw[w].tracks /\ wjob[w] # {i}
  <2>1. wjob[w] # {i} BY DEF Named
  <2>2. CASE wjob[w] = {} BY <2>1, <2>2 DEF Named
  <2>3. ASSUME NEW j \in Import, wjob[w] = {j} PROVE k \notin saw[w].tracks
    <3>1. j # i BY <2>1, <2>3
    <3>2. k \notin Own(j) BY <3>1, KeyFacts
    <3> QED BY <2>3, <3>2 DEF Named
  <2> QED BY <2>1, <2>2, <2>3 DEF Leases
<1> QED BY <1>1, <1>2 DEF Mentions, On

LEMMA ArriveKeepsIInv ==
  ASSUME IInv, NEW i \in Import, Upload(i) \/ DeleteFile(i)
  PROVE  IInv'
<1> USE DEF IInv, Typed
<1>1. Arrive(i) BY DEF Upload, DeleteFile
<1>2. /\ status' = status \/ status' = [status EXCEPT ![i] = "active"]
      /\ JobsTyped' /\ Retries' /\ UNCHANGED claims
      /\ \A j \in Import : job'[j] = "running" => job[j] = "running" /\ token'[j] = token[j]
  <2>1. CASE Upload(i) BY <2>1, QueueEffect DEF Upload
  <2>2. CASE DeleteFile(i) BY <2>2 DEF DeleteFile, JobsTyped, Retries
  <2> QED BY <2>1, <2>2
<1> USE <1>1 DEF Arrive
<1>3. Typed'
  <2>1. SessionTyped' /\ UserTyped' BY <1>2 DEF SessionTyped, UserTyped
  <2>2. FilesTyped' BY KeyFacts DEF FilesTyped
  <2>3. WorkTyped' BY DEF WorkTyped
  <2> QED BY <1>2, <2>1, <2>2, <2>3
<1>4. /\ \A j \in Import : j # i => held'[j] = held[j] /\ status'[j] = status[j]
      /\ held[i] = {} /\ held'[i] = {Source(i)} /\ status'[i] \in {"uploading", "active"}
  BY <1>2 DEF SessionTyped, FilesTyped, Owned
<1>5. Owned' BY <1>4 DEF Owned
<1>6. Named' BY <1>4 DEF Named
<1>7. Doomed' /\ PublishedPlayable' BY DEF Doomed, PublishedPlayable
<1>8. Leases' BY <1>2 DEF Leases
<1>9. Kept'
  <2> SUFFICES ASSUME NEW j \in Import, Whole(j)', NEW k \in Playbacks(j), Mentions(j, k)' PROVE k \in object'
    BY DEF Kept
  <2>1. k # Source(j) BY KeyFacts
  <2>2. Mentions(j, k) BY <1>4, <2>1 DEF Mentions, On
  <2>3. j # i BY <2>2, UnnamedBefore
  <2>4. Whole(j) BY <1>4, <2>3 DEF Whole
  <2> QED BY <2>2, <2>4 DEF Kept
<1>10. Stopped'
  <2> SUFFICES ASSUME NEW j \in Import, Robbed(j)'
               PROVE  /\ Robbed(j) /\ (status'[j] = "ready" => status[j] = "ready")
                      /\ \A w \in Worker : Working(w, j)' => Working(w, j)
    BY StoppedFrame
  <2>1. j # i BY <1>4 DEF Robbed
  <2> QED BY <1>2, <1>4, <2>1 DEF Robbed, Working
<1> QED BY <1>2, <1>3, <1>5, <1>6, <1>7, <1>8, <1>9, <1>10

\* The steps that queue or cancel an import, or mark it, leave its files alone.
LEMMA RequestKeepsIInv ==
  ASSUME IInv, NEW i \in Import, Start(i) \/ Submit(i) \/ Cancel(i) \/ RetryFile(i) \/ Mark(i)
  PROVE  IInv'
<1> USE DEF IInv, Typed
<1>1. /\ UNCHANGED <<uploaded, tracks, held, audio, object, discard, unsure, orphan, workVars, claims>>
      /\ request' \subseteq Import /\ invalid' \subseteq Import /\ UserTyped' /\ done' \subseteq Import
  BY DEF Start, Submit, Cancel, RetryFile, Mark, SessionTyped, FilesTyped, UserTyped, Queue
<1>2. /\ JobsTyped' /\ Retries'
      /\ \A j \in Import : \/ status'[j] = status[j]
                           \/ status'[j] \in {"active", "attention"} /\ j \in uploaded
                           \/ status'[j] = "canceled"
      /\ status' \in [Import -> {"uploading", "active", "ready", "attention", "committed", "canceled"}]
      /\ \A j \in Import : job'[j] = "running" => job[j] = "running" /\ token'[j] = token[j]
      /\ \A j \in Import : expiry'[j] = "set" => expiry[j] = "set" \/ (status'[j] # "ready" /\ job'[j] # "running")
      /\ expiry' \in [Import -> {"none", "set", "due"}]
  <2>1. CASE Start(i) \/ RetryFile(i)
    BY <2>1, QueueEffect DEF Start, RetryFile, SessionTyped
  <2>2. CASE Submit(i)
    <3>1. CASE status[i] = "uploading" /\ i \in uploaded
      BY <2>2, <3>1, QueueEffect DEF Submit, SessionTyped
    <3>2. CASE ~(status[i] = "uploading" /\ i \in uploaded)
      BY <2>2, <3>2 DEF Submit, SessionTyped, JobsTyped, Retries
    <3> QED BY <3>1, <3>2
  <2>3. CASE Cancel(i)
    <3> USE <2>3 DEF Cancel, CanceledExpiry
    <3>1. JobsTyped' BY DEF JobsTyped, Claims
    <3>2. Retries' BY DEF JobsTyped, Retries
    <3>3. \A j \in Import : job'[j] = "running" => job[j] = "running" /\ token'[j] = token[j] /\ j # i
      BY DEF JobsTyped
    <3> QED BY <3>1, <3>2, <3>3 DEF SessionTyped
  <2>4. CASE Mark(i)
    BY <2>4 DEF Mark, Markable, SessionTyped, JobsTyped, Retries, Owned
  <2> QED BY <2>1, <2>2, <2>3, <2>4
<1>3. SessionTyped' BY <1>1, <1>2 DEF SessionTyped
<1>4. FilesTyped' /\ WorkTyped' /\ Owned' /\ Named' /\ Doomed' /\ PublishedPlayable' /\ Leases' /\ Kept' /\ Stopped'
  BY <1>1, <1>2, SessionFrame
<1> QED BY <1>1, <1>2, <1>3, <1>4

\* A repaired import was published, and its album plays something.
LEMMA RepairKeepsIInv ==
  ASSUME IInv, NEW i \in Import, Repair(i)
  PROVE  IInv'
<1> USE DEF IInv, Typed, Repair
<1>1. audio[i] # {} /\ i \in uploaded BY DEF Owned
<1>2. /\ \A j \in Import : j # i => tracks'[j] = tracks[j] /\ status'[j] = status[j]
      /\ tracks'[i] = audio[i] /\ status'[i] = "ready"
  BY DEF SessionTyped
<1>3. audio[i] \subseteq Own(i) BY DEF Owned, Own
<1>4. Typed'
  <2>1. SessionTyped' BY <1>3, KeyFacts DEF SessionTyped
  <2>2. FilesTyped' /\ JobsTyped' /\ WorkTyped' /\ UserTyped' BY DEF FilesTyped, JobsTyped, WorkTyped, UserTyped
  <2> QED BY <2>1, <2>2
<1>5. Owned' BY <1>1, <1>2 DEF Owned
<1>6. Named' BY <1>1, <1>2, <1>3 DEF Named
<1>7. Doomed' /\ PublishedPlayable' /\ Leases' /\ Retries' BY DEF Doomed, PublishedPlayable, Leases, Retries
<1>8. Kept'
  <2>1. \A j \in Import : Whole(j)' => Whole(j) /\ j # i BY <1>1 DEF Whole
  <2>2. \A j \in Import : \A k \in Playbacks(j) : j # i /\ Mentions(j, k)' => Mentions(j, k)
    BY <1>2 DEF Mentions, On
  <2> QED BY <2>1, <2>2, KeptFrame
<1>9. Stopped'
  <2>1. \A j \in Import : Robbed(j)' => Robbed(j) /\ j # i BY <1>1 DEF Robbed
  <2>2. \A j \in Import : \A w \in Worker : Working(w, j)' => Working(w, j) BY DEF Working
  <2> QED BY <1>2, <2>1, <2>2, StoppedFrame
<1> QED BY <1>4, <1>5, <1>6, <1>7, <1>8, <1>9

------------------------------------------------------------------------------
(* Commits *)

\* What a payload brings that the album cannot keep is processed audio of the import.
LEMMA UnpromotedFacts ==
  ASSUME IInv, NEW i \in Import
  PROVE  Unpromoted(i) \subseteq Playbacks(i) /\ \A k \in Unpromoted(i) : Mentions(i, k)
<1>1. CASE File(i) \in tracks[i] BY <1>1 DEF Unpromoted, Sound, Mentions
<1>2. CASE File(i) \notin tracks[i] BY <1>2 DEF Unpromoted, Sound, Mentions, IInv, Named, Own
<1> QED BY <1>1, <1>2

\* A fresh copy is neither played by any album nor about to be deleted.
LEMMA FreshCopy ==
  ASSUME IInv, NEW i \in Import, NEW c \in SUBSET Copy(i), Promoted(i, c)
  PROVE  /\ c \subseteq Key /\ c \intersect discard = {}
         /\ \A j \in Import : c \intersect audio[j] = {} /\ c \intersect Playbacks(j) = {}
         /\ c # {} => \E k \in Copy(i) : c = {k}
<1> USE DEF IInv, Typed
<1>0. c = {} \/ \E k \in Fresh(i) : c = {k}
  <2>1. Fresh(i) # {} => NewCopy(i) \in Fresh(i) BY DEF NewCopy
  <2> QED BY <2>1 DEF Promoted, CopyBound
<1>1. c \intersect discard = {} /\ c \intersect audio[i] = {}
  BY <1>0 DEF Fresh
<1>2. c \subseteq Key /\ \A j \in Import : c \intersect Playbacks(j) = {} /\ (j # i => c \intersect Copy(j) = {})
  BY KeyFacts
<1>3. \A j \in Import : j # i => c \intersect audio[j] = {}
  BY <1>2 DEF Owned
<1>4. c # {} => \E k \in Copy(i) : c = {k} BY <1>0 DEF Fresh
<1> QED BY <1>1, <1>2, <1>3, <1>4

LEMMA PublishKeepsFiles ==
  ASSUME IInv, NEW i \in Import, i \in uploaded, Publish(i)
  PROVE  /\ SessionTyped' /\ FilesTyped' /\ Owned' /\ Doomed' /\ PublishedPlayable'
         /\ UNCHANGED <<tracks, expiry, uploaded, held, refusal>> /\ object \subseteq object'
         /\ audio'[i] # {} /\ \A j \in Import : j # i => audio'[j] = audio[j]
         /\ status' = [status EXCEPT ![i] = "committed"]
<1> USE DEF IInv, Typed
<1>1. PICK c \in SUBSET Copy(i) :
        /\ Promoted(i, c)
        /\ status' = [status EXCEPT ![i] = "committed"] /\ request' = request \union {i}
        /\ invalid' = invalid \ {i}
        /\ audio' = [audio EXCEPT ![i] = IF c = {} THEN @ ELSE c] /\ object' = object \union c
        /\ \/ discard' = discard \union Superseded(i, c) /\ unsure' = Unsure(i)
           \/ discard' = discard \union c /\ unsure' = Unsure(i) \union c
        /\ UNCHANGED <<uploaded, tracks, expiry, held, done, orphan, refusal>>
  BY DEF Publish
<1>2. /\ c \subseteq Key /\ c \intersect discard = {}
      /\ \A j \in Import : c \intersect audio[j] = {} /\ c \intersect Playbacks(j) = {}
      /\ c # {} => \E k \in Copy(i) : c = {k}
  BY <1>1, FreshCopy
<1>3. Superseded(i, c) \subseteq Playbacks(i) /\ Playbacks(i) \subseteq Key
      /\ (c = {} => Superseded(i, c) = {} /\ audio[i] # {})
  BY <1>1, UnpromotedFacts, KeyFacts DEF Superseded, Promoted
<1>4. /\ \A j \in Import : j # i => audio'[j] = audio[j]
      /\ audio'[i] = (IF c = {} THEN audio[i] ELSE c) /\ audio'[i] # {}
  BY <1>1, <1>3 DEF FilesTyped
<1>5. SessionTyped' BY <1>1 DEF SessionTyped
<1>6. FilesTyped' BY <1>1, <1>2, <1>3 DEF FilesTyped, Unsure
<1>7. Owned'
  <2>1. status'[i] = "committed" /\ \A j \in Import : j # i => status'[j] = status[j]
    BY <1>1 DEF SessionTyped
  <2> QED BY <1>1, <1>4, <2>1 DEF Owned
<1>8. \A j \in Import : audio'[j] \intersect unsure \subseteq unsure'
  <2>1. ASSUME NEW j \in Import, NEW k \in audio'[j], k \in unsure PROVE k \in Unsure(i)
    <3>1. CASE j = i BY <2>1, <3>1 DEF Unsure
    <3>2. CASE j # i
      <4>1. k \in Playbacks(j) \union Copy(j) BY <1>4, <2>1, <3>2 DEF Owned
      <4>2. audio[i] \subseteq Playbacks(i) \union Copy(i) BY DEF Owned
      <4>3. k \notin audio[i] BY <3>2, <4>1, <4>2, KeyFacts
      <4> QED BY <2>1, <4>3 DEF Unsure
    <3> QED BY <3>1, <3>2
  <2> QED BY <1>1, <2>1
<1>9. Doomed'
  <2> SUFFICES ASSUME NEW j \in Import
               PROVE  /\ audio'[j] \intersect discard' \subseteq unsure'
                      /\ discard' \intersect Playbacks(j) # {} => audio'[j] # {}
    BY DEF Doomed
  <2>1. discard' \intersect Playbacks(j) # {} => audio'[j] # {}
    <3>1. CASE j = i BY <1>4, <3>1
    <3>2. CASE j # i
      <4>1. Playbacks(i) \intersect Playbacks(j) = {} BY <3>2, KeyFacts
      <4> QED BY <1>1, <1>2, <1>3, <1>4, <3>2, <4>1 DEF Doomed
    <3> QED BY <3>1, <3>2
  <2>2. ASSUME NEW k \in audio'[j], k \in discard' PROVE k \in unsure'
    <3>1. CASE k \in c
      <4>1. k \notin discard /\ k \notin Playbacks(i) BY <1>2, <3>1
      <4> QED BY <1>1, <1>3, <2>2, <3>1, <4>1
    <3>2. CASE k \notin c
      <4>1. k \in audio[j] BY <1>4, <2>2, <3>2
      <4>2. k \in discard => k \in unsure' BY <1>8, <2>2, <4>1 DEF Doomed
      <4>3. k \notin Superseded(i, c)
        <5>1. CASE j = i BY <1>3, <1>4, <2>2, <3>2, <5>1
        <5>2. CASE j # i
          <6>1. k \in Playbacks(j) \union Copy(j) BY <4>1 DEF Owned
          <6>2. k \notin Playbacks(i) BY <5>2, <6>1, KeyFacts
          <6> QED BY <1>3, <6>2
        <5> QED BY <5>1, <5>2
      <4> QED BY <1>1, <2>2, <3>2, <4>2, <4>3
    <3> QED BY <3>1, <3>2
  <2> QED BY <2>1, <2>2
<1>10. PublishedPlayable'
  <2> SUFFICES ASSUME NEW j \in Import, NEW k \in audio'[j] PROVE k \in object' \/ k \in unsure'
    BY DEF PublishedPlayable
  <2>1. k \in c \/ k \in audio[j] BY <1>4
  <2> QED BY <1>1, <1>8, <2>1 DEF PublishedPlayable
<1> QED BY <1>1, <1>4, <1>5, <1>6, <1>7, <1>9, <1>10

LEMMA UnpublishedKeepsFiles ==
  ASSUME IInv, NEW i \in Import, NEW refused, Unpublished(i, refused)
  PROVE  /\ SessionTyped' /\ FilesTyped' /\ Owned' /\ Doomed' /\ PublishedPlayable'
         /\ UNCHANGED <<sessionVars, held, audio>> /\ object \subseteq object'
         /\ refusal' = refusal \union refused
<1> USE DEF IInv, Typed
<1>1. PICK c \in SUBSET Copy(i) :
        /\ c = {} \/ Promoted(i, c)
        /\ object' = object \union c /\ discard' = discard \union c
  BY DEF Unpublished, Abandoned
<1>2. UNCHANGED <<sessionVars, held, done, audio, unsure, orphan>> /\ refusal' = refusal \union refused
  BY DEF Unpublished
<1>3. c \subseteq Key /\ \A j \in Import : c \intersect audio[j] = {} /\ c \intersect Playbacks(j) = {}
  BY <1>1, FreshCopy
<1>4. SessionTyped' /\ FilesTyped' BY <1>1, <1>2, <1>3 DEF SessionTyped, FilesTyped
<1>5. Owned' BY <1>2 DEF Owned
<1>6. Doomed' BY <1>1, <1>2, <1>3 DEF Doomed
<1>7. PublishedPlayable' BY <1>1, <1>2 DEF PublishedPlayable
<1> QED BY <1>1, <1>2, <1>4, <1>5, <1>6, <1>7

\* What a commit does to the session and the files, whether it is published or not.
LEMMA TryCommitKeepsFiles ==
  ASSUME IInv, NEW i \in Import, status[i] \in {"ready", "attention"}, TryCommit(i)
  PROVE  /\ SessionTyped' /\ FilesTyped' /\ Owned' /\ Doomed' /\ PublishedPlayable' /\ refusal' \subseteq Import
         /\ UNCHANGED <<tracks, expiry, uploaded, held>> /\ object \subseteq object'
         /\ \A j \in Import : /\ Whole(j)' => Whole(j)
                              /\ Robbed(j)' => Robbed(j)
                              /\ status'[j] # "committed" => status'[j] = status[j]
<1>1. refusal \subseteq Import /\ i \in uploaded BY DEF IInv, Typed, UserTyped, Owned
<1>2. CASE Publish(i)
  <2>1. /\ SessionTyped' /\ FilesTyped' /\ Owned' /\ Doomed' /\ PublishedPlayable'
        /\ UNCHANGED <<tracks, expiry, uploaded, held, refusal>> /\ object \subseteq object'
        /\ audio'[i] # {} /\ \A j \in Import : j # i => audio'[j] = audio[j]
        /\ status' = [status EXCEPT ![i] = "committed"]
    BY <1>1, <1>2, PublishKeepsFiles
  <2> QED BY <1>1, <2>1 DEF Whole, Robbed, IInv, Typed, SessionTyped
<1>3. ASSUME NEW refused \in SUBSET Import, Unpublished(i, refused)
      PROVE  /\ SessionTyped' /\ FilesTyped' /\ Owned' /\ Doomed' /\ PublishedPlayable' /\ refusal' \subseteq Import
             /\ UNCHANGED <<tracks, expiry, uploaded, held>> /\ object \subseteq object'
             /\ \A j \in Import : /\ Whole(j)' => Whole(j)
                                  /\ Robbed(j)' => Robbed(j)
                                  /\ status'[j] # "committed" => status'[j] = status[j]
  <2>1. /\ SessionTyped' /\ FilesTyped' /\ Owned' /\ Doomed' /\ PublishedPlayable'
        /\ UNCHANGED <<sessionVars, held, audio>> /\ object \subseteq object'
        /\ refusal' = refusal \union refused
    BY <1>3, UnpublishedKeepsFiles
  <2> QED BY <1>1, <2>1 DEF Whole, Robbed
<1> QED BY <1>2, <1>3 DEF TryCommit

LEMMA CommitKeepsIInv ==
  ASSUME IInv, NEW i \in Import, Commit(i) \/ FinalizeReady(i)
  PROVE  IInv'
<1> USE DEF IInv, Typed
<1>1. /\ status[i] \in {"ready", "attention"} /\ TryCommit(i) /\ asked' \in [Import -> 0 .. MaxRequest]
      /\ UNCHANGED <<jobVars, workVars>>
  BY DEF Commit, Committable, FinalizeReady, Pending, UserTyped
<1>2. /\ SessionTyped' /\ FilesTyped' /\ Owned' /\ Doomed' /\ PublishedPlayable' /\ refusal' \subseteq Import
      /\ UNCHANGED <<tracks, expiry, uploaded, held>> /\ object \subseteq object'
      /\ \A j \in Import : /\ Whole(j)' => Whole(j)
                           /\ Robbed(j)' => Robbed(j)
                           /\ status'[j] # "committed" => status'[j] = status[j]
  BY <1>1, TryCommitKeepsFiles
<1>3. JobsTyped' /\ WorkTyped' /\ UserTyped' BY <1>1, <1>2 DEF JobsTyped, WorkTyped, UserTyped
<1>4. Leases' /\ Retries' BY <1>1 DEF Leases, Retries
<1>5. Named' BY <1>1, <1>2 DEF Named
<1>6. Kept'
  <2>1. \A j \in Import : \A k \in Playbacks(j) : Mentions(j, k)' => Mentions(j, k)
    BY <1>1, <1>2 DEF Mentions, On
  <2> QED BY <1>2, <2>1, KeptFrame
<1>7. Stopped'
  <2>1. \A j \in Import : \A w \in Worker : Working(w, j)' => Working(w, j) BY <1>1 DEF Working
  <2> QED BY <1>2, <2>1, StoppedFrame
<1> QED BY <1>2, <1>3, <1>4, <1>5, <1>6, <1>7

------------------------------------------------------------------------------
(* Deletions *)

LEMMA DeleteKeepsIInv ==
  ASSUME IInv, NEW k \in Key, DeleteObject(k)
  PROVE  IInv'
<1> USE DEF IInv, Typed, DeleteObject
<1>1. Typed' BY DEF SessionTyped, FilesTyped, JobsTyped, WorkTyped, UserTyped
<1>2. Owned' /\ Named' /\ Retries' /\ Leases' BY DEF Owned, Named, Retries, Leases
<1>3. Doomed' BY DEF Doomed
<1>4. PublishedPlayable' BY DEF Doomed, PublishedPlayable
<1>5. Kept'
  <2>1. \A i \in Import : Whole(i)' => Whole(i) BY DEF Whole
  <2>2. \A i \in Import : \A x \in Playbacks(i) : Whole(i)' /\ x \in object => x \in object'
    BY DEF Whole, Doomed
  <2>3. \A i \in Import : \A x \in Playbacks(i) : Mentions(i, x)' => Mentions(i, x) BY DEF Mentions, On
  <2> QED BY <2>1, <2>2, <2>3, KeptFrame
<1>6. Stopped' BY DEF Stopped, Robbed, Working
<1> QED BY <1>1, <1>2, <1>3, <1>4, <1>5, <1>6

\* Cleanup deletes nothing an album plays, and of an import that has no album the source first.
LEMMA CleanKeepsIInv ==
  ASSUME IInv, NEW i \in Import, CleanExpired(i) \/ CleanCommitted(i)
  PROVE  IInv'
<1> USE DEF IInv, Typed
<1>1. PICK S \in SUBSET (held[i] \ Referenced) :
        /\ object' = object \ S
        /\ \A j \in Import : held'[j] \subseteq held[j] /\ (j # i => held'[j] = held[j])
        /\ held' \in [Import -> SUBSET Key]
        /\ Source(i) \in held'[i] => S = {} \/ audio[i] # {}
        /\ expiry'[i] = "set" => audio[i] # {}
  <2>1. CASE CleanExpired(i)
    <3>1. PICK S \in Cleanable(i) : /\ object' = object \ S /\ held' = [held EXCEPT ![i] = @ \ S]
                                    /\ expiry' = [expiry EXCEPT ![i] = IF S = held[i] THEN "none" ELSE @]
      BY <2>1 DEF CleanExpired
    <3>2. expiry'[i] # "set" BY <2>1, <3>1 DEF CleanExpired, Expired, SessionTyped
    <3> QED BY <3>1, <3>2 DEF Cleanable, FilesTyped
  <2>2. CASE CleanCommitted(i)
    <3>1. PICK S \in Cleanable(i) : /\ object' = object \ S
                                    /\ held' = [held EXCEPT ![i] = IF S = held[i] THEN {} ELSE @]
      BY <2>2 DEF CleanCommitted
    <3>2. audio[i] # {} BY <2>2 DEF CleanCommitted, Owned
    <3> QED BY <3>1, <3>2 DEF Cleanable, FilesTyped
  <2> QED BY <2>1, <2>2
<1>2. /\ UNCHANGED <<status, uploaded, request, invalid, tracks, done, audio, discard, unsure, orphan,
                     jobVars, workVars, userVars>>
      /\ expiry' \in [Import -> {"none", "set", "due"}]
      /\ \A j \in Import : expiry'[j] = "set" => expiry[j] = "set"
  BY DEF CleanExpired, CleanCommitted, SessionTyped
<1>3. Typed'
  <2>1. SessionTyped' /\ FilesTyped' BY <1>1, <1>2 DEF SessionTyped, FilesTyped
  <2>2. JobsTyped' /\ WorkTyped' /\ UserTyped' BY <1>2 DEF JobsTyped, WorkTyped, UserTyped
  <2> QED BY <2>1, <2>2
<1>4. Owned' /\ Doomed' BY <1>1, <1>2 DEF Owned, Doomed
<1>5. PublishedPlayable' BY <1>1, <1>2 DEF Referenced, PublishedPlayable
<1>6. Named' /\ Leases' /\ Retries' BY <1>2 DEF Named, Leases, Retries
<1>7. Kept'
  <2>1. \A j \in Import : Whole(j)' => Whole(j) BY <1>1, <1>2 DEF Whole
  <2>2. ASSUME NEW j \in Import, Whole(j)', NEW k \in Playbacks(j), k \in object PROVE k \in object'
    <3>1. CASE j = i BY <1>1, <1>2, <2>2, <3>1 DEF Whole
    <3>2. CASE j # i
      <4>1. k \notin Playbacks(i) /\ k # Source(i) BY <3>2, KeyFacts
      <4> QED BY <1>1, <2>2, <4>1 DEF Owned
    <3> QED BY <3>1, <3>2
  <2>3. \A j \in Import : \A k \in Playbacks(j) : Mentions(j, k)' => Mentions(j, k)
    BY <1>1, <1>2 DEF Mentions, On
  <2> QED BY <2>1, <2>2, <2>3, KeptFrame
<1>8. Stopped'
  <2>1. \A j \in Import : Robbed(j)' => Robbed(j) BY <1>1, <1>2 DEF Robbed
  <2>2. \A j \in Import : \A w \in Worker : Working(w, j)' => Working(w, j) BY <1>2 DEF Working
  <2> QED BY <1>2, <2>1, <2>2, StoppedFrame
<1> QED BY <1>2, <1>3, <1>4, <1>5, <1>6, <1>7, <1>8

------------------------------------------------------------------------------
(* The worker *)

\* A job that is given up is nobody's.
LEMMA ReleaseEffect ==
  ASSUME IInv, NEW i \in Import,
         NEW state \in {"completed", "failed"} \union (IF attempts[i] < MaxAttempts THEN {"queued"} ELSE {}),
         Release(i, state)
  PROVE  /\ JobsTyped' /\ Retries' /\ UNCHANGED claims /\ job'[i] # "running"
         /\ \A j \in Import : j # i => job'[j] = job[j] /\ token'[j] = token[j]
<1> USE DEF IInv, Typed, Release
<1>1. JobsTyped' BY DEF JobsTyped, Claims
<1>2. Retries' BY DEF JobsTyped, Retries
<1>3. \A j \in Import : j # i => job'[j] = job[j] /\ token'[j] = token[j] BY DEF JobsTyped
<1>4. job'[i] # "running" BY DEF JobsTyped
<1> QED BY <1>1, <1>2, <1>3, <1>4

\* Recover, and the clock: the lease of a job, and what is due.
LEMMA ClockKeepsIInv ==
  ASSUME IInv, NEW i \in Import, Recover(i) \/ Lapse(i) \/ BecomeDue(i)
  PROVE  IInv'
<1> USE DEF IInv, Typed
<1>1. UNCHANGED <<uploaded, request, invalid, tracks, fileVars, workVars, userVars>>
  BY DEF Recover, Lapse, BecomeDue
<1>2. /\ SessionTyped' /\ JobsTyped' /\ Retries' /\ UNCHANGED claims
      /\ \A j \in Import : status'[j] = status[j] \/ (status'[j] = "attention" /\ j \in uploaded)
      /\ \A j \in Import : expiry'[j] = "set" => expiry[j] = "set" \/ (status'[j] # "ready" /\ job'[j] # "running")
      /\ \A j \in Import : job'[j] = "running" => job[j] = "running" /\ token'[j] = token[j]
  <2>1. CASE Recover(i)
    <3> USE <2>1 DEF Recover, NeedsAttention
    <3>1. /\ JobsTyped' /\ Retries' /\ UNCHANGED claims /\ job'[i] # "running"
          /\ \A j \in Import : j # i => job'[j] = job[j] /\ token'[j] = token[j]
      BY ReleaseEffect
    <3>2. i \in uploaded BY DEF Owned
    <3> HIDE DEF Release
    <3> QED BY <3>1, <3>2 DEF SessionTyped
  <2>2. CASE Lapse(i) BY <2>2 DEF Lapse, SessionTyped, JobsTyped, Retries
  <2>3. CASE BecomeDue(i) BY <2>3 DEF BecomeDue, SessionTyped, JobsTyped, Retries
  <2> QED BY <2>1, <2>2, <2>3
<1>3. UserTyped' BY <1>1 DEF UserTyped
<1>4. done' \subseteq Import BY <1>1 DEF FilesTyped
<1>5. FilesTyped' /\ WorkTyped' /\ Owned' /\ Named' /\ Doomed' /\ PublishedPlayable' /\ Leases' /\ Kept' /\ Stopped'
  BY <1>1, <1>2, <1>4, SessionFrame
<1> QED BY <1>2, <1>3, <1>5

\* A claim takes a number that no worker has.
LEMMA ClaimKeepsIInv ==
  ASSUME IInv, NEW w \in Worker, NEW i \in Import, Claim(w, i)
  PROVE  IInv'
<1> USE DEF IInv, Typed, Claim, NextToken
<1>1. FilesTyped' /\ Owned' /\ Doomed' /\ PublishedPlayable'
  BY FilesFrame DEF FilesTyped
<1>2. JobsTyped'
  <2>1. attempts[i] + 1 \in 0 .. MaxAttempts BY DEF JobsTyped, Retries
  <2>2. claims[i] + 1 \in Claims BY DEF JobsTyped, Claims
  <2> QED BY <2>1, <2>2 DEF JobsTyped
<1>3. WorkTyped'
  <2>1. claims[i] + 1 \in Claims BY DEF JobsTyped, Claims
  <2> QED BY <2>1 DEF WorkTyped
<1>4. SessionTyped' /\ UserTyped' BY DEF SessionTyped, UserTyped
<1>5. /\ wpc'[w] = "claimed" /\ wjob'[w] = {i} /\ wtoken'[w] = claims[i] + 1
      /\ \A v \in Worker : v # w => wpc'[v] = wpc[v] /\ wjob'[v] = wjob[v] /\ wtoken'[v] = wtoken[v]
      /\ claims'[i] = claims[i] + 1 /\ \A j \in Import : j # i => claims'[j] = claims[j]
      /\ token'[i] = claims[i] + 1 /\ \A j \in Import : j # i => token'[j] = token[j] /\ job'[j] = job[j]
  BY DEF WorkTyped, JobsTyped
<1>6. \A v \in Worker : wtoken[v] \in Nat BY DEF WorkTyped, Claims
<1>7. \A j \in Import : claims[j] \in Nat BY DEF JobsTyped, Claims
<1>8. \A v \in Worker : wjob[v] = {i} => wtoken[v] <= claims[i] BY DEF Leases
<1>9. Leases'
  <2>1. ASSUME NEW v \in Worker PROVE wpc'[v] = "idle" <=> wjob'[v] = {}
    <3>1. CASE v = w
      <4>1. wpc'[v] = "claimed" /\ i \in wjob'[v] BY <1>5, <3>1
      <4> QED BY <4>1
    <3>2. CASE v # w BY <1>5, <3>2 DEF Leases
    <3> QED BY <3>1, <3>2
  <2>2. \A v \in Worker : wjob'[v] = {} \/ \E j \in Import : wjob'[v] = {j} BY <1>5 DEF Leases
  <2>3. ASSUME NEW v \in Worker, NEW j \in Import, wjob'[v] = {j}
        PROVE  1 <= wtoken'[v] /\ wtoken'[v] <= claims'[j]
    <3>1. CASE v = w
      <4>1. j = i BY <1>5, <2>3, <3>1
      <4> QED BY <1>5, <1>7, <3>1, <4>1
    <3>2. CASE v # w
      <4>1. 1 <= wtoken[v] /\ wtoken[v] <= claims[j] BY <1>5, <2>3, <3>2 DEF Leases
      <4>2. claims[j] <= claims'[j] BY <1>5, <1>7
      <4> QED BY <1>5, <1>6, <1>7, <3>2, <4>1, <4>2
    <3> QED BY <3>1, <3>2
  <2>4. ASSUME NEW u \in Worker, NEW v \in Worker, u # v, wjob'[u] = wjob'[v], wjob'[u] # {}
        PROVE  wtoken'[u] # wtoken'[v]
    <3>1. CASE u = w
      BY <1>5, <1>6, <1>7, <1>8, <2>4, <3>1
    <3>2. CASE v = w
      BY <1>5, <1>6, <1>7, <1>8, <2>4, <3>2
    <3>3. CASE u # w /\ v # w BY <1>5, <2>4, <3>3 DEF Leases
    <3> QED BY <3>1, <3>2, <3>3
  <2> QED BY <2>1, <2>2, <2>3, <2>4 DEF Leases
<1>10. Retries' BY DEF JobsTyped, Retries
<1>11. Named'
  <2>1. wjob[w] = {} BY DEF Leases
  <2>2. saw[w].tracks = {} /\ i \in uploaded BY <2>1 DEF Named, Owned
  <2> QED BY <1>5, <2>2 DEF Named
<1>12. Kept'
  <2>1. \A j \in Import : Whole(j)' => Whole(j) BY DEF Whole
  <2>2. \A j \in Import : \A k \in Playbacks(j) : Mentions(j, k)' => Mentions(j, k)
    BY <1>5 DEF Mentions, On
  <2> QED BY <2>1, <2>2, KeptFrame
<1>13. Stopped'
  <2>1. ASSUME NEW j \in Import, NEW v \in Worker, Working(v, j)' PROVE Working(v, j)
    <3>1. v # w BY <1>5, <2>1 DEF Working
    <3>2. j # i BY <1>5, <1>6, <1>7, <1>8, <2>1, <3>1 DEF Working
    <3> QED BY <1>5, <2>1, <3>1, <3>2 DEF Working
  <2>2. \A j \in Import : Robbed(j)' => Robbed(j) BY DEF Robbed
  <2> QED BY <2>1, <2>2, StoppedFrame
<1> QED BY <1>1, <1>2, <1>3, <1>4, <1>9, <1>10, <1>11, <1>12, <1>13

LEMMA CrashKeepsIInv ==
  ASSUME IInv, NEW w \in Worker, Crash(w)
  PROVE  IInv'
<1> USE DEF IInv, Typed, Crash
<1> HIDE DEF Leave
<1>1. FilesTyped' /\ Owned' /\ Doomed' /\ PublishedPlayable'
  BY FilesFrame DEF FilesTyped
<1>2. SessionTyped' /\ JobsTyped' /\ UserTyped' /\ Retries'
  BY DEF SessionTyped, JobsTyped, UserTyped, Retries
<1>3. WorkTyped' /\ Leases' BY LeaveEffect
<1>4. /\ Named'
      /\ \A i \in Import : \A k \in Playbacks(i) : Mentions(i, k)' => Mentions(i, k)
      /\ \A v \in Worker, i \in Import :
           wjob'[v] = {i} /\ wpc'[v] \notin {"claimed", "failing"}
             => wjob[v] = {i} /\ wpc[v] \notin {"claimed", "failing"} /\ wtoken'[v] = wtoken[v]
  BY LeaveFrame
<1>5. Kept'
  <2>1. \A i \in Import : Whole(i)' => Whole(i) BY DEF Whole
  <2> QED BY <1>4, <2>1, KeptFrame
<1>6. Stopped'
  <2>1. \A i \in Import : Robbed(i)' => Robbed(i) BY DEF Robbed
  <2>2. \A i \in Import : \A v \in Worker : Working(v, i)' => Working(v, i) BY <1>4 DEF Working
  <2> QED BY <2>1, <2>2, StoppedFrame
<1> QED BY <1>1, <1>2, <1>3, <1>4, <1>5, <1>6

LEMMA NoPayloadFacts == NoPayload \in Payload /\ NoPayload.tracks = {}
BY DEF NoPayload, Payload

\* What a worker read, and what the payload says, is of its import and mentioned.
LEMMA ReadFacts ==
  ASSUME IInv, NEW w \in Worker, NEW i \in Import, wjob[w] = {i}
  PROVE  /\ saw[w] \in Payload /\ saw[w].tracks \subseteq Own(i) /\ tracks[i] \subseteq Own(i)
         /\ tracks = [tracks EXCEPT ![i] = tracks[i]]
         /\ \A k \in saw[w].tracks \union tracks[i] \union held[i] : Mentions(i, k)
BY DEF IInv, Typed, SessionTyped, WorkTyped, Named, Mentions

LEMMA FailKeepsIInv ==
  ASSUME IInv, NEW w \in Worker, Fail(w)
  PROVE  IInv'
<1> USE DEF IInv, Typed, Fail, Forget, Reads
<1>1. wpc[w] # "idle" BY DEF WorkTyped
<1>2. PICK i \in Import : wjob[w] = {i} BY <1>1 DEF Leases
<1>3. request' \subseteq Import /\ invalid' \subseteq Import /\ done' \subseteq Import /\ todo' \subseteq Worker
  BY DEF SessionTyped, FilesTyped, WorkTyped
<1>4. UNCHANGED <<status, uploaded, expiry, held, audio, object, discard, unsure, orphan, jobVars, wjob,
                  wtoken, userVars>>
  OBVIOUS
<1>5. wpc' = [wpc EXCEPT ![w] = "failing"] /\ saw' = [saw EXCEPT ![w] = NoPayload] /\ UNCHANGED tracks
  OBVIOUS
<1> HIDE DEF Fail, Forget, Reads, Typed, IInv
<1>6. \A k \in NoPayload.tracks \union tracks[i] : Mentions(i, k) BY <1>2, ReadFacts, NoPayloadFacts
<1>7. tracks[i] \in SUBSET Own(i) /\ tracks' = [tracks EXCEPT ![i] = tracks[i]] BY <1>2, <1>5, ReadFacts
<1>8. NoPayload.tracks \subseteq Own(i) BY NoPayloadFacts
<1> QED BY <1>1, <1>2, <1>3, <1>4, <1>5, <1>6, <1>7, <1>8, NoPayloadFacts, WorkerFrame

\* The steps that read and write the payload.
LEMMA ReadKeepsIInv ==
  ASSUME IInv, NEW w \in Worker, NEW i \in Import,
         Begin(w, i) \/ WritePayload(w, i) \/ Preview(w, i) \/ Load(w, i) \/ Persist(w, i)
  PROVE  IInv'
<1>1. /\ wjob[w] = {i} /\ wpc[w] # "idle"
      /\ UNCHANGED <<status, uploaded, expiry, held, audio, object, discard, unsure, orphan, jobVars, wjob,
                     wtoken, userVars>>
      /\ done' \subseteq Import /\ request' \subseteq Import /\ invalid' \subseteq Import /\ todo' \subseteq Worker
  BY DEF Begin, WritePayload, Preview, Load, Persist, On, Forget, Reads, IInv, Typed, SessionTyped, FilesTyped,
         WorkTyped
<1>2. /\ saw[w] \in Payload /\ saw[w].tracks \subseteq Own(i) /\ tracks[i] \subseteq Own(i)
      /\ tracks = [tracks EXCEPT ![i] = tracks[i]]
      /\ \A k \in saw[w].tracks \union tracks[i] \union held[i] : Mentions(i, k)
  BY <1>1, ReadFacts
<1>3. CASE Begin(w, i)
  <2>1. Source(i) \in held[i] BY <1>3 DEF Begin
  <2>2. PICK pc \in {"covering", "covered"}, payload \in Payload :
          /\ wpc' = [wpc EXCEPT ![w] = pc] /\ saw' = [saw EXCEPT ![w] = payload]
          /\ payload.tracks \in {tracks[i], {}}
    <3>1. CASE Forget(w, "covered") BY <3>1, NoPayloadFacts DEF Forget, Reads
    <3>2. CASE Reads(w, "covering", [request |-> i \in request, invalid |-> i \in invalid, tracks |-> tracks[i]])
      <4>1. [request |-> i \in request, invalid |-> i \in invalid, tracks |-> tracks[i]] \in Payload
        BY DEF Payload, IInv, Typed, SessionTyped
      <4> QED BY <3>2, <4>1 DEF Reads
    <3> QED BY <1>3, <3>1, <3>2 DEF Begin
  <2>3. UNCHANGED tracks BY <1>3 DEF Begin
  <2>4. /\ payload.tracks \subseteq Own(i) /\ tracks[i] \in SUBSET Own(i)
        /\ tracks' = [tracks EXCEPT ![i] = tracks[i]]
        /\ \A k \in payload.tracks \union tracks[i] : Mentions(i, k)
    BY <1>2, <2>2, <2>3
  <2> QED BY <1>1, <2>1, <2>2, <2>4, WorkerFrame
<1>4. CASE WritePayload(w, i) \/ Persist(w, i)
  <2>1. PICK pc \in {"covered", "processed"} : wpc' = [wpc EXCEPT ![w] = pc]
    BY <1>4 DEF WritePayload, Persist, Forget, Reads
  <2>2. /\ wpc[w] \notin {"claimed", "failing"}
        /\ saw' = [saw EXCEPT ![w] = NoPayload] /\ tracks' = [tracks EXCEPT ![i] = saw[w].tracks]
    BY <1>4 DEF WritePayload, Persist, Forget, Reads, On
  <2>3. /\ NoPayload.tracks \subseteq Own(i) /\ saw[w].tracks \in SUBSET Own(i)
        /\ \A k \in NoPayload.tracks \union saw[w].tracks : Mentions(i, k)
    BY <1>2, NoPayloadFacts
  <2> QED BY <1>1, <2>1, <2>2, <2>3, NoPayloadFacts, WorkerFrame
<1>5. CASE Preview(w, i)
  <2>1. PICK pc \in {"encoding", "failing"} : wpc' = [wpc EXCEPT ![w] = pc]
    BY <1>5 DEF Preview
  <2>2. /\ wpc[w] \notin {"claimed", "failing"} /\ saw' = [saw EXCEPT ![w] = saw[w]]
    BY <1>5 DEF Preview, On, IInv, Typed, WorkTyped
  <2>3. File(i) \in Own(i) /\ File(i) \notin Playbacks(i) BY KeyFacts DEF Own
  <2>4. PICK ts \in {tracks[i], {File(i)}} : tracks' = [tracks EXCEPT ![i] = ts]
    BY <1>2, <1>5 DEF Preview
  <2>5. ts \in SUBSET Own(i) /\ \A k \in Playbacks(i) : k \in saw[w].tracks \union ts => Mentions(i, k)
    BY <1>2, <2>3, <2>4
  <2> QED BY <1>1, <1>2, <2>1, <2>2, <2>4, <2>5, WorkerFrame
<1>6. CASE Load(w, i)
  <2>1. PICK payload \in Payload :
          /\ wpc' = [wpc EXCEPT ![w] = "enriching"] /\ saw' = [saw EXCEPT ![w] = payload]
          /\ payload.tracks \subseteq held[i] \intersect Playbacks(i)
    <3> DEFINE payload == [request |-> i \in request, invalid |-> FALSE,
                           tracks |-> IF i \in done THEN held[i] \intersect Playbacks(i) ELSE {}]
    <3>1. payload \in Payload /\ payload.tracks \subseteq held[i] \intersect Playbacks(i)
      BY KeyFacts DEF Payload, Track
    <3> QED BY <1>6, <3>1 DEF Load, Reads
  <2>2. wpc[w] \notin {"claimed", "failing"} /\ UNCHANGED tracks BY <1>6 DEF Load, On
  <2>3. /\ payload.tracks \subseteq Own(i) /\ tracks[i] \in SUBSET Own(i)
        /\ tracks' = [tracks EXCEPT ![i] = tracks[i]]
        /\ \A k \in payload.tracks \union tracks[i] : Mentions(i, k)
    BY <1>2, <2>1, <2>2 DEF Own
  <2> QED BY <1>1, <2>1, <2>2, <2>3, WorkerFrame
<1> QED BY <1>3, <1>4, <1>5, <1>6

\* The object is stored before any row names it, ...
LEMMA StoreKeepsIInv ==
  ASSUME IInv, NEW w \in Worker, NEW i \in Import, Store(w, i)
  PROVE  IInv'
<1> DEFINE k == Playback(i, wtoken[w])
<1>1. k \in Playbacks(i) /\ k \in Key BY KeyFacts DEF IInv, Typed, WorkTyped
<1>2. /\ object' = object \union {k} /\ orphan' = orphan \union {k}
      /\ wpc' = [wpc EXCEPT ![w] = "stored"] /\ wjob[w] = {i} /\ wpc[w] = "encoding"
      /\ UNCHANGED <<sessionVars, held, done, audio, discard, unsure, jobVars, userVars, wjob, wtoken, todo, saw>>
  BY DEF Store, Goto, On
<1> HIDE DEF k
<1> USE DEF IInv, Typed
<1>3. wpc'[w] = "stored" /\ \A v \in Worker : v # w => wpc'[v] = wpc[v] BY <1>2 DEF WorkTyped
<1>4. Typed'
  <2>1. SessionTyped' /\ FilesTyped' BY <1>1, <1>2 DEF SessionTyped, FilesTyped
  <2>2. JobsTyped' /\ WorkTyped' /\ UserTyped' BY <1>2 DEF JobsTyped, WorkTyped, UserTyped
  <2> QED BY <2>1, <2>2
<1>5. Owned' /\ Named' /\ Doomed' /\ Retries' BY <1>2 DEF Owned, Named, Doomed, Retries
<1>6. PublishedPlayable' BY <1>2 DEF PublishedPlayable
<1>7. Leases' BY <1>2, <1>3 DEF Leases
<1>8. Kept'
  <2>1. \A j \in Import : Whole(j)' => Whole(j) BY <1>2 DEF Whole
  <2>2. ASSUME NEW j \in Import, NEW x \in Playbacks(j), Mentions(j, x)' PROVE Mentions(j, x) \/ x \in object'
    <3>1. ASSUME NEW v \in Worker, On(v, j, "stored")', x = Playback(j, wtoken'[v])
          PROVE  Mentions(j, x) \/ x \in object'
      <4>1. CASE v = w
        <5>1. j = i BY <1>2, <3>1, <4>1 DEF On
        <5> QED BY <1>2, <3>1, <4>1, <5>1 DEF k
      <4>2. CASE v # w BY <1>2, <1>3, <3>1, <4>2 DEF On, Mentions
      <4> QED BY <4>1, <4>2
    <3> QED BY <1>2, <2>2, <3>1 DEF Mentions
  <2> QED BY <1>2, <2>1, <2>2, KeptFrame
<1>9. Stopped'
  <2>1. \A j \in Import : Robbed(j)' => Robbed(j) BY <1>2 DEF Robbed
  <2>2. \A j \in Import : \A v \in Worker : Working(v, j)' => Working(v, j) BY <1>2, <1>3 DEF Working
  <2> QED BY <1>2, <2>1, <2>2, StoppedFrame
<1> QED BY <1>4, <1>5, <1>6, <1>7, <1>8, <1>9

\* ... and then replaces what the row named, whose object stays.
LEMMA RecordKeepsIInv ==
  ASSUME IInv, NEW w \in Worker, NEW i \in Import, Record(w, i)
  PROVE  IInv'
<1> DEFINE k == Playback(i, wtoken[w])
<1>1. k \in Playbacks(i) /\ k \in Key /\ Source(i) \notin Playbacks(i) /\ i \in uploaded
  <2>1. i \in uploaded BY DEF Record, On, IInv, Named
  <2> QED BY <2>1, KeyFacts DEF IInv, Typed, WorkTyped
<1>2. /\ held' = [held EXCEPT ![i] = (@ \ Playbacks(i)) \union {k}]
      /\ orphan' = (orphan \union (held[i] \intersect Playbacks(i))) \ {k} /\ done' = done \union {i}
      /\ wpc' = [wpc EXCEPT ![w] = "recorded"] /\ wjob[w] = {i} /\ wpc[w] = "stored"
      /\ UNCHANGED <<sessionVars, audio, object, discard, unsure, jobVars, userVars, wjob, wtoken, todo, saw>>
  BY DEF Record, Goto, On
<1>3. Mentions(i, k) BY <1>2 DEF Mentions, On
<1> HIDE DEF k
<1> USE DEF IInv, Typed
<1>4. wpc'[w] = "recorded" /\ \A v \in Worker : v # w => wpc'[v] = wpc[v] BY <1>2 DEF WorkTyped
<1>5. /\ held'[i] = (held[i] \ Playbacks(i)) \union {k} /\ \A j \in Import : j # i => held'[j] = held[j]
      /\ Source(i) \in held'[i] <=> Source(i) \in held[i]
  BY <1>1, <1>2 DEF FilesTyped
<1>6. Typed'
  <2>1. SessionTyped' /\ FilesTyped' BY <1>1, <1>2 DEF SessionTyped, FilesTyped
  <2>2. JobsTyped' /\ WorkTyped' /\ UserTyped' BY <1>2 DEF JobsTyped, WorkTyped, UserTyped
  <2> QED BY <2>1, <2>2
<1>7. Owned' BY <1>1, <1>2, <1>5 DEF Owned
<1>8. Named' /\ Doomed' /\ PublishedPlayable' /\ Retries' BY <1>2 DEF Named, Doomed, PublishedPlayable, Retries
<1>9. Leases' BY <1>2, <1>4 DEF Leases
<1>10. Kept'
  <2>1. \A j \in Import : Whole(j)' => Whole(j) BY <1>2, <1>5 DEF Whole
  <2>2. ASSUME NEW j \in Import, NEW x \in Playbacks(j), Mentions(j, x)' PROVE Mentions(j, x)
    <3>1. CASE x \in held'[j]
      <4>1. CASE j = i BY <1>3, <1>5, <2>2, <3>1, <4>1
      <4>2. CASE j # i BY <1>5, <3>1, <4>2 DEF Mentions
      <4> QED BY <4>1, <4>2
    <3>2. ASSUME NEW v \in Worker, On(v, j, "stored")', x = Playback(j, wtoken'[v]) PROVE Mentions(j, x)
      <4>1. v # w BY <1>4, <3>2 DEF On
      <4> QED BY <1>2, <1>4, <3>2, <4>1 DEF On, Mentions
    <3> QED BY <1>2, <2>2, <3>1, <3>2 DEF Mentions
  <2> QED BY <1>2, <2>1, <2>2, KeptFrame
<1>11. Stopped'
  <2>1. \A j \in Import : Robbed(j)' => Robbed(j) BY <1>2, <1>5 DEF Robbed
  <2>2. \A j \in Import : \A v \in Worker : Working(v, j)' => Working(v, j) BY <1>2, <1>4 DEF Working
  <2> QED BY <1>2, <2>1, <2>2, StoppedFrame
<1> QED BY <1>6, <1>7, <1>8, <1>9, <1>10, <1>11

\* A worker that still has its lease has not lost the source.
LEMMA CompleteKeepsIInv ==
  ASSUME IInv, NEW w \in Worker, NEW i \in Import, Complete(w, i), Holds(w, i)
  PROVE  IInv'
<1>1. /\ wjob[w] = {i} /\ wpc[w] = "processed" /\ Release(i, "completed") /\ wpc' = [wpc EXCEPT ![w] = "finalizing"]
      /\ status' = [status EXCEPT ![i] = "ready"]
      /\ UNCHANGED <<uploaded, request, invalid, tracks, expiry, fileVars, userVars, wjob, wtoken, todo, saw>>
  BY DEF Complete, Goto, On
<1>2. Working(w, i) /\ i \in uploaded BY <1>1 DEF Working, Holds, IInv, Named
<1>3. /\ JobsTyped' /\ Retries' /\ UNCHANGED claims /\ job'[i] # "running"
      /\ \A j \in Import : j # i => job'[j] = job[j] /\ token'[j] = token[j]
  BY <1>1, ReleaseEffect
<1> USE DEF IInv, Typed
<1>4. /\ wpc'[w] = "finalizing" /\ \A v \in Worker : v # w => wpc'[v] = wpc[v]
      /\ status'[i] = "ready" /\ \A j \in Import : j # i => status'[j] = status[j]
  BY <1>1 DEF WorkTyped, SessionTyped
<1>5. FilesTyped' /\ Owned' /\ Doomed' /\ PublishedPlayable'
  <2>1. orphan' \subseteq Key /\ done' \subseteq Import BY <1>1 DEF FilesTyped
  <2> QED BY <1>1, <1>2, <1>4, <2>1, FilesFrame
<1>6. SessionTyped' /\ WorkTyped' /\ UserTyped' BY <1>1 DEF SessionTyped, WorkTyped, UserTyped
<1>7. Leases' BY <1>1, <1>3, <1>4 DEF Leases
<1>8. Named' BY <1>1, <1>4 DEF Named
<1>9. Kept'
  <2>1. \A j \in Import : Whole(j)' => Whole(j) BY <1>1 DEF Whole
  <2>2. \A j \in Import : \A k \in Playbacks(j) : Mentions(j, k)' => Mentions(j, k)
    BY <1>1, <1>4 DEF Mentions, On
  <2> QED BY <1>1, <2>1, <2>2, KeptFrame
<1>10. Stopped'
  <2>1. \A j \in Import : Robbed(j)' => Robbed(j) /\ j # i BY <1>1, <1>2 DEF Robbed, Stopped
  <2>2. \A j \in Import : j # i => \A v \in Worker : Working(v, j)' => Working(v, j)
    BY <1>1, <1>3, <1>4 DEF Working
  <2> QED BY <1>4, <2>1, <2>2, StoppedFrame
<1> QED BY <1>3, <1>5, <1>6, <1>7, <1>8, <1>9, <1>10

\* A worker that gives up leaves the import queued or in need of attention.
LEMMA RetryKeepsIInv ==
  ASSUME IInv, NEW w \in Worker, NEW i \in Import, Retry(w, i) \/ (Complete(w, i) /\ ~Holds(w, i))
  PROVE  IInv'
<1>1. /\ wjob[w] = {i} /\ Leave(w) /\ UNCHANGED <<uploaded, request, invalid, tracks, fileVars, userVars>>
  BY DEF Retry, Complete, On
<1> USE DEF IInv, Typed
<1>2. /\ SessionTyped' /\ JobsTyped' /\ Retries' /\ UNCHANGED claims
      /\ \A j \in Import : \/ UNCHANGED <<status[j], expiry[j], job[j], token[j]>>
                           \/ status'[j] \in {"active", "attention"} /\ job'[j] # "running" /\ j \in uploaded
  <2>1. CASE UNCHANGED <<status, expiry, jobVars>> BY <1>1, <2>1 DEF SessionTyped, JobsTyped, Retries
  <2>2. ASSUME NEW state \in {"failed"} \union (IF attempts[i] < MaxAttempts THEN {"queued"} ELSE {}),
               Holds(w, i), Release(i, state), NeedsAttention(i) \/ UNCHANGED <<status, expiry>>
        PROVE  /\ SessionTyped' /\ JobsTyped' /\ Retries' /\ UNCHANGED claims
               /\ \A j \in Import : \/ UNCHANGED <<status[j], expiry[j], job[j], token[j]>>
                                    \/ status'[j] \in {"active", "attention"} /\ job'[j] # "running" /\ j \in uploaded
    <3>1. /\ JobsTyped' /\ Retries' /\ UNCHANGED claims /\ job'[i] # "running"
          /\ \A j \in Import : j # i => job'[j] = job[j] /\ token'[j] = token[j]
      BY <2>2, ReleaseEffect
    <3>2. SessionTyped' BY <1>1, <2>2 DEF NeedsAttention, SessionTyped
    <3>3. status[i] = "active" /\ i \in uploaded BY <2>2 DEF Holds, Owned
    <3>4. status'[i] \in {"active", "attention"} /\ \A j \in Import : j # i => UNCHANGED <<status[j], expiry[j]>>
      BY <2>2, <3>3 DEF NeedsAttention, SessionTyped
    <3> QED BY <3>1, <3>2, <3>3, <3>4
  <2>3. ~Spent(i) => attempts[i] < MaxAttempts BY DEF Spent, JobsTyped
  <2> QED BY <2>1, <2>2, <2>3 DEF Retry, Complete
<1>3. FilesTyped' /\ Owned' /\ Doomed' /\ PublishedPlayable'
  <2>1. orphan' \subseteq Key /\ done' \subseteq Import BY <1>1 DEF FilesTyped
  <2>2. \A j \in Import : \/ status'[j] = status[j]
                          \/ status'[j] # "committed" /\ (j \in uploaded \/ status'[j] = "canceled")
    BY <1>2
  <2> QED BY <1>1, <2>1, <2>2, FilesFrame
<1>4. WorkTyped' /\ Leases' BY <1>1, <1>2, LeaveEffect
<1>5. UserTyped' BY <1>1 DEF UserTyped
<1>6. /\ Named'
      /\ \A j \in Import : \A k \in Playbacks(j) : Mentions(j, k)' => Mentions(j, k)
      /\ \A v \in Worker, j \in Import :
           wjob'[v] = {j} /\ wpc'[v] \notin {"claimed", "failing"}
             => wjob[v] = {j} /\ wpc[v] \notin {"claimed", "failing"} /\ wtoken'[v] = wtoken[v]
  <2>1. \A j \in Import : status'[j] = "uploading" => status[j] = "uploading" BY <1>2
  <2> QED BY <1>1, <1>2, <2>1, LeaveFrame
<1>7. Kept'
  <2>1. \A j \in Import : Whole(j)' => Whole(j) BY <1>1 DEF Whole
  <2> QED BY <1>1, <1>6, <2>1, KeptFrame
<1>8. Stopped'
  <2> SUFFICES ASSUME NEW j \in Import, Robbed(j)'
               PROVE  \/ /\ Robbed(j) /\ (status'[j] = "ready" => status[j] = "ready")
                         /\ \A v \in Worker : Working(v, j)' => Working(v, j)
                      \/ status'[j] # "ready" /\ \A v \in Worker : ~Working(v, j)'
    BY StoppedFrame
  <2>1. CASE UNCHANGED <<status[j], expiry[j], job[j], token[j]>>
    BY <1>1, <1>6, <2>1 DEF Robbed, Working
  <2>2. CASE status'[j] \in {"active", "attention"} /\ job'[j] # "running" BY <2>2 DEF Working
  <2> QED BY <1>2, <2>1, <2>2
<1> QED BY <1>2, <1>3, <1>4, <1>5, <1>6, <1>7, <1>8

LEMMA FinalizeKeepsIInv ==
  ASSUME IInv, NEW w \in Worker, NEW i \in Import, Finalize(w, i)
  PROVE  IInv'
<1>1. Leave(w) /\ UNCHANGED <<jobVars, asked>> BY DEF Finalize
<1> USE DEF IInv, Typed
<1>2. /\ SessionTyped' /\ FilesTyped' /\ Owned' /\ Doomed' /\ PublishedPlayable' /\ refusal' \subseteq Import
      /\ UNCHANGED <<tracks, expiry, uploaded, held>> /\ object \subseteq object'
      /\ \A j \in Import : /\ Whole(j)' => Whole(j)
                           /\ Robbed(j)' => Robbed(j)
                           /\ status'[j] # "committed" => status'[j] = status[j]
  <2>1. CASE status[i] = "ready" /\ i \in request
    BY <2>1, TryCommitKeepsFiles DEF Finalize
  <2>2. CASE UNCHANGED <<sessionVars, fileVars, refusal>>
    <3>1. FilesTyped' /\ Owned' /\ Doomed' /\ PublishedPlayable'
      BY <2>2, FilesFrame DEF FilesTyped
    <3> QED BY <2>2, <3>1 DEF SessionTyped, UserTyped, Whole, Robbed
  <2> QED BY <2>1, <2>2 DEF Finalize
<1>3. WorkTyped' /\ Leases' BY <1>1, LeaveEffect
<1>4. JobsTyped' /\ UserTyped' /\ Retries' BY <1>1, <1>2 DEF JobsTyped, UserTyped, Retries
<1>5. /\ Named'
      /\ \A j \in Import : \A k \in Playbacks(j) : Mentions(j, k)' => Mentions(j, k)
      /\ \A v \in Worker, j \in Import :
           wjob'[v] = {j} /\ wpc'[v] \notin {"claimed", "failing"}
             => wjob[v] = {j} /\ wpc[v] \notin {"claimed", "failing"} /\ wtoken'[v] = wtoken[v]
  <2>1. \A j \in Import : status'[j] = "uploading" => status[j] = "uploading" BY <1>2
  <2> QED BY <1>1, <1>2, <2>1, LeaveFrame
<1>6. Kept' BY <1>2, <1>5, KeptFrame
<1>7. Stopped'
  <2>1. \A j \in Import : \A v \in Worker : Working(v, j)' => Working(v, j) BY <1>1, <1>5 DEF Working
  <2>2. \A j \in Import : status'[j] = "ready" => status[j] = "ready" BY <1>2
  <2> QED BY <1>2, <2>1, <2>2, StoppedFrame
<1> QED BY <1>2, <1>3, <1>4, <1>5, <1>6, <1>7

LEMMA StutterKeepsIInv ==
  ASSUME IInv, UNCHANGED vars
  PROVE  IInv'
<1> USE DEF IInv, Typed, vars
<1>1. FilesTyped' /\ Owned' /\ Doomed' /\ PublishedPlayable' BY FilesFrame DEF FilesTyped
<1>2. SessionTyped' /\ JobsTyped' /\ WorkTyped' /\ UserTyped'
  BY DEF SessionTyped, JobsTyped, WorkTyped, UserTyped
<1>3. Named' /\ Leases' /\ Retries' BY DEF Named, Leases, Retries
<1>4. Kept'
  <2>1. \A i \in Import : Whole(i)' => Whole(i) BY DEF Whole
  <2>2. \A i \in Import : \A k \in Playbacks(i) : Mentions(i, k)' => Mentions(i, k) BY DEF Mentions, On
  <2> QED BY <2>1, <2>2, KeptFrame
<1>5. Stopped'
  <2>1. \A i \in Import : Robbed(i)' => Robbed(i) BY DEF Robbed
  <2>2. \A i \in Import : \A w \in Worker : Working(w, i)' => Working(w, i) BY DEF Working
  <2> QED BY <2>1, <2>2, StoppedFrame
<1> QED BY <1>1, <1>2, <1>3, <1>4, <1>5

------------------------------------------------------------------------------
(* Theorems *)

LEMMA NextIInv == IInv /\ [Next]_vars => IInv'
<1> SUFFICES ASSUME IInv, [Next]_vars PROVE IInv'
  OBVIOUS
<1>1. ASSUME NEW i \in Import, Edit(i) PROVE IInv'
  BY <1>1, ArriveKeepsIInv, RequestKeepsIInv, RepairKeepsIInv, CommitKeepsIInv DEF Edit
<1>2. ASSUME NEW i \in Import, Tidy(i) \/ Lapse(i) \/ BecomeDue(i) PROVE IInv'
  BY <1>2, CommitKeepsIInv, CleanKeepsIInv, ClockKeepsIInv DEF Tidy
<1>3. ASSUME NEW k \in Key, DeleteObject(k) PROVE IInv'
  BY <1>3, DeleteKeepsIInv
<1>4. ASSUME NEW w \in Worker, NEW i \in Import, Claim(w, i) \/ Process(w, i) PROVE IInv'
  BY <1>4, ClaimKeepsIInv, ReadKeepsIInv, StoreKeepsIInv, RecordKeepsIInv, CompleteKeepsIInv, RetryKeepsIInv,
     FinalizeKeepsIInv DEF Process
<1>5. ASSUME NEW w \in Worker, NothingToClaim(w) \/ Fail(w) \/ Crash(w) PROVE IInv'
  BY <1>5, FailKeepsIInv, CrashKeepsIInv, StutterKeepsIInv DEF NothingToClaim
<1>6. CASE UNCHANGED vars BY <1>6, StutterKeepsIInv
<1> QED BY <1>1, <1>2, <1>3, <1>4, <1>5, <1>6 DEF Next, Work

\* The inductive invariant holds.
THEOREM IInvHolds == Spec => []IInv
BY InitIInv, NextIInv, PTL DEF Spec

\* The variables have the types of the rows, the store and the workers.
THEOREM Typing == Spec => []TypeOK
<1>1. IInv => TypeOK BY TypedIsTypeOK DEF IInv
<1> QED BY <1>1, IInvHolds, PTL

\* No cleanup, failed commit or late deletion removes the audio an album plays, unless its
\* commit seemed to fail.
THEOREM AlbumsPlay == Spec => []PublishedPlayable
BY IInvHolds, PTL DEF IInv

\* Until its import expires, the processed audio that the tracks of a ready import bring is in
\* the store, whichever worker stored it and whichever wrote the tracks last, so that a commit
\* that failed can be tried again.
THEOREM CommitCanBeRetried == Spec => []ReadyKeepsAudio
<1>1. IInv => ReadyKeepsAudio
  <2> SUFFICES ASSUME IInv, NEW i \in Import, status[i] = "ready", expiry[i] = "set", audio[i] = {},
                      NEW k \in Unpromoted(i)
               PROVE  k \in object
    BY DEF ReadyKeepsAudio
  <2>1. i \in uploaded BY DEF IInv, Owned
  <2>2. Source(i) \in held[i] BY <2>1 DEF IInv, Stopped, Robbed
  <2>3. k \in Playbacks(i) /\ Mentions(i, k) BY UnpromotedFacts
  <2> QED BY <2>2, <2>3 DEF IInv, Kept, Whole
<1> QED BY <1>1, IInvHolds, PTL

\* Of two workers on one import at most one can finish it.
THEOREM OneHolder == Spec => []LeaseExclusive
<1>1. IInv => LeaseExclusive
  <2> SUFFICES ASSUME Leases, NEW i \in Import, NEW v \in Worker, NEW w \in Worker,
                      v # w, wjob[v] = {i}, wjob[w] = {i}
               PROVE  ~(Holds(v, i) /\ Holds(w, i))
    BY DEF IInv, LeaseExclusive
  <2>1. wtoken[v] # wtoken[w] BY DEF Leases
  <2> QED BY <2>1 DEF Holds
<1> QED BY <1>1, IInvHolds, PTL

\* Nothing revives a canceled import.
THEOREM CanceledForGood == Spec => CanceledStays
<1>1. ASSUME IInv, [Next]_vars, NEW i \in Import, status[i] = "canceled"
      PROVE  status'[i] = "canceled"
  <2> USE <1>1
  <2>0. status \in [Import -> {"uploading", "active", "ready", "attention", "committed", "canceled"}]
    BY DEF IInv, Typed, SessionTyped
  <2>1. ASSUME NEW j \in Import, Publish(j) PROVE status' = [status EXCEPT ![j] = "committed"]
    BY <2>1 DEF Publish
  <2>2. ASSUME NEW j \in Import, TryCommit(j), status[j] # "canceled" PROVE status'[i] = status[i]
    BY <2>0, <2>1, <2>2 DEF TryCommit, Unpublished
  <2>3. ASSUME NEW j \in Import, Edit(j) PROVE status'[i] = status[i]
    BY <2>0, <2>2, <2>3
      DEF Edit, Upload, DeleteFile, Arrive, Start, Submit, Cancel, RetryFile, Repair, Commit, Committable, Mark,
          Markable, Queue
  <2>4. ASSUME NEW j \in Import, Tidy(j) \/ Lapse(j) \/ BecomeDue(j) PROVE status'[i] = status[i]
    BY <2>0, <2>2, <2>4
      DEF Tidy, FinalizeReady, Pending, CleanExpired, CleanCommitted, Recover, NeedsAttention, Lapse, BecomeDue
  <2>5. ASSUME NEW k \in Key, DeleteObject(k) PROVE status'[i] = status[i]
    BY <2>5 DEF DeleteObject
  <2>6. ASSUME NEW w \in Worker, NEW j \in Import, Claim(w, j) \/ Process(w, j) PROVE status'[i] = status[i]
    BY <2>0, <2>2, <2>6
      DEF Claim, Process, Begin, WritePayload, Preview, Store, Record, Load, Persist, Complete, Retry, Holds,
          NeedsAttention, Finalize
  <2>7. ASSUME NEW w \in Worker, NothingToClaim(w) \/ Fail(w) \/ Crash(w)
        PROVE  status'[i] = status[i]
    BY <2>7 DEF NothingToClaim, Fail, Crash, vars
  <2>8. CASE UNCHANGED vars BY <2>8 DEF vars
  <2> QED BY <2>3, <2>4, <2>5, <2>6, <2>7, <2>8 DEF Next, Work
<1>2. IInv /\ [Next]_vars => [\A i \in Import : status[i] = "canceled" => status'[i] = "canceled"]_vars
  BY <1>1
<1> QED BY <1>2, IInvHolds, PTL DEF Spec, CanceledStays

\* A registered request is only lost to a worker that read the payload before it.
THEOREM RequestsKept == Spec => RequestKept
<1>1. ASSUME [Next]_vars, NEW i \in request \ request'
      PROVE  \E w \in Worker : On(w, i, "covering") /\ ~saw[w].request
  <2> USE <1>1
  <2>1. ASSUME NEW j \in Import, TryCommit(j) PROVE FALSE
    BY <2>1 DEF TryCommit, Publish, Unpublished
  <2>2. ASSUME NEW j \in Import, Edit(j) PROVE FALSE
    BY <2>1, <2>2
      DEF Edit, Upload, DeleteFile, Arrive, Start, Submit, Cancel, RetryFile, Repair, Commit, Mark
  <2>3. ASSUME NEW j \in Import, Tidy(j) \/ Lapse(j) \/ BecomeDue(j) PROVE FALSE
    BY <2>1, <2>3 DEF Tidy, FinalizeReady, CleanExpired, CleanCommitted, Recover, Lapse, BecomeDue
  <2>4. ASSUME NEW k \in Key, DeleteObject(k) PROVE FALSE
    BY <2>4 DEF DeleteObject
  <2>5. ASSUME NEW w \in Worker, NEW j \in Import, Claim(w, j) \/ Process(w, j)
        PROVE  On(w, i, "covering") /\ ~saw[w].request
    <3>1. CASE WritePayload(w, j) BY <3>1 DEF WritePayload
    <3>2. CASE Persist(w, j) BY <3>2 DEF Persist, Merged
    <3>3. CASE Finalize(w, j) BY <2>1, <3>3 DEF Finalize
    <3>4. CASE Claim(w, j) \/ Begin(w, j) \/ Preview(w, j) \/ Store(w, j) \/ Record(w, j) \/ Load(w, j)
               \/ Complete(w, j) \/ Retry(w, j)
      BY <3>4 DEF Claim, Begin, Preview, Store, Record, Load, Complete, Retry
    <3> QED BY <2>5, <3>1, <3>2, <3>3, <3>4 DEF Process
  <2>6. ASSUME NEW w \in Worker, NothingToClaim(w) \/ Fail(w) \/ Crash(w) PROVE FALSE
    BY <2>6 DEF NothingToClaim, Fail, Crash, vars
  <2>7. ~UNCHANGED vars BY DEF vars
  <2> QED BY <2>2, <2>3, <2>4, <2>5, <2>6, <2>7 DEF Next, Work
<1>2. [Next]_vars => [\A i \in request \ request' : \E w \in Worker : On(w, i, "covering") /\ ~saw[w].request]_vars
  BY <1>1
<1> QED BY <1>2, PTL DEF Spec, RequestKept

------------------------------------------------------------------------------
(* Sessions and jobs agree.  The two tables are written by different        *)
(* operations and read together by the claim; an active session whose job   *)
(* nobody can take, or a job whose session is past it, would stay so.       *)

JobsAgree ==
  \A i \in Import :
    /\ status[i] = "active" <=> job[i] \in {"queued", "running"}
    /\ job[i] = "running" => token[i] # 0
    /\ job[i] = "queued" => attempts[i] < MaxAttempts

AgreeFor(i) ==
  /\ status[i] = "active" <=> job[i] \in {"queued", "running"}
  /\ job[i] = "running" => token[i] # 0

\* A step that writes one import's session and job.
LEMMA OneImport ==
  ASSUME IInv, IInv', JobsAgree, NEW i \in Import, AgreeFor(i)',
         \A j \in Import \ {i} : /\ status'[j] = status[j] /\ job'[j] = job[j]
                                /\ token'[j] = token[j]
  PROVE  JobsAgree'
BY DEF JobsAgree, AgreeFor, IInv, Retries

LEMMA NothingWritten ==
  ASSUME IInv, IInv', JobsAgree, UNCHANGED <<status, job, token>> PROVE JobsAgree'
BY DEF JobsAgree, IInv, Retries

LEMMA QueueAgrees ==
  ASSUME IInv, IInv', JobsAgree, NEW i \in Import, Queue(i) PROVE JobsAgree'
<1>1. AgreeFor(i)' BY DEF Queue, AgreeFor, IInv, Typed, SessionTyped, JobsTyped
<1> QED BY <1>1, OneImport DEF Queue, IInv, Typed, SessionTyped, JobsTyped

\* Commits and their marks move only sessions whose job is over.
LEMMA CommitAgrees ==
  ASSUME IInv, IInv', JobsAgree, NEW i \in Import, UNCHANGED jobVars,
         \/ UNCHANGED status
         \/ /\ status[i] \notin {"active", "uploading"}
            /\ \E s \in {"committed", "attention", "ready"} : status' = [status EXCEPT ![i] = s]
  PROVE  JobsAgree'
<1>1. CASE UNCHANGED status BY <1>1, NothingWritten
<1>2. CASE /\ status[i] # "active"
           /\ \E s \in {"committed", "attention", "ready"} : status' = [status EXCEPT ![i] = s]
  <2>1. AgreeFor(i)' BY <1>2 DEF JobsAgree, AgreeFor, IInv, Typed, SessionTyped
  <2> QED BY <1>2, <2>1, OneImport DEF IInv, Typed, SessionTyped
<1> QED BY <1>1, <1>2

LEMMA TryCommitWrites ==
  ASSUME NEW i \in Import, TryCommit(i)
  PROVE  UNCHANGED status \/ status' = [status EXCEPT ![i] = "committed"]
BY DEF TryCommit, Publish, Unpublished

LEMMA EditAgrees ==
  ASSUME IInv, IInv', JobsAgree, NEW i \in Import, Edit(i) \/ FinalizeReady(i) PROVE JobsAgree'
<1>1. CASE Upload(i) \/ DeleteFile(i) \/ Start(i) \/ Submit(i) \/ RetryFile(i)
  BY <1>1, QueueAgrees, NothingWritten DEF Upload, DeleteFile, Start, Submit, RetryFile
<1>2. CASE Cancel(i)
  <2>1. AgreeFor(i)' BY <1>2 DEF Cancel, AgreeFor, JobsAgree, IInv, Typed, SessionTyped, JobsTyped
  <2> QED BY <1>2, <2>1, OneImport DEF Cancel, IInv, Typed, SessionTyped, JobsTyped
<1>3. CASE Repair(i) BY <1>3, CommitAgrees DEF Repair
<1>4. CASE Commit(i) \/ FinalizeReady(i)
  BY <1>4, TryCommitWrites, CommitAgrees DEF Commit, Committable, FinalizeReady, Pending
<1>5. CASE Mark(i) BY <1>5, CommitAgrees DEF Mark, Markable
<1> QED BY <1>1, <1>2, <1>3, <1>4, <1>5 DEF Edit

\* Every release of a job says what becomes of its session.
LEMMA ReleaseAgrees ==
  ASSUME IInv, IInv', JobsAgree, NEW i \in Import, status[i] = "active",
         \/ Release(i, "queued") /\ UNCHANGED status
         \/ Release(i, "failed") /\ status' = [status EXCEPT ![i] = "attention"]
         \/ Release(i, "completed") /\ status' = [status EXCEPT ![i] = "ready"]
  PROVE  JobsAgree'
<1>1. AgreeFor(i)' BY DEF Release, AgreeFor, IInv, Typed, SessionTyped, JobsTyped
<1> QED BY <1>1, OneImport DEF Release, IInv, Typed, SessionTyped, JobsTyped

LEMMA ProcessAgrees ==
  ASSUME IInv, IInv', JobsAgree, NEW w \in Worker, NEW i \in Import, Claim(w, i) \/ Process(w, i)
  PROVE  JobsAgree'
<1>1. CASE Claim(w, i)
  <2>1. NextToken(i) # 0 BY DEF NextToken, IInv, Typed, JobsTyped, Claims
  <2>2. AgreeFor(i)' BY <1>1, <2>1 DEF Claim, AgreeFor, IInv, Typed, SessionTyped, JobsTyped
  <2> QED BY <1>1, <2>2, OneImport DEF Claim, IInv, Typed, SessionTyped, JobsTyped
<1>2. CASE Complete(w, i)
  BY <1>2, ReleaseAgrees, NothingWritten DEF Complete, Holds
<1>3. CASE Retry(w, i)
  BY <1>3, ReleaseAgrees, NothingWritten DEF Retry, Holds, NeedsAttention
<1>4. CASE Finalize(w, i)
  BY <1>4, TryCommitWrites, CommitAgrees DEF Finalize
<1>5. CASE Begin(w, i) \/ WritePayload(w, i) \/ Preview(w, i) \/ Store(w, i) \/ Record(w, i) \/ Load(w, i)
           \/ Persist(w, i)
  BY <1>5, NothingWritten DEF Begin, WritePayload, Preview, Store, Record, Load, Persist
<1> QED BY <1>1, <1>2, <1>3, <1>4, <1>5 DEF Process

LEMMA StepAgrees == IInv /\ JobsAgree /\ [Next]_vars => JobsAgree'
<1> SUFFICES ASSUME IInv, JobsAgree, [Next]_vars PROVE JobsAgree'
  OBVIOUS
<1>0. IInv' BY NextIInv
<1>1. ASSUME NEW i \in Import, Recover(i) PROVE JobsAgree'
  BY <1>0, <1>1, ReleaseAgrees DEF Recover, NeedsAttention
<1>2. ASSUME NEW i \in Import, CleanExpired(i) \/ CleanCommitted(i) \/ Lapse(i) \/ BecomeDue(i)
      PROVE  JobsAgree'
  BY <1>0, <1>2, NothingWritten DEF CleanExpired, CleanCommitted, Lapse, BecomeDue
<1>3. ASSUME NEW k \in Key, DeleteObject(k) PROVE JobsAgree'
  BY <1>0, <1>3, NothingWritten DEF DeleteObject
<1>4. ASSUME NEW w \in Worker, NothingToClaim(w) \/ Fail(w) \/ Crash(w) PROVE JobsAgree'
  BY <1>0, <1>4, NothingWritten DEF NothingToClaim, Fail, Crash, vars
<1>5. CASE UNCHANGED vars BY <1>0, <1>5, NothingWritten DEF vars
<1> QED BY <1>0, <1>1, <1>2, <1>3, <1>4, <1>5, EditAgrees, ProcessAgrees DEF Next, Work, Tidy

\* The safety half of JobEnds: an active import always has a job, queued with an attempt
\* left or held under a token that can lapse, and no job outlives its import's activity.
THEOREM ActiveHasJob == Spec => []JobsAgree
<1>1. Init => JobsAgree BY DEF Init, JobsAgree
<1> QED BY <1>1, IInvHolds, StepAgrees, PTL DEF Spec

------------------------------------------------------------------------------
(* The refinement of ImportPromise *)

\* Only an import with a cover has its payload written back.
Covered == \A w \in Worker, i \in Import : On(w, i, "covering") => i \in Cover

LEMMA CoveredFrame ==
  ASSUME Covered,
         \A w \in Worker, i \in Import : On(w, i, "covering")' => On(w, i, "covering") \/ i \in Cover
  PROVE  Covered'
BY DEF Covered

LEMMA StepCovered == IInv /\ Covered /\ [Next]_vars => Covered'
<1> SUFFICES ASSUME IInv, Covered, [Next]_vars
             PROVE  \A w \in Worker, i \in Import : On(w, i, "covering")' => On(w, i, "covering") \/ i \in Cover
  BY CoveredFrame
<1> USE DEF IInv, Typed
<1>1. CASE UNCHANGED <<wpc, wjob>> BY <1>1 DEF On
<1>2. ASSUME NEW i \in Import, Edit(i) \/ Tidy(i) \/ Lapse(i) \/ BecomeDue(i) PROVE UNCHANGED <<wpc, wjob>>
  BY <1>2
    DEF Edit, Upload, DeleteFile, Arrive, Start, Submit, Cancel, RetryFile, Repair, Commit, Mark, Tidy,
        FinalizeReady, CleanExpired, CleanCommitted, Recover, Lapse, BecomeDue
<1>3. ASSUME NEW k \in Key, DeleteObject(k) PROVE UNCHANGED <<wpc, wjob>>
  BY <1>3 DEF DeleteObject
<1>4. ASSUME NEW u \in Worker, NothingToClaim(u) \/ Fail(u) \/ Crash(u) \/ \E j \in Import : Claim(u, j) \/ Process(u, j),
             NEW w \in Worker, NEW i \in Import, On(w, i, "covering")'
      PROVE  On(w, i, "covering") \/ i \in Cover
  <2>1. CASE NothingToClaim(u) BY <1>4, <2>1 DEF NothingToClaim, vars, On
  <2>2. CASE Fail(u) \/ Crash(u)
    <3>1. /\ \A v \in Worker : v # u => wpc'[v] = wpc[v] /\ wjob'[v] = wjob[v]
          /\ wpc'[u] # "covering"
      BY <2>2 DEF Fail, Crash, Forget, Reads, Leave, WorkTyped
    <3> QED BY <1>4, <3>1 DEF On
  <2>3. ASSUME NEW j \in Import, Claim(u, j) \/ Process(u, j) PROVE On(w, i, "covering") \/ i \in Cover
    <3>1. CASE Begin(u, j)
      <4>1. /\ \A v \in Worker : v # u => wpc'[v] = wpc[v]
            /\ UNCHANGED wjob /\ wjob[u] = {j} /\ (wpc'[u] = "covering" => j \in Cover)
        BY <3>1 DEF Begin, Forget, Reads, On, WorkTyped
      <4> QED BY <1>4, <4>1 DEF On
    <3>2. CASE ~Begin(u, j)
      <4>1. /\ \A v \in Worker : v # u => wpc'[v] = wpc[v] /\ wjob'[v] = wjob[v]
            /\ wpc'[u] # "covering"
        BY <2>3, <3>2
          DEF Claim, Process, WritePayload, Preview, Store, Record, Load, Persist, Complete, Retry, Finalize,
              Forget, Reads, Goto, Leave, WorkTyped
      <4> QED BY <1>4, <4>1 DEF On
    <3> QED BY <3>1, <3>2
  <2> QED BY <1>4, <2>1, <2>2, <2>3
<1>5. CASE UNCHANGED vars BY <1>1, <1>5 DEF vars
<1> QED BY <1>1, <1>2, <1>3, <1>4, <1>5 DEF Next, Work

LEMMA InitCovered == Init => Covered
BY DEF Init, Covered, On

Keeps == [Promise!PromiseNext]_(Promise!promiseVars)

\* The stage of a session and the state of its job.
Stage(s, j) ==
  CASE s = "uploading" -> "open"
    [] s = "active" -> IF j = "running" THEN "running" ELSE "queued"
    [] s = "canceled" -> "withdrawn"
    [] s = "committed" -> "published"
    [] OTHER -> s

LEMMA StageIs ==
  ASSUME NEW i \in Import
  PROVE  StageOf(i) = Stage(status[i], job[i]) /\ StageOf(i)' = Stage(status'[i], job'[i])
BY DEF StageOf, Stage

LEMMA StageValues ==
  ASSUME NEW j
  PROVE  /\ Stage("uploading", j) = "open" /\ Stage("canceled", j) = "withdrawn"
         /\ Stage("ready", j) = "ready" /\ Stage("attention", j) = "attention"
         /\ Stage("committed", j) = "published"
         /\ Stage("active", j) = IF j = "running" THEN "running" ELSE "queued"
BY DEF Stage

\* A step that writes one import's session and job advances its stage.
LEMMA StageMoves ==
  ASSUME NEW i \in Import, NEW to, Stage(status'[i], job'[i]) = to,
         \A j \in Import : j # i => status'[j] = status[j] /\ job'[j] = job[j]
  PROVE  Promise!Advance(i, to)
<1>1. StageOf(i)' = to BY StageIs
<1>2. \A j \in Import : j # i => StageOf(j)' = StageOf(j) BY StageIs
<1> QED BY <1>1, <1>2 DEF Promise!Advance

LEMMA StageStays ==
  ASSUME \A j \in Import : Stage(status'[j], job'[j]) = Stage(status[j], job[j])
  PROVE  UNCHANGED [i \in Import |-> StageOf(i)]
<1>1. \A j \in Import : StageOf(j)' = StageOf(j) BY StageIs
<1> QED BY <1>1

\* The promise does not see the steps that leave these rows alone.
LEMMA StutterKeeps ==
  ASSUME \A j \in Import : Stage(status'[j], job'[j]) = Stage(status[j], job[j]),
         UNCHANGED <<uploaded, request, invalid, attempts, audio>>
  PROVE  Keeps
<1>1. UNCHANGED [i \in Import |-> StageOf(i)] BY StageStays
<1> QED BY <1>1 DEF Keeps, Promise!promiseVars

LEMMA QueueEnqueues ==
  ASSUME IInv, NEW i \in Import, Queue(i)
  PROVE  Promise!Enqueue(i)
<1>1. Stage(status'[i], job'[i]) = "queued"
  BY StageValues DEF Queue, IInv, Typed, SessionTyped, JobsTyped
<1>2. \A j \in Import : j # i => status'[j] = status[j] /\ job'[j] = job[j]
  BY DEF Queue, IInv, Typed, SessionTyped, JobsTyped
<1>3. Promise!Advance(i, "queued") BY <1>1, <1>2, StageMoves
<1> QED BY <1>3 DEF Promise!Enqueue, Queue

\* The uploads, whether or not their import was submitted.
LEMMA ArriveKeeps ==
  ASSUME IInv, NEW i \in Import, Upload(i) \/ DeleteFile(i)
  PROVE  Keeps
<1>1. StageOf(i) = "open" BY StageIs, StageValues DEF Upload, DeleteFile, Arrive
<1>2. Promise!Complete(i) BY <1>1 DEF Promise!Complete, Upload, DeleteFile, Arrive
<1>3. CASE Upload(i)
  <2>1. Promise!Deliver(i) BY <1>2, <1>3, QueueEnqueues DEF Promise!Deliver, Upload
  <2> QED BY <2>1 DEF Keeps, Promise!PromiseNext
<1>4. CASE DeleteFile(i)
  <2>1. UNCHANGED <<status, job, attempts>> BY <1>4 DEF DeleteFile
  <2>2. Promise!GiveUp(i) BY <1>2, <2>1, StageStays DEF Promise!GiveUp
  <2> QED BY <2>2 DEF Keeps, Promise!PromiseNext
<1> QED BY <1>3, <1>4

\* The uploader's requests.
LEMMA RequestKeeps ==
  ASSUME IInv, NEW i \in Import, Start(i) \/ Submit(i) \/ RetryFile(i)
  PROVE  Keeps
<1> USE DEF IInv, Typed
<1>0. StageOf(i) = Stage(status[i], job[i]) BY StageIs
<1>1. CASE Start(i) \/ RetryFile(i)
  <2>1. StageOf(i) \in {"open", "attention"} /\ i \in uploaded
    BY <1>0, <1>1, StageValues DEF Start, RetryFile
  <2>2. Promise!Enqueue(i) BY <1>1, QueueEnqueues DEF Start, RetryFile
  <2>3. Promise!Start(i) BY <1>1, <2>1, <2>2 DEF Promise!Start, Start, RetryFile
  <2> QED BY <2>3 DEF Keeps, Promise!PromiseNext
<1>2. CASE Submit(i)
  <2>1. StageOf(i) \in {"open", "queued", "running"} /\ (StageOf(i) = "open" <=> status[i] = "uploading")
    BY <1>0, <1>2, StageValues DEF Submit
  <2>2. IF StageOf(i) = "open" /\ i \in uploaded
        THEN Promise!Enqueue(i) ELSE UNCHANGED <<[j \in Import |-> StageOf(j)], attempts>>
    <3>1. CASE status[i] = "uploading" /\ i \in uploaded BY <1>2, <2>1, <3>1, QueueEnqueues DEF Submit
    <3>2. CASE ~(status[i] = "uploading" /\ i \in uploaded) BY <1>2, <2>1, <3>2, StageStays DEF Submit
    <3> QED BY <3>1, <3>2
  <2>3. Promise!Want(i) BY <1>2, <2>1, <2>2 DEF Promise!Want, Submit
  <2> QED BY <2>3 DEF Keeps, Promise!PromiseNext
<1> QED BY <1>1, <1>2

LEMMA OtherEditKeeps ==
  ASSUME IInv, NEW i \in Import, Cancel(i) \/ Repair(i) \/ Mark(i)
  PROVE  Keeps
<1> USE DEF IInv, Typed
<1>0. StageOf(i) = Stage(status[i], job[i]) BY StageIs
<1>1. CASE Cancel(i)
  <2>1. StageOf(i) \notin {"published", "withdrawn"}
    BY <1>0, <1>1, StageValues DEF Cancel, SessionTyped
  <2>2. Promise!Advance(i, "withdrawn")
    <3>1. status'[i] = "canceled" /\ \A j \in Import : j # i => status'[j] = status[j] /\ job'[j] = job[j]
      BY <1>1 DEF Cancel, SessionTyped, JobsTyped
    <3> QED BY <3>1, StageMoves, StageValues
  <2>3. Promise!Withdraw(i) BY <1>1, <2>1, <2>2 DEF Promise!Withdraw, Cancel
  <2> QED BY <2>3 DEF Keeps, Promise!PromiseNext
<1>2. CASE Repair(i)
  <2>1. StageOf(i) = "published" BY <1>0, <1>2, StageValues DEF Repair
  <2>2. Promise!Advance(i, "ready")
    <3>1. status'[i] = "ready" /\ \A j \in Import : j # i => status'[j] = status[j] /\ job'[j] = job[j]
      BY <1>2 DEF Repair, SessionTyped
    <3> QED BY <3>1, StageMoves, StageValues
  <2>3. Promise!Repair(i) BY <1>2, <2>1, <2>2 DEF Promise!Repair, Repair
  <2> QED BY <2>3 DEF Keeps, Promise!PromiseNext
<1>3. CASE Mark(i) /\ Markable(i)
  <2>1. StageOf(i) \in {"ready", "attention"} BY <1>0, <1>3, StageValues DEF Markable
  <2>2. Promise!Advance(i, "attention")
    <3>1. /\ status'[i] = "attention"
          /\ \A j \in Import : j # i => status'[j] = status[j] /\ job'[j] = job[j]
      BY <1>3 DEF Mark, SessionTyped
    <3> QED BY <3>1, StageMoves, StageValues
  <2>3. Promise!Refuse(i) BY <1>3, <2>1, <2>2 DEF Promise!Refuse, Mark
  <2> QED BY <2>3 DEF Keeps, Promise!PromiseNext
<1>4. CASE Mark(i) /\ ~Markable(i) BY <1>4, StutterKeeps DEF Mark
<1> QED BY <1>1, <1>2, <1>3, <1>4

\* A publication makes the album play a fresh copy, or leaves it what it plays.
LEMMA PublishPlays ==
  ASSUME IInv, NEW i \in Import, Publish(i)
  PROVE  \/ \E k \in Key \ (Playbacks(i) \union audio[i]) : audio' = [audio EXCEPT ![i] = {k}]
         \/ audio[i] # {} /\ UNCHANGED audio
<1>1. PICK c \in SUBSET Copy(i) :
        Promoted(i, c) /\ audio' = [audio EXCEPT ![i] = IF c = {} THEN @ ELSE c]
  BY DEF Publish
<1>2. CASE c = {}
  <2>1. UNCHANGED audio BY <1>1, <1>2 DEF IInv, Typed, FilesTyped
  <2>2. audio[i] # {} BY <1>1, <1>2 DEF Promoted
  <2> QED BY <2>1, <2>2
<1>3. CASE c # {}
  <2>1. /\ c \subseteq Key /\ c \intersect audio[i] = {} /\ c \intersect Playbacks(i) = {}
        /\ \E k \in Copy(i) : c = {k}
    BY <1>1, <1>3, FreshCopy
  <2> QED BY <1>1, <1>3, <2>1
<1> QED BY <1>2, <1>3

LEMMA TryCommitKeeps ==
  ASSUME IInv, NEW i \in Import, TryCommit(i), Committable(i), UNCHANGED jobVars
  PROVE  Keeps
<1> USE DEF IInv, Typed
<1>1. CASE Publish(i)
  <2>1. /\ StageOf(i) = "ready" \/ (StageOf(i) = "attention" /\ i \in invalid)
        /\ i \in uploaded
    BY StageIs, StageValues DEF Committable, Owned
  <2>2. Promise!Advance(i, "published")
    <3>1. /\ status'[i] = "committed"
          /\ \A j \in Import : j # i => status'[j] = status[j] /\ job'[j] = job[j]
      BY <1>1 DEF Publish, SessionTyped
    <3> QED BY <3>1, StageMoves, StageValues
  <2>3. UNCHANGED <<uploaded, attempts>> /\ invalid' = invalid \ {i} /\ request' = request \union {i}
    BY <1>1 DEF Publish
  <2>4. [j \in Import |-> Playbacks(j)][i] = Playbacks(i) OBVIOUS
  <2>5. Promise!Publish(i)
    BY <1>1, <2>1, <2>2, <2>3, <2>4, PublishPlays DEF Promise!Publish
  <2> QED BY <2>5 DEF Keeps, Promise!PromiseNext
<1>2. CASE Unpublished(i, {}) \/ Unpublished(i, {i})
  BY <1>2, StutterKeeps DEF Unpublished
<1> QED BY <1>1, <1>2 DEF TryCommit

\* A release of the job of an active import ends its try.
LEMMA ReleaseEnds ==
  ASSUME IInv, NEW i \in Import, status[i] = "active", job[i] = "running",
         \/ Release(i, "failed") /\ status' = [status EXCEPT ![i] = "attention"]
         \/ Release(i, "completed") /\ status' = [status EXCEPT ![i] = "ready"]
         \/ Release(i, "queued") /\ UNCHANGED status /\ attempts[i] < MaxAttempts,
         UNCHANGED <<uploaded, request, invalid, audio>>
  PROVE  Keeps
<1> USE DEF IInv, Typed
<1>1. StageOf(i) = "running" /\ i \in uploaded BY StageIs, StageValues DEF Owned
<1>2. \A j \in Import : j # i => status'[j] = status[j] /\ job'[j] = job[j]
  BY DEF Release, SessionTyped, JobsTyped
<1>3. \/ Promise!Advance(i, "ready") \/ Promise!Advance(i, "attention")
      \/ attempts[i] < MaxAttempts /\ Promise!Advance(i, "queued")
  <2>1. CASE status' = [status EXCEPT ![i] = "attention"]
    <3>1. status'[i] = "attention" BY <2>1 DEF SessionTyped
    <3> QED BY <1>2, <3>1, StageMoves, StageValues
  <2>2. CASE status' = [status EXCEPT ![i] = "ready"]
    <3>1. status'[i] = "ready" BY <2>2 DEF SessionTyped
    <3> QED BY <1>2, <3>1, StageMoves, StageValues
  <2>3. CASE Release(i, "queued") /\ UNCHANGED status /\ attempts[i] < MaxAttempts
    <3>1. status'[i] = "active" /\ job'[i] = "queued" BY <2>3 DEF Release, JobsTyped
    <3>2. Stage(status'[i], job'[i]) = "queued" BY <3>1, StageValues
    <3> QED BY <1>2, <2>3, <3>2, StageMoves
  <2> QED BY <2>1, <2>2, <2>3
<1>4. UNCHANGED attempts BY DEF Release
<1>5. Promise!End(i) BY <1>1, <1>3, <1>4 DEF Promise!End
<1> QED BY <1>5 DEF Keeps, Promise!PromiseNext

LEMMA ClaimKeeps ==
  ASSUME IInv, NEW w \in Worker, NEW i \in Import, Claim(w, i)
  PROVE  Keeps
<1> USE DEF IInv, Typed
<1>1. StageOf(i) = "queued" BY StageIs, StageValues DEF Claim
<1>2. attempts[i] < MaxAttempts BY DEF Claim, Retries
<1>3. Promise!Advance(i, "running")
  <2>1. status'[i] = "active" /\ job'[i] = "running" BY DEF Claim, JobsTyped
  <2>2. \A j \in Import : j # i => status'[j] = status[j] /\ job'[j] = job[j]
    BY DEF Claim, JobsTyped
  <2>3. Stage(status'[i], job'[i]) = "running" BY <2>1, StageValues
  <2> QED BY <2>2, <2>3, StageMoves
<1>4. Promise!Begin(i) BY <1>1, <1>2, <1>3 DEF Promise!Begin, Claim
<1> QED BY <1>4 DEF Keeps, Promise!PromiseNext

\* The cover step may write back a payload from before a request or a refusal.
LEMMA WriteKeeps ==
  ASSUME IInv, Covered, NEW w \in Worker, NEW i \in Import, WritePayload(w, i)
  PROVE  Keeps
<1>1. i \in Cover BY DEF WritePayload, Covered
<1>2. i \in uploaded /\ status[i] # "uploading" BY DEF WritePayload, On, IInv, Named
<1>3. StageOf(i) # "open"
  BY <1>2, StageIs, StageValues DEF IInv, Typed, SessionTyped
<1>4. /\ request' \in {request \union {i}, request \ {i}}
      /\ invalid' \in {invalid \union {i}, invalid \ {i}}
  BY DEF WritePayload
<1>5. UNCHANGED [j \in Import |-> StageOf(j)] BY StageStays DEF WritePayload
<1>6. UNCHANGED <<uploaded, attempts, audio>> BY DEF WritePayload
<1>7. Promise!Overwrite(i) BY <1>1, <1>2, <1>3, <1>4, <1>5, <1>6 DEF Promise!Overwrite
<1> QED BY <1>7 DEF Keeps, Promise!PromiseNext

LEMMA ProcessKeeps ==
  ASSUME IInv, Covered, NEW w \in Worker, NEW i \in Import, Process(w, i)
  PROVE  Keeps
<1> USE DEF IInv, Typed
<1>1. CASE Begin(w, i) \/ Preview(w, i) \/ Store(w, i) \/ Record(w, i) \/ Load(w, i)
  BY <1>1, StutterKeeps DEF Begin, Preview, Store, Record, Load
<1>2. CASE Persist(w, i)
  <2>1. UNCHANGED request BY <1>2 DEF Persist, Merged
  <2> QED BY <1>2, <2>1, StutterKeeps DEF Persist
<1>3. CASE Complete(w, i)
  BY <1>3, ReleaseEnds, StutterKeeps DEF Complete, Holds
<1>4. CASE Retry(w, i)
  <2>1. ~Spent(i) => attempts[i] < MaxAttempts BY DEF Spent, JobsTyped
  <2> QED BY <1>4, <2>1, ReleaseEnds, StutterKeeps DEF Retry, Holds, NeedsAttention
<1>5. CASE Finalize(w, i)
  <2>1. CASE status[i] = "ready" /\ i \in request
    BY <1>5, <2>1, TryCommitKeeps DEF Finalize, Committable
  <2>2. CASE ~(status[i] = "ready" /\ i \in request)
    BY <1>5, <2>2, StutterKeeps DEF Finalize
  <2> QED BY <2>1, <2>2
<1> QED BY <1>1, <1>2, <1>3, <1>4, <1>5, WriteKeeps DEF Process

LEMMA StepKeeps == IInv /\ Covered /\ [Next]_vars => Keeps
<1> SUFFICES ASSUME IInv, Covered, [Next]_vars PROVE Keeps
  OBVIOUS
<1>1. ASSUME NEW i \in Import, Commit(i) \/ FinalizeReady(i) PROVE Keeps
  BY <1>1, TryCommitKeeps DEF Commit, FinalizeReady, Pending, Committable
<1>2. ASSUME NEW i \in Import, Edit(i) PROVE Keeps
  BY <1>1, <1>2, ArriveKeeps, RequestKeeps, OtherEditKeeps DEF Edit
<1>3. ASSUME NEW i \in Import, Recover(i) PROVE Keeps
  BY <1>3, ReleaseEnds DEF Recover, NeedsAttention
<1>4. ASSUME NEW i \in Import, CleanExpired(i) \/ CleanCommitted(i) \/ Lapse(i) \/ BecomeDue(i)
      PROVE  Keeps
  BY <1>4, StutterKeeps DEF CleanExpired, CleanCommitted, Lapse, BecomeDue
<1>5. ASSUME NEW w \in Worker, NothingToClaim(w) \/ Fail(w) \/ Crash(w) PROVE Keeps
  BY <1>5, StutterKeeps DEF NothingToClaim, Fail, Crash, vars
<1>6. ASSUME NEW k \in Key, DeleteObject(k) PROVE Keeps
  BY <1>6, StutterKeeps DEF DeleteObject
<1>7. CASE UNCHANGED vars BY <1>7, StutterKeeps DEF vars
<1> QED
  BY <1>1, <1>2, <1>3, <1>4, <1>5, <1>6, <1>7, ClaimKeeps, ProcessKeeps DEF Next, Work, Tidy

LEMMA InitKeeps == Init => Promise!PromiseInit
<1> SUFFICES ASSUME Init PROVE Promise!PromiseInit
  OBVIOUS
<1>1. PICK old \in SUBSET Legacy :
        /\ status = [i \in Import |-> IF i \in old THEN "committed" ELSE "uploading"]
        /\ uploaded = old /\ request = old
        /\ audio = [i \in Import |-> IF i \in old THEN {Playback(i, 1)} ELSE {}]
        /\ attempts = [i \in Import |-> IF i \in old THEN 1 ELSE 0]
  BY DEF Init
<1>2. [i \in Import |-> StageOf(i)] = [i \in Import |-> IF i \in old THEN "published" ELSE "open"]
  <2>1. \A i \in Import : StageOf(i) = IF i \in old THEN "published" ELSE "open"
    BY <1>1, StageIs, StageValues
  <2> QED BY <2>1
<1> DEFINE first == [i \in Import |-> Playback(i, 1)]
<1>3. 1 \in Claims BY DEF Claims
<1>4. \A i \in Import : Playback(i, 1) \in Playbacks(i) /\ Playback(i, 1) \in Key BY <1>3, KeyFacts
<1>5. first \in [Import -> Key] BY <1>4
<1>6. \A i \in old : first[i] \in [j \in Import |-> Playbacks(j)][i] BY <1>4
<1>7. audio = [i \in Import |-> IF i \in old THEN {first[i]} ELSE {}] BY <1>1
<1>8. invalid = {} BY DEF Init
<1> HIDE DEF first
<1> QED BY <1>1, <1>2, <1>5, <1>6, <1>7, <1>8 DEF Promise!PromiseInit

\* Every run of the pipeline, seen through sessions, jobs and albums, is one of ImportPromise:
\* only a running try makes an import ready, what is canceled stays so, and only a
\* publication changes what an album plays, to audio that is not the import's own.
THEOREM ImportKeepsPromise == Spec => KeepsPromise
<1>1. IInv /\ Covered /\ [Next]_vars => [Promise!PromiseNext]_(Promise!promiseVars)
  BY StepKeeps DEF Keeps
<1>2. Spec => []Covered
  BY IInvHolds, InitCovered, StepCovered, PTL DEF Spec
<1> QED
  BY <1>1, <1>2, InitKeeps, IInvHolds, PTL DEF Spec, KeepsPromise, Promise!PromiseSpec
==============================================================================
