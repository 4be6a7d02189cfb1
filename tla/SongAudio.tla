------------------------------ MODULE SongAudio ------------------------------
(***************************************************************************)
(* Replacing the audio of a song (internal/modules/music).  A request      *)
(* queues a job that names an upload; a worker claims it under a fresh     *)
(* lease, copies the upload to a key of its own, switches the song to the  *)
(* copy in one transaction and then consumes the upload.  A lease may pass *)
(* to another worker after fifteen minutes while the first still works.    *)
(* Objects are deleted through CleanupPromise.                             *)
(***************************************************************************)
EXTENDS Naturals, FiniteSets

CONSTANTS
  Song, Asset, \* a song stands for the key of its first audio, an asset for its upload's
  Job, Worker,
  MaxClaim     \* bound on the claims of each job

Copy == UNION {{j} \X (1 .. MaxClaim[j]) : j \in Job}
Key == Song \union Asset \union Copy

ASSUME AudioAssumption ==
  /\ MaxClaim \in [Job -> Nat \ {0}]
  /\ Song \intersect Asset = {} /\ (Song \union Asset) \intersect Copy = {}

VARIABLES
  live, past,  \* each song's audio_url, and those its revisions name
  editable,    \* the songs whose entry is open for edits
  status, jsong, jasset, \* the jobs; jsong and jasset are {} before the request
  lease, stale,          \* locked_by, as the number of the claim; started_at is 15 minutes old
  assetRow,    \* the MediaAsset rows
  object, condemned,     \* see CleanupPromise
  wpc, wjob, wlease,     \* each worker, its job and claim
  switched,    \* history: how often a job switched its song's audio
  unsure       \* history: copies switched to although the worker saw an error

audioVars == <<live, past, editable>>
jobVars == <<status, jsong, jasset, lease, stale>>
storeVars == <<object, condemned>>
workVars == <<wpc, wjob, wlease>>
histVars == <<switched, unsure>>
vars == <<audioVars, jobVars, assetRow, storeVars, workVars, histVars>>

Cleanup == INSTANCE CleanupPromise

TypeOK ==
  /\ live \in [Song -> Key] /\ past \in [Song -> SUBSET Key]
  /\ \A s \in Song : live[s] \in past[s]
  /\ editable \subseteq Song
  /\ status \in [Job -> {"none", "pending", "processing", "completed", "failed"}]
  /\ jsong \in [Job -> SUBSET Song] /\ jasset \in [Job -> SUBSET Asset]
  /\ lease \in [Job -> Nat] /\ stale \in [Job -> BOOLEAN]
  /\ assetRow \subseteq Asset
  /\ object \subseteq Key /\ condemned \subseteq Key
  /\ wpc \in [Worker -> {"idle", "claimed", "copied", "applied", "refused", "failing", "consumed"}]
  /\ wjob \in [Worker -> SUBSET Job] /\ wlease \in [Worker -> Nat]
  /\ switched \in [Job -> Nat] /\ unsure \subseteq Copy

Init ==
  /\ live = [s \in Song |-> s] /\ past = [s \in Song |-> {s}] /\ editable = Song
  /\ status = [j \in Job |-> "none"]
  /\ jsong = [j \in Job |-> {}] /\ jasset = [j \in Job |-> {}]
  /\ lease = [j \in Job |-> 0] /\ stale = [j \in Job |-> FALSE]
  /\ assetRow = Asset /\ object = Song \union Asset /\ condemned = {}
  /\ wpc = [w \in Worker |-> "idle"] /\ wjob = [w \in Worker |-> {}]
  /\ wlease = [w \in Worker |-> 0] /\ switched = [j \in Job |-> 0]
  /\ unsure = {}

------------------------------------------------------------------------------
(* Requests, and edits of the song beside its jobs *)

\* createSongAudioReplacement: nothing keeps two jobs from naming the same upload.
Request(j, s, a) ==
  /\ status[j] = "none" /\ s \in editable /\ a \in assetRow
  /\ status' = [status EXCEPT ![j] = "pending"]
  /\ jsong' = [jsong EXCEPT ![j] = {s}] /\ jasset' = [jasset EXCEPT ![j] = {a}]
  /\ UNCHANGED <<audioVars, lease, stale, assetRow, storeVars, workVars, histVars>>

\* Another edit reverts the song to the audio of one of its revisions.
Revert(s) ==
  /\ s \in editable
  /\ \E k \in past[s] \ {live[s]} : live' = [live EXCEPT ![s] = k]
  /\ UNCHANGED <<past, editable, jobVars, assetRow, storeVars, workVars, histVars>>

\* The entry is closed for edits, or opened again.
ToggleEditable(s) ==
  /\ editable' = IF s \in editable THEN editable \ {s} ELSE editable \union {s}
  /\ UNCHANGED <<live, past, jobVars, assetRow, storeVars, workVars, histVars>>

------------------------------------------------------------------------------
(* runSongAudioReplacementOnce *)

Goto(w, pc) == wpc' = [wpc EXCEPT ![w] = pc] /\ UNCHANGED <<wjob, wlease>>
Leave(w) ==
  /\ wpc' = [wpc EXCEPT ![w] = "idle"] /\ wjob' = [wjob EXCEPT ![w] = {}]
  /\ wlease' = [wlease EXCEPT ![w] = 0]

\* Fault: a job whose worker died is never taken again.
ClaimableOnce(j) == status[j] = "pending"
\* Fault: a job is taken for its age, whatever its status.
ClaimableAged(j) == status[j] = "pending" \/ stale[j]
Claimable(j) == status[j] = "pending" \/ (status[j] = "processing" /\ stale[j])

\* Find a candidate and take it, if it is still claimable, under a fresh token.
Claim(w, j) ==
  /\ wpc[w] = "idle" /\ Claimable(j) /\ lease[j] < MaxClaim[j]
  /\ status' = [status EXCEPT ![j] = "processing"]
  /\ lease' = [lease EXCEPT ![j] = @ + 1] /\ stale' = [stale EXCEPT ![j] = FALSE]
  /\ wpc' = [wpc EXCEPT ![w] = "claimed"] /\ wjob' = [wjob EXCEPT ![w] = {j}]
  /\ wlease' = [wlease EXCEPT ![w] = lease[j] + 1]
  /\ UNCHANGED <<audioVars, jsong, jasset, assetRow, storeVars, histVars>>

\* Fault: the destination carries no uuid, so a later claim of the job copies to it too.
DestinationOfJob(w, j) == <<j, 1>>
Destination(w, j) == <<j, wlease[w]>>

\* PromoteMusicUploadAsset: the upload's row and object must be there; the copy may be
\* made although the store reports a failure.
Promote(w, j) ==
  /\ wpc[w] = "claimed" /\ wjob[w] = {j}
  /\ \/ /\ jasset[j] \subseteq assetRow \intersect object
        /\ object' = object \union {Destination(w, j)} /\ UNCHANGED condemned
        /\ Goto(w, "copied") \/ Goto(w, "failing")
     \/ Goto(w, "failing") /\ UNCHANGED storeVars
  /\ UNCHANGED <<audioVars, jobVars, assetRow, histVars>>

\* Fault: the job is taken by its id alone.
HoldsId(w, j) == TRUE
Holds(w, j) == status[j] = "processing" /\ lease[j] = wlease[w]

Revised(j) == jsong[j]

\* ApplySongAudioReplacement: one transaction makes the revision, switches the song and
\* completes the job; its caller may see an error all the same.
Apply(w, j) ==
  /\ wpc[w] = "copied" /\ wjob[w] = {j}
  /\ Holds(w, j) /\ jsong[j] \subseteq editable
  /\ live' = [s \in Song |-> IF s \in jsong[j] THEN Destination(w, j) ELSE live[s]]
  /\ past' = [s \in Song |-> IF s \in Revised(j) THEN past[s] \union {Destination(w, j)} ELSE past[s]]
  /\ status' = [status EXCEPT ![j] = "completed"]
  /\ switched' = [switched EXCEPT ![j] = @ + 1]
  /\ \/ Goto(w, "applied") /\ UNCHANGED unsure
     \/ Goto(w, "refused") /\ unsure' = unsure \union {Destination(w, j)}
  /\ UNCHANGED <<editable, jsong, jasset, lease, stale, assetRow, storeVars>>

\* The job or the song is not as the transaction wants it, or the database fails.
ApplyRefused(w) ==
  /\ wpc[w] = "copied"
  /\ Goto(w, "refused")
  /\ UNCHANGED <<audioVars, jobVars, assetRow, storeVars, histVars>>

\* DeleteMusicObjects: deleted, owed to the cleanup queue, or lost if that fails too.
Discard(K) ==
  \E k \in K : Cleanup!Delete(k) \/ Cleanup!Condemn(k) \/ UNCHANGED storeVars

\* Fault: the upload is thrown away together with its copy.
LeftoversBoth(w, j) == {Destination(w, j)} \union jasset[j]
Leftovers(w, j) == {Destination(w, j)}

DropCopy(w, j) ==
  /\ wpc[w] = "refused" /\ wjob[w] = {j}
  /\ Discard(Leftovers(w, j))
  /\ Goto(w, "failing")
  /\ UNCHANGED <<audioVars, jobVars, assetRow, histVars>>

\* failSongAudioReplacement
Fail(w, j) ==
  /\ wpc[w] = "failing" /\ wjob[w] = {j}
  /\ \/ Holds(w, j) /\ status' = [status EXCEPT ![j] = "failed"]
     \/ UNCHANGED status
  /\ Leave(w)
  /\ UNCHANGED <<audioVars, jsong, jasset, lease, stale, assetRow, storeVars, histVars>>

\* The upload's row goes first; if that fails its object stays.
Consume(w, j) ==
  /\ wpc[w] = "applied" /\ wjob[w] = {j}
  /\ \/ assetRow' = assetRow \ jasset[j] /\ (Goto(w, "consumed") \/ Leave(w))
     \/ UNCHANGED assetRow /\ Leave(w)
  /\ UNCHANGED <<audioVars, jobVars, storeVars, histVars>>

DropSource(w, j) ==
  /\ wpc[w] = "consumed" /\ wjob[w] = {j}
  /\ Discard(jasset[j])
  /\ Leave(w)
  /\ UNCHANGED <<audioVars, jobVars, assetRow, histVars>>

Crash(w) ==
  /\ wpc[w] # "idle"
  /\ Leave(w)
  /\ UNCHANGED <<audioVars, jobVars, assetRow, storeVars, histVars>>

------------------------------------------------------------------------------
(* The cleanup queue, and the clock *)

CleanUp(k) ==
  /\ k \in condemned
  /\ Cleanup!Delete(k) \/ Cleanup!Forget(k)
  /\ UNCHANGED <<audioVars, jobVars, assetRow, workVars, histVars>>

Age(j) ==
  /\ status[j] = "processing" /\ ~stale[j]
  /\ stale' = [stale EXCEPT ![j] = TRUE]
  /\ UNCHANGED <<audioVars, status, jsong, jasset, lease, assetRow, storeVars, workVars, histVars>>

------------------------------------------------------------------------------
Work(w, j) ==
  \/ Promote(w, j) \/ Apply(w, j) \/ DropCopy(w, j) \/ Fail(w, j)
  \/ Consume(w, j) \/ DropSource(w, j)

Next ==
  \/ \E j \in Job : Age(j) \/ \E s \in Song, a \in Asset : Request(j, s, a)
  \/ \E s \in Song : Revert(s) \/ ToggleEditable(s)
  \/ \E w \in Worker : Crash(w) \/ ApplyRefused(w) \/ \E j \in Job : Claim(w, j) \/ Work(w, j)
  \/ \E k \in Key : CleanUp(k)

Spec == Init /\ [][Next]_vars

\* The import worker's loop runs the oldest claimable job again and again; a claimed
\* job stops being young after fifteen minutes; a failure is written down at last.
FairSpec ==
  /\ Spec
  /\ \A w \in Worker : WF_vars(ApplyRefused(w) \/ \E j \in Job : Work(w, j))
  /\ \A j \in Job :
       /\ WF_vars(Age(j))
       /\ SF_vars(\E w \in Worker : Claim(w, j))
       /\ SF_vars(\E w \in Worker : Fail(w, j) /\ status'[j] = "failed")

------------------------------------------------------------------------------
(* Properties *)

\* "A switch is atomic, a failure keeps the original audio" (http_catalog_v2.go): no
\* worker deletes the audio of a song or of one of its revisions, neither its own copy
\* when it is refused nor that of the worker that took its job over.  The exception is
\* a copy whose switch was committed while its worker was told otherwise.
RevisionsPlayable == \A s \in Song : past[s] \subseteq object \union unsure

\* A job switches its song at most once however often it is claimed, and its status
\* says whether it did: completed if so, failed only if not.
StatusTellsTruth ==
  \A j \in Job :
    /\ status[j] = "completed" <=> switched[j] = 1
    /\ status[j] # "completed" => switched[j] = 0

\* An upload is given up only after a job that named it has switched its song: a
\* refused or failed replacement can be asked for again.
UploadSurvives ==
  \A a \in Asset \ (assetRow \intersect object) :
    \E j \in Job : jasset[j] = {a} /\ status[j] = "completed"

\* What the cleanup queue asks for in return: no copy is written under a key whose
\* deletion is owed.
NoCondemnedWrite == Cleanup!Spec

\* A request is answered in the end, though the workers that take it may die.
EveryJobEnds ==
  \A j \in Job : status[j] = "pending" ~>
    status[j] \in {"completed", "failed"} \/ lease[j] = MaxClaim[j]

------------------------------------------------------------------------------
(* Replacement implements AudioPromise *)

StageOf == [none |-> "absent", pending |-> "asked", processing |-> "asked",
            completed |-> "switched", failed |-> "refused"]

Promise == INSTANCE AudioPromise
             WITH stage <- [j \in Job |-> StageOf[status[j]]], song <- jsong, upload <- jasset,
                  open <- editable, spare <- assetRow \intersect object

\* "A switch is atomic, a failure keeps the original audio" (http_catalog_v2.go): whatever
\* claims pass from worker to worker and whoever dies, a song sees each replacement once
\* and whole, or not at all, and one that did not happen can be asked for again.
KeepsPromise == Promise!PromiseSpec
==============================================================================
