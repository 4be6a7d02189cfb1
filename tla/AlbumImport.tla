----------------------------- MODULE AlbumImport -----------------------------
(***************************************************************************)
(* The album import pipeline (internal/modules/music): a session collects  *)
(* uploads, a worker processes them under a lease, and a commit publishes  *)
(* the result by copying the playback audio to keys of the album.  Every   *)
(* operation locks the session row, except the processor's cover step.     *)
(* The uploads of a session stand for one source object, and each          *)
(* processing of them stores one playback object under a key of its own.   *)
(***************************************************************************)
EXTENDS Naturals, FiniteSets

CONSTANTS
  Import, Worker,
  Legacy,      \* imports that may date from before copies were made: their albums play the
               \* import's own object
  Cover,       \* imports that bring a cover image
  MaxAttempts, \* claims of a job before it fails
  MaxClaim,    \* bound on the claims of an import over all its retries
  MaxRequest,  \* bound on the requests of users to commit an import
  CopyName,    \* the names for copies of an import's audio; one is reused once it is free
  MaxDoomed    \* bound on the objects that await their deletion when a copy is made

ASSUME ImportAssumption ==
  /\ Legacy \subseteq Import /\ Cover \subseteq Import
  /\ CopyName \intersect {"source", "file"} = {}
  /\ MaxAttempts \in Nat \ {0} /\ MaxClaim \in Nat \ {0} /\ MaxRequest \in Nat \ {0}
  /\ MaxDoomed \in Nat \ {0}

Claims == 0 .. MaxClaim

Source(i) == <<i, "source">>
\* mediaPlaybackKey: a new key whenever the audio is processed, which a claim does once.
Playback(i, c) == <<i, "playback", c>>
Playbacks(i) == {Playback(i, c) : c \in Claims}
Copy(i) == {i} \X CopyName
Key == UNION {{Source(i)} \union Playbacks(i) \union Copy(i) : i \in Import}

\* A track names a key or, before its audio is processed, only the file it comes from.
File(i) == <<i, "file">>
Track == Key \union {File(i) : i \in Import}
\* What a worker keeps of a session's payload, or of its files' rows.
Payload == [request : BOOLEAN, invalid : BOOLEAN, tracks : SUBSET Track]
NoPayload == [request |-> FALSE, invalid |-> FALSE, tracks |-> {}]

VARIABLES
  status, uploaded,   \* the session, and whether its uploads are complete
  request, invalid, tracks, \* in its payload: whether it has a commit_request and
                      \* commit_validation_failed, and the audio that derived_tracks name
  expiry,             \* expires_at: "none", "set" or "due"
  held, done,         \* source_key and playback_key of its files, and whether their
                      \* processing_status is completed
  audio,              \* what the album's songs play; {} before there is an album
  job, attempts, token, stale, \* the job; token is the claim that holds it, 0 when nobody does
  claims, asked,      \* the claims and the requests made so far
  object,             \* the object store
  discard,            \* keys a handler is about to delete once its transaction is over
  refusal,            \* refused commits that are yet to be marked on their session
  wpc, wjob, wtoken,  \* each worker, its import and claim
  todo, saw,          \* the workers whose files were still to be processed, and what each read
  unsure,             \* history: copies published although the caller saw an error
  orphan              \* history: playback objects that no row names yet, or any more

sessionVars == <<status, uploaded, request, invalid, tracks, expiry>>
fileVars == <<held, done, audio, object, discard, unsure, orphan>>
jobVars == <<job, attempts, token, stale, claims>>
workVars == <<wpc, wjob, wtoken, todo, saw>>
userVars == <<asked, refusal>>
vars == <<sessionVars, fileVars, jobVars, workVars, userVars>>

TypeOK ==
  /\ status \in [Import -> {"uploading", "active", "ready", "attention", "committed", "canceled"}]
  /\ uploaded \subseteq Import /\ request \subseteq Import /\ invalid \subseteq Import
  /\ expiry \in [Import -> {"none", "set", "due"}]
  /\ tracks \in [Import -> SUBSET Track] /\ held \in [Import -> SUBSET Key] /\ done \subseteq Import
  /\ audio \in [Import -> SUBSET Key]
  /\ job \in [Import -> {"none", "queued", "running", "completed", "failed", "canceled"}]
  /\ attempts \in [Import -> 0 .. MaxAttempts] /\ token \in [Import -> Claims]
  /\ stale \subseteq Import /\ claims \in [Import -> Claims] /\ asked \in [Import -> 0 .. MaxRequest]
  /\ object \subseteq Key /\ discard \subseteq Key /\ refusal \subseteq Import
  /\ wpc \in [Worker -> {"idle", "claimed", "covering", "covered", "encoding", "stored",
                         "recorded", "enriching", "processed", "failing", "finalizing"}]
  /\ wjob \in [Worker -> SUBSET Import] /\ wtoken \in [Worker -> Claims]
  /\ todo \subseteq Worker /\ saw \in [Worker -> Payload]
  /\ unsure \subseteq Key /\ orphan \subseteq Key
  /\ \A i \in Import : job[i] # "running" => token[i] = 0

Init ==
  /\ \E old \in SUBSET Legacy :
       /\ status = [i \in Import |-> IF i \in old THEN "committed" ELSE "uploading"]
       /\ uploaded = old /\ done = old /\ request = old
       /\ held = [i \in Import |-> IF i \in old THEN {Source(i), Playback(i, 1)} ELSE {}]
       /\ audio = [i \in Import |-> IF i \in old THEN {Playback(i, 1)} ELSE {}] /\ tracks = audio
       /\ job = [i \in Import |-> IF i \in old THEN "completed" ELSE "none"]
       /\ claims = [i \in Import |-> IF i \in old THEN 1 ELSE 0] /\ attempts = claims
       /\ object = UNION {held[i] : i \in Import}
  /\ invalid = {} /\ expiry = [i \in Import |-> "set"]
  /\ token = [i \in Import |-> 0] /\ stale = {}
  /\ asked = [i \in Import |-> 0]
  /\ discard = {} /\ refusal = {} /\ unsure = {} /\ orphan = {}
  /\ wpc = [w \in Worker |-> "idle"] /\ wjob = [w \in Worker |-> {}]
  /\ wtoken = [w \in Worker |-> 0] /\ todo = {} /\ saw = [w \in Worker |-> NoPayload]

------------------------------------------------------------------------------
(* The uploader *)

\* queueAlbumImportSession: the session becomes active and its job starts afresh;
\* expires_at stays what it was.
Queue(i) ==
  /\ status' = [status EXCEPT ![i] = "active"]
  /\ job' = [job EXCEPT ![i] = "queued"] /\ attempts' = [attempts EXCEPT ![i] = 0]
  /\ token' = [token EXCEPT ![i] = 0] /\ stale' = stale \ {i}
  /\ UNCHANGED claims

\* The uploads of the session become complete ...
Arrive(i) ==
  /\ status[i] = "uploading" /\ i \notin uploaded
  /\ uploaded' = uploaded \union {i}
  /\ held' = [held EXCEPT ![i] = @ \union {Source(i)}] /\ object' = object \union {Source(i)}
  /\ UNCHANGED <<request, invalid, tracks, expiry, done, audio, discard, unsure, orphan, workVars,
                 userVars>>

\* ... as CompleteAlbumImportFile completes the last of them, which queues the session, ...
Upload(i) == Arrive(i) /\ Queue(i)

\* ... or as DeleteAlbumImportFile removes the last that was not complete, which does not.
DeleteFile(i) == Arrive(i) /\ UNCHANGED <<status, jobVars>>

\* CompleteAlbumImportSession, and ReconcileUploadedSessions for a session without a job.
Start(i) ==
  /\ status[i] = "uploading" /\ i \in uploaded
  /\ Queue(i)
  /\ UNCHANGED <<uploaded, request, invalid, tracks, expiry, fileVars, workVars, userVars>>

\* CommitAlbumImportSession before the session is ready registers the request.
Submit(i) ==
  /\ status[i] \in {"uploading", "active"} /\ asked[i] < MaxRequest
  /\ asked' = [asked EXCEPT ![i] = @ + 1] /\ request' = request \union {i}
  /\ IF status[i] = "uploading" /\ i \in uploaded THEN Queue(i) ELSE UNCHANGED <<status, jobVars>>
  /\ UNCHANGED <<uploaded, invalid, tracks, expiry, fileVars, workVars, refusal>>

\* Fault: a canceled session expires when it would have anyway.
CanceledExpiryKept(i) == expiry[i]
CanceledExpiry(i) == "set"

\* CancelAlbumImportSession: the job loses its lease with its status.
Cancel(i) ==
  /\ status[i] \notin {"committed", "canceled"}
  /\ status' = [status EXCEPT ![i] = "canceled"]
  /\ expiry' = [expiry EXCEPT ![i] = CanceledExpiry(i)]
  /\ job' = [job EXCEPT ![i] = IF @ = "none" THEN @ ELSE "canceled"]
  /\ token' = [token EXCEPT ![i] = 0] /\ stale' = stale \ {i}
  /\ UNCHANGED <<uploaded, request, invalid, tracks, fileVars, attempts, claims, workVars, userVars>>

\* RetryAlbumImportFile: an import that needs attention is queued again; its audio is
\* processed again if that is the file that is retried.
RetryFile(i) ==
  /\ status[i] = "attention" /\ i \in uploaded /\ claims[i] + MaxAttempts <= MaxClaim
  /\ Queue(i) /\ done' \in {done, done \ {i}}
  /\ UNCHANGED <<uploaded, request, invalid, tracks, expiry, held, audio, object, discard, unsure,
                 orphan, workVars, userVars>>

\* RepairAlbumImportSession: a published import is ready again, with what its album plays as
\* its tracks; its payload keeps the commit_request it was published with.
Repair(i) ==
  /\ status[i] = "committed" /\ asked[i] < MaxRequest /\ status' = [status EXCEPT ![i] = "ready"]
  /\ tracks' = [tracks EXCEPT ![i] = audio[i]]
  /\ UNCHANGED <<uploaded, request, invalid, expiry, fileVars, jobVars, workVars, userVars>>

------------------------------------------------------------------------------
(* CommitAlbumImportSession of a session that is ready *)

Committable(i) == status[i] = "ready" \/ (status[i] = "attention" /\ i \in invalid)

\* hydrateDerivedTrackAudio: a track that only names its file brings the audio of its row.
Sound(i) == IF File(i) \in tracks[i] THEN held[i] \intersect Playbacks(i) ELSE tracks[i]
\* The part of it that is the import's own, so that the album cannot keep it.
Unpromoted(i) == Sound(i) \ Copy(i)
\* uuid.NewString names a copy; which of the free names it is makes no difference.
Fresh(i) == Copy(i) \ (discard \union audio[i] \union tracks[i] \union UNION {saw[w].tracks : w \in Worker})
NewCopy(i) == CHOOSE k \in Fresh(i) : TRUE
CopyBound(i) == Fresh(i) # {} /\ Cardinality(discard) < MaxDoomed

\* Fault: the audio just published is deleted with the object it was copied from.
SupersededBoth(i, c) == Unpromoted(i) \union c
Superseded(i, c) == Unpromoted(i)

\* promoteImportedTrackAsset: c is the copy made.  An album keeps what it plays if the
\* tracks bring nothing else, or an older copy that cannot be fetched.
Promoted(i, c) ==
  \/ Unpromoted(i) = {} /\ audio[i] # {} /\ c = {}
  \/ Sound(i) # {} /\ Sound(i) # audio[i] /\ Sound(i) \subseteq object /\ CopyBound(i) /\ c = {NewCopy(i)}
  \/ Unpromoted(i) # {} /\ Unpromoted(i) \subseteq object /\ CopyBound(i) /\ c = {NewCopy(i)}

\* What is no longer played is no longer doubtful.
Unsure(i) == unsure \ (audio[i] \ audio'[i])

\* The transaction publishes the import; afterwards the objects it superseded are deleted,
\* or the copies when its caller was told that it failed.
Publish(i) ==
  \E c \in SUBSET Copy(i) :
    /\ Promoted(i, c)
    /\ status' = [status EXCEPT ![i] = "committed"] /\ request' = request \union {i}
    /\ invalid' = invalid \ {i}
    /\ audio' = [audio EXCEPT ![i] = IF c = {} THEN @ ELSE c] /\ object' = object \union c
    /\ \/ discard' = discard \union Superseded(i, c) /\ unsure' = Unsure(i)
       \/ discard' = discard \union c /\ unsure' = Unsure(i) \union c
    /\ UNCHANGED <<uploaded, tracks, expiry, held, done, orphan, refusal>>

\* Fault: what a failed commit would have superseded is deleted with its copies.
AbandonedBoth(i, c) == Unpromoted(i) \union c
Abandoned(i, c) == c

\* A copy or the database fails, or the request is refused: the copies made are deleted.
Unpublished(i, refused) ==
  /\ \E c \in SUBSET Copy(i) :
       /\ c = {} \/ Promoted(i, c)
       /\ object' = object \union c /\ discard' = discard \union Abandoned(i, c)
  /\ refusal' = refusal \union refused
  /\ UNCHANGED <<sessionVars, held, done, audio, unsure, orphan>>

TryCommit(i) == Publish(i) \/ Unpublished(i, {}) \/ Unpublished(i, {i})

\* A user commits.
Commit(i) ==
  /\ Committable(i) /\ asked[i] < MaxRequest
  /\ asked' = [asked EXCEPT ![i] = @ + 1]
  /\ TryCommit(i)
  /\ UNCHANGED <<jobVars, workVars>>

\* Fault: only the worker that completed an import commits it.
PendingNever(i) == FALSE
Pending(i) == status[i] = "ready" /\ i \in request

\* FinalizeSubmittedReady: any worker commits a ready import that carries a request.
FinalizeReady(i) ==
  /\ Pending(i)
  /\ TryCommit(i)
  /\ UNCHANGED <<jobVars, workVars, asked>>

\* Fault: a refusal is marked whatever became of the session since.
MarkableAlways(i) == TRUE
Markable(i) == status[i] \in {"ready", "attention"}

\* markAlbumImportNeedsAttention: a transaction of its own, after the refused one.
Mark(i) ==
  /\ i \in refusal /\ refusal' = refusal \ {i}
  /\ IF Markable(i)
     THEN /\ status' = [status EXCEPT ![i] = "attention"] /\ invalid' = invalid \union {i}
          /\ request' = request \union {i}
     ELSE UNCHANGED <<status, invalid, request>>
  /\ UNCHANGED <<uploaded, tracks, expiry, fileVars, jobVars, workVars, asked>>

\* deleteAlbumImportObjects: a deletion that fails, or whose process dies, is forgotten.
DeleteObject(k) ==
  /\ k \in discard /\ discard' = discard \ {k}
  /\ object' \in {object, object \ {k}}
  /\ UNCHANGED <<sessionVars, held, done, audio, unsure, orphan, jobVars, workVars, userVars>>

------------------------------------------------------------------------------
(* ImportWorker.RunOnce: cleanup, claim, process, finish *)

\* Fault: the audio an album plays is cleaned up with its import.
ReferencedNone == {}
Referenced == UNION {audio[i] : i \in Import}

Expired(i) == expiry[i] = "due" /\ status[i] # "committed"

\* cleanupSession deletes the source before anything else, and nothing that is referenced.
Cleanable(i) == {S \in SUBSET (held[i] \ Referenced) : S # {} => Source(i) \notin held[i] \ S}

\* CleanupExpired: what is deleted is recorded even if the rest fails.
CleanExpired(i) ==
  /\ Expired(i)
  /\ \E S \in Cleanable(i) :
       /\ object' = object \ S /\ held' = [held EXCEPT ![i] = @ \ S]
       /\ expiry' = [expiry EXCEPT ![i] = IF S = held[i] THEN "none" ELSE @]
  /\ UNCHANGED <<status, uploaded, request, invalid, tracks, done, audio, discard, unsure, orphan,
                 jobVars, workVars, userVars>>

\* CleanupCommitted: what is deleted is recorded only if everything is.
CleanCommitted(i) ==
  /\ status[i] = "committed" /\ held[i] # {}
  /\ \E S \in Cleanable(i) :
       /\ object' = object \ S
       /\ held' = [held EXCEPT ![i] = IF S = held[i] THEN {} ELSE @]
  /\ UNCHANGED <<sessionVars, done, audio, discard, unsure, orphan, jobVars, workVars, userVars>>

Goto(w, pc) == wpc' = [wpc EXCEPT ![w] = pc] /\ UNCHANGED <<wjob, wtoken, todo, saw>>
Reads(w, pc, payload) ==
  /\ wpc' = [wpc EXCEPT ![w] = pc] /\ saw' = [saw EXCEPT ![w] = payload] /\ UNCHANGED <<wjob, wtoken>>
Forget(w, pc) == Reads(w, pc, NoPayload)
Leave(w) ==
  /\ wpc' = [wpc EXCEPT ![w] = "idle"] /\ wjob' = [wjob EXCEPT ![w] = {}]
  /\ wtoken' = [wtoken EXCEPT ![w] = 0] /\ todo' = todo \ {w} /\ saw' = [saw EXCEPT ![w] = NoPayload]

\* Fault: a job that is out of attempts keeps its expired lease.
SpentNever(i) == FALSE
Spent(i) == attempts[i] >= MaxAttempts

Release(i, state) ==
  /\ job' = [job EXCEPT ![i] = state] /\ token' = [token EXCEPT ![i] = 0] /\ stale' = stale \ {i}
  /\ UNCHANGED <<attempts, claims>>
NeedsAttention(i) ==
  /\ status' = [status EXCEPT ![i] = "attention"] /\ expiry' = [expiry EXCEPT ![i] = "set"]

\* recoverExpiredLeases
Recover(i) ==
  /\ job[i] = "running" /\ i \in stale /\ status[i] = "active"
  /\ \/ Spent(i) /\ Release(i, "failed") /\ NeedsAttention(i)
     \/ attempts[i] < MaxAttempts /\ Release(i, "queued") /\ UNCHANGED <<status, expiry>>
  /\ UNCHANGED <<uploaded, request, invalid, tracks, fileVars, workVars, userVars>>

\* Fault: the attempt serves as the token.
TokenOfAttempt(i) == attempts[i] + 1
NextToken(i) == claims[i] + 1

\* A pass cleans up all imports that are due and one that is published, and fails if an album
\* plays what it is about to delete.
Swept ==
  LET Published == {i \in Import : status[i] = "committed" /\ held[i] # {}}
  IN  /\ \A i \in Import : ~Expired(i)
      /\ Published # {} => \E i \in Published : held[i] \intersect Referenced = {}

\* Idle workers are alike: which of them polls makes no difference.
Poller == CHOOSE w \in Worker : wpc[w] = "idle"

\* Claim, which RunOnce tries only after a cleanup without any error: the conditional update
\* takes the job under a fresh lease token.
Claim(w, i) ==
  /\ wpc[w] = "idle" /\ w = Poller /\ Swept
  /\ job[i] = "queued" /\ status[i] = "active" /\ claims[i] < MaxClaim
  /\ job' = [job EXCEPT ![i] = "running"] /\ attempts' = [attempts EXCEPT ![i] = @ + 1]
  /\ claims' = [claims EXCEPT ![i] = @ + 1] /\ token' = [token EXCEPT ![i] = NextToken(i)]
  /\ wpc' = [wpc EXCEPT ![w] = "claimed"] /\ wjob' = [wjob EXCEPT ![w] = {i}]
  /\ wtoken' = [wtoken EXCEPT ![w] = NextToken(i)]
  /\ UNCHANGED <<sessionVars, fileVars, stale, todo, saw, userVars>>

\* The poll finds nothing.
NothingToClaim(w) ==
  /\ wpc[w] = "idle" /\ Swept /\ \A i \in Import : job[i] # "queued" \/ status[i] # "active"
  /\ UNCHANGED vars

On(w, i, pc) == wpc[w] = pc /\ wjob[w] = {i}

\* Process loads the files, and processCover, whose failure is ignored, the payload ...
Begin(w, i) ==
  /\ On(w, i, "claimed") /\ Source(i) \in held[i]
  /\ todo' = IF i \in done THEN todo \ {w} ELSE todo \union {w}
  /\ \/ /\ i \in Cover
        /\ Reads(w, "covering", [request |-> i \in request, invalid |-> i \in invalid, tracks |-> tracks[i]])
     \/ Forget(w, "covered")
  /\ UNCHANGED <<sessionVars, fileVars, jobVars, userVars>>

\* ... which it writes back whole with the cover's key, without a lock in between.
WritePayload(w, i) ==
  /\ On(w, i, "covering")
  /\ request' = IF saw[w].request THEN request \union {i} ELSE request \ {i}
  /\ invalid' = IF saw[w].invalid THEN invalid \union {i} ELSE invalid \ {i}
  /\ tracks' = [tracks EXCEPT ![i] = saw[w].tracks]
  /\ Forget(w, "covered") /\ UNCHANGED todo
  /\ UNCHANGED <<status, uploaded, expiry, fileVars, jobVars, userVars>>

\* persistSourceTrackPreview: the tracks name their files, unless the user's match is locked;
\* then setSession: only an active session is worked on.
Preview(w, i) ==
  /\ On(w, i, "covered") /\ w \in todo
  /\ tracks' \in {tracks, [tracks EXCEPT ![i] = {File(i)}]}
  /\ wpc' = [wpc EXCEPT ![w] = IF status[i] = "active" THEN "encoding" ELSE "failing"]
  /\ todo' = todo \ {w}
  /\ UNCHANGED <<wjob, wtoken, saw, status, uploaded, request, invalid, expiry, fileVars, jobVars,
                 userVars>>

\* processLocalAudio transcodes the source and stores the result under a key of its own ...
Store(w, i) ==
  /\ On(w, i, "encoding") /\ Source(i) \in object
  /\ object' = object \union {Playback(i, wtoken[w])} /\ orphan' = orphan \union {Playback(i, wtoken[w])}
  /\ Goto(w, "stored")
  /\ UNCHANGED <<sessionVars, held, done, audio, discard, unsure, jobVars, userVars>>

\* ... which then replaces the one in the file's row, whoever wrote that.
Record(w, i) ==
  /\ On(w, i, "stored")
  /\ held' = [held EXCEPT ![i] = (@ \ Playbacks(i)) \union {Playback(i, wtoken[w])}]
  /\ orphan' = (orphan \union (held[i] \intersect Playbacks(i))) \ {Playback(i, wtoken[w])}
  /\ done' = done \union {i}
  /\ Goto(w, "recorded")
  /\ UNCHANGED <<sessionVars, audio, object, discard, unsure, jobVars, userVars>>

\* persistDerivedTracks reads the rows of the processed files; audio that was processed
\* already is not processed again.
Load(w, i) ==
  /\ On(w, i, "recorded") \/ (On(w, i, "covered") /\ w \notin todo)
  /\ Reads(w, "enriching", [request |-> i \in request, invalid |-> FALSE,
                            tracks |-> IF i \in done THEN held[i] \intersect Playbacks(i) ELSE {}])
  /\ UNCHANGED <<todo, sessionVars, fileVars, jobVars, userVars>>

\* Fault: the payload read before the external lookups is written back.
MergedStale(w, i) == saw[w].request
Merged(w, i) == i \in request

\* persistDerivedMetadataResult: the payload is read again under the row's lock; its tracks
\* name the audio read before, whatever became of the session or plays its album.
Persist(w, i) ==
  /\ On(w, i, "enriching")
  /\ request' = IF Merged(w, i) THEN request \union {i} ELSE request \ {i}
  /\ tracks' = [tracks EXCEPT ![i] = saw[w].tracks]
  /\ Forget(w, "processed") /\ UNCHANGED todo
  /\ UNCHANGED <<status, uploaded, invalid, expiry, fileVars, jobVars, userVars>>

\* A step of the processor fails, or its heartbeat finds that the lease is gone; failFile
\* marks the file whose audio could not be processed.
Fail(w) ==
  /\ wpc[w] \in {"claimed", "covering", "covered", "encoding", "stored", "recorded", "enriching",
                 "processed"}
  /\ Forget(w, "failing") /\ todo' = todo \ {w}
  /\ \/ UNCHANGED done
     \/ wpc[w] \in {"encoding", "stored"} /\ done' = done \ wjob[w]
  /\ UNCHANGED <<sessionVars, held, audio, object, discard, unsure, orphan, jobVars, userVars>>

Holds(w, i) == job[i] = "running" /\ token[i] = wtoken[w] /\ status[i] = "active"

\* Complete, unless partialImportError finds that a file failed.
Complete(w, i) ==
  /\ On(w, i, "processed") /\ i \in done
  /\ IF Holds(w, i)
     THEN /\ Release(i, "completed") /\ status' = [status EXCEPT ![i] = "ready"]
          /\ Goto(w, "finalizing")
     ELSE Leave(w) /\ UNCHANGED <<status, jobVars>>
  /\ UNCHANGED <<uploaded, request, invalid, tracks, expiry, fileVars, userVars>>

\* Retry: the job is queued again, or fails for good.
Retry(w, i) ==
  /\ On(w, i, "failing")
  /\ \/ Holds(w, i) /\ Release(i, "failed") /\ NeedsAttention(i)
     \/ Holds(w, i) /\ ~Spent(i) /\ Release(i, "queued") /\ UNCHANGED <<status, expiry>>
     \/ ~Holds(w, i) /\ UNCHANGED <<status, expiry, jobVars>>
  /\ Leave(w)
  /\ UNCHANGED <<uploaded, request, invalid, tracks, fileVars, userVars>>

\* The completion finalizer commits the import the worker has just completed.
Finalize(w, i) ==
  /\ On(w, i, "finalizing")
  /\ IF status[i] = "ready" /\ i \in request
     THEN TryCommit(i)
     ELSE UNCHANGED <<sessionVars, fileVars, refusal>>
  /\ Leave(w)
  /\ UNCHANGED <<jobVars, asked>>

Crash(w) ==
  /\ wpc[w] # "idle"
  /\ Leave(w)
  /\ UNCHANGED <<sessionVars, fileVars, jobVars, userVars>>

\* The heartbeats of a running job stop reaching the database for five minutes.
Lapse(i) ==
  /\ job[i] = "running" /\ i \notin stale /\ stale' = stale \union {i}
  /\ UNCHANGED <<sessionVars, fileVars, job, attempts, token, claims, workVars, userVars>>

\* expires_at passes, which nobody reads while the import is published; seven days after a
\* cancellation no worker is on the import any more.
BecomeDue(i) ==
  /\ expiry[i] = "set" /\ status[i] # "committed" /\ expiry' = [expiry EXCEPT ![i] = "due"]
  /\ status[i] = "canceled" => \A w \in Worker : wjob[w] # {i}
  /\ UNCHANGED <<status, uploaded, request, invalid, tracks, fileVars, jobVars, workVars, userVars>>

------------------------------------------------------------------------------
Edit(i) ==
  \/ Upload(i) \/ DeleteFile(i) \/ Start(i) \/ Submit(i) \/ Cancel(i) \/ RetryFile(i) \/ Repair(i)
  \/ Commit(i) \/ Mark(i)
Tidy(i) == FinalizeReady(i) \/ CleanExpired(i) \/ CleanCommitted(i) \/ Recover(i)
Process(w, i) ==
  \/ Begin(w, i) \/ WritePayload(w, i) \/ Preview(w, i) \/ Store(w, i) \/ Record(w, i) \/ Load(w, i)
  \/ Persist(w, i) \/ Complete(w, i) \/ Retry(w, i) \/ Finalize(w, i)
Work(w) ==
  NothingToClaim(w) \/ Fail(w) \/ \E i \in Import : Claim(w, i) \/ Process(w, i)

Next ==
  \/ \E i \in Import : Edit(i) \/ Tidy(i) \/ Lapse(i) \/ BecomeDue(i)
  \/ \E k \in Key : DeleteObject(k)
  \/ \E w \in Worker : Work(w) \/ Crash(w)

Spec == Init /\ [][Next]_vars

\* Workers poll for ever.  A lease lapses once its holder is gone; what is due is cleaned
\* up and what is ready is committed unless the store or the database fails for ever.
HolderGone(i) == \A w \in Worker : ~(wjob[w] = {i} /\ wtoken[w] = token[i])
FairSpec ==
  /\ Spec
  /\ \A w \in Worker : WF_vars(Work(w))
  /\ SF_vars(\E w \in Worker, i \in Import : Claim(w, i))
  /\ \A i \in Import :
       /\ WF_vars(HolderGone(i) /\ Lapse(i)) /\ WF_vars(Recover(i)) /\ WF_vars(BecomeDue(i))
       /\ WF_vars(CleanExpired(i) /\ held'[i] \subseteq Referenced)
       /\ SF_vars(FinalizeReady(i) /\ status'[i] # "ready")
  /\ WF_vars(\E k \in Key : DeleteObject(k))

------------------------------------------------------------------------------
(* Properties *)

\* The audio an album plays is in the store: no cleanup, no failed or repeated commit and
\* no late deletion removes it (ensureImportCleanupObjectUnreferenced, and the deletions
\* after CommitAlbumImportSession's transaction).  The exception is a copy whose publication
\* was committed while the caller was told otherwise.
PublishedPlayable == \A i \in Import : audio[i] \subseteq object \union unsure

\* A lease has one holder: of two workers on one import at most one can finish it, however
\* often the lease changed hands and the attempts were reset (Claim's lease_token).
LeaseExclusive ==
  \A i \in Import : \A w1, w2 \in Worker :
    w1 # w2 /\ wjob[w1] = {i} /\ wjob[w2] = {i} => ~(Holds(w1, i) /\ Holds(w2, i))

\* Until its import expires or is published, a commit that failed can be tried again: the
\* audio its tracks bring is still there, whichever worker stored it and whichever wrote
\* the tracks last (deleteAlbumImportObjects after a failed transaction, cleanupSession).
ReadyKeepsAudio ==
  \A i \in Import : status[i] = "ready" /\ expiry[i] = "set" /\ audio[i] = {} => Unpromoted(i) \subseteq object

\* Nothing revives a canceled import: neither its worker nor a commit refused before the
\* cancellation and marked after it.
CanceledStays == [][\A i \in Import : status[i] = "canceled" => status'[i] = "canceled"]_vars

\* A registered commit request stays registered whatever a worker or a handler of this module
\* writes to the payload (persistDerivedMetadataResult), unless a worker that read it for
\* its cover before the request was registered writes it back.
RequestKept ==
  [][\A i \in request \ request' : \E w \in Worker : On(w, i, "covering") /\ ~saw[w].request]_vars

\* An import whose objects an album plays fails every cleanup, and no worker claims anything.
Blocked ==
  \E i \in Import : (Expired(i) \/ status[i] = "committed") /\ held[i] \intersect Referenced # {}

\* Every import a worker has to process ends: ready, in need of attention, or canceled,
\* unless a cleanup that cannot succeed comes before every claim.
JobEnds == \A i \in Import : status[i] = "active" ~> status[i] # "active" \/ Blocked

\* A submitted import that is ready does not stay so while the audio its tracks bring is
\* there, even if the worker that completed it dies before it commits it.
SubmittedEnds ==
  \A i \in Import :
    Pending(i) ~> \/ status[i] # "ready" \/ i \notin request
                  \/ Sound(i) = {} \/ ~(Unpromoted(i) \subseteq object)

\* Of what a canceled import stored nothing is left but what an album plays and the playback
\* objects that no row named when it was cleaned up (CleanupExpired).
CanceledCleaned ==
  \A i \in Import :
    status[i] = "canceled"
      ~> object \intersect ({Source(i)} \union Playbacks(i)) \subseteq Referenced \union orphan

------------------------------------------------------------------------------
(* Refinement: the rows of session and job make one stage *)

StageOf(i) ==
  CASE status[i] = "uploading" -> "open"
    [] status[i] = "active" -> IF job[i] = "running" THEN "running" ELSE "queued"
    [] status[i] = "canceled" -> "withdrawn"
    [] status[i] = "committed" -> "published"
    [] OTHER -> status[i]

Promise ==
  INSTANCE ImportPromise WITH
    Audio <- Key, Original <- [i \in Import |-> Playbacks(i)], Earlier <- Legacy,
    Rewritten <- Cover, MaxTries <- MaxAttempts,
    stage <- [i \in Import |-> StageOf(i)], complete <- uploaded,
    wanted <- request, refused <- invalid, tries <- attempts,
    plays <- audio

\* Sessions, jobs and albums, written by handlers and workers with leases that lapse, are
\* what ImportPromise promises the uploader: only a running try makes an import ready,
\* what is canceled stays so, and only a publication changes what an album plays.
KeepsPromise == Promise!PromiseSpec
==============================================================================
