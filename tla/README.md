# TLA+ models of the Atoman backend

Atoman is a Go backend (PostgreSQL, an S3-compatible object store, Redis, and a
Stalwart mail server behind JMAP). Most of its request handlers are one
transaction over a few rows. What is hard to get right, and harder to test, are
its *durable background protocols*: work that survives a process in a table, is
claimed by competing workers, has side effects outside the database, and must
neither be lost nor done twice when a process dies, a reply is lost or a lease
runs out. This directory models those, most consequential first.

## The modules

| module | what it is |
| --- | --- |
| `MailPromise` | abstract specification: what the outbox promises its user |
| `MailOutbox` | the mail outbox in detail: Queue, Cancel, dispatch, Reconcile, snapshot maintenance, draft |
| `MailOutboxProofs` | inductive invariant and safety theorems of `MailOutbox`; it implements `MailPromise` |
| `MailArtifacts`, `MailArtifactsProofs` | attachments of drafts: uploads, draft saves under the advisory lock, deletions, the bounded maintenance batch |
| `IndexNowQueue` | the durable queue of changed URLs |
| `CleanupPromise` | abstract specification: what the music code expects of object deletion, and owes it |
| `MusicCleanup`, `MusicCleanupProofs` | the durable queue of failed deletions; it implements `CleanupPromise` |
| `AudioPromise` | abstract specification: what replacing a song's audio promises its editor |
| `SongAudio`, `SongAudioProofs` | replacing a song's audio, composed with the cleanup queue through `CleanupPromise`; it implements `AudioPromise` |
| `ImportPromise` | abstract specification: what an album import promises its uploader |
| `AlbumImport`, `AlbumImportProofs` | album import: sessions, jobs under leases, commit, recovery, cleanup; it implements `ImportPromise` |
| `MusicRevisions`, `MusicRevisionsProofs` | the music wiki: histories of an album and its songs, lyrics, entry states |
| `FullText`, `FullTextProofs` | full-text fetching: recovery, source and host leases, the administrator's switch |
| `CollabHub` | the relay of a collaboratively edited document: rooms, channels, slow clients |
| `QueueProofs` | inductive invariants and safety theorems of the two queues, `IndexNowQueue` and `CollabHub` |
| `MC*` | for each specification the values and symmetry sets it is model-checked with |

Each specification has its constants and their assumption first, then the
variables, one action per database statement, transaction or external call, and
the properties at the end. An operator whose comment starts with `Fault:` is not
part of the system: it is the definition below it as a plausible mistake would
have left it, kept to show that the checks notice.

## Inventory

### Mail outbox (`src/internal/modules/mail/outbox_*.go`, `cmd/mail_outbox_worker`)

*State.* A row per message in `mail_pending_sends` (status, send_after,
claimed_at, draft revision, receipts `imported_email_id` and `submission_id`,
`snapshot_deleted_at`), its encrypted snapshot in a private bucket, the message
in the JMAP mailbox and the submission the mail server accepted, the author's
draft, and the status of the account.

*Operations.* `Queue` (look up the request id, check account and draft, store the
snapshot, insert the row, undo on failure), `Cancel` within five seconds,
`RunDue` = `ClaimDue` + `deliverClaimed` (check account, load snapshot,
`Email/import`, note it, `EmailSubmission/set`, file the copy, note it, finish,
remove the snapshot), `Reconcile` (by the API or the maintenance timer: ask the
server for evidence, then write), and the snapshot sweep of `RunMaintenance`.

*Interaction.* API processes, dispatch workers, reconcilers and maintenance share
only the row, the bucket and the mail server; every step between two of their
calls is a point where another may act or the process may die.

*Correct means.* At most one submission per message; the status never says
something false about delivery; one worker per claimed row; terminal statuses
are final; snapshots live as long as they may be needed; one row per request id;
a send never removes text it did not send; due messages are dispatched and
accepted ones confirmed.

### Drafts and uploads (`workspace_service.go`, `workspace_maintenance.go`, `cmd/mail_maintenance_worker`)

*State.* An object in the private bucket and a row in `mail_uploads` per upload
(`created_at`, `retired_at`), encrypted drafts that name uploads, and a per-user
advisory lock. *Operations.* `Upload` (object, row, discard on failure),
`DeleteUpload` (row lookup, object, row; no lock), `SaveDraft` (lock, check each
attachment, write), `DeleteDraft` and the removal after a send, and the uploads
part of `RunMaintenance` (select a batch; for each row mark it retired under the
lock if no draft refers to it, then delete the object, then the row).
*Interaction.* API processes and maintenance meet in rows, bucket and lock; the
draft belongs to the outbox too. *Correct means.* Maintenance never takes an
attachment away from a draft, no object outlives the row that knows of it, and
expired uploads nobody refers to are removed.

### IndexNow queue (`src/internal/platform/indexnow`)

*State.* A row per changed URL with revision, next attempt, lease token and
lease end. *Operations.* `enqueueDurable` upserts (revision + 1 on conflict);
`runDurableOnce` claims a batch under a fresh token, submits it, and in one
transaction deletes the rows whose token and revision still match, releases the
others, or backs off. *Correct means.* A newer change is never deleted by an
acknowledgement in flight; every change is submitted; every row leaves.

### Music object cleanup (`internal/storage/music_cleanup_worker.go`, `music_asset.go`)

*State.* A row per object whose deletion failed (`lease_token`, `lease_until`,
`next_attempt_at`, attempts), and the bucket. *Operations.* `PromoteMusicUploadAsset`
copies an upload to a fresh key, `DeleteMusicObjects` deletes and enqueues what
fails (`DO NOTHING` if there is a row), and every server process claims up to
eight due rows under one token for three minutes, deletes their objects one after
the other and removes or reschedules each row. *Interaction.* Song audio discards
objects through it; album imports do not: they delete their own, and forget what
fails (`deleteAlbumImportObjects`). *Correct means.* A recorded deletion is
not forgotten before its object is gone, and every row leaves.

### Song audio replacement (`song_audio_replacement_worker.go`, `http_catalog_v2.go`)

*State.* A job per request (`status`, `started_at`, `locked_by`), the upload's
`MediaAsset` row, the song's audio and its revisions, the bucket. *Operations.*
`replaceSongAudio` requests, `ProcessSongAudioReplacementOnce` claims a job that is
pending or has been processing for fifteen minutes, copies the upload, switches
the song in one transaction (`ApplySongAudioReplacement`), deletes its copy if
refused, otherwise the upload's row and object; `RevertToRevision` brings an
earlier audio back. *Correct means.* Every revision stays playable, a job
switches at most once and its status says so, an upload is given up only when it
was used, every job ends.

### Album import (`import_worker.go`, `import_commit_service.go`, `import_upload_*_service.go`, `media_import_processor.go`)

*State.* A session (`status`, payload with `commit_request`,
`commit_validation_failed` and `derived_tracks`, `expires_at`, files with
`source_key`, `playback_key` and `processing_status`), a job (`status`, `attempts`, `lease_token`, `lease_expires_at`),
the album and its songs, the bucket. *Operations.* The user completes
uploads, the last of which queues the session, starts, submits, cancels, retries a
file, repairs a published album; a worker cleans up what expired or was committed,
recovers lapsed leases, claims a job, processes cover and audio under a heartbeat
(each transcoding is stored under a new key, which then replaces the one in the
row), completes or retries it, and finalizes a submission; the commit copies the audio to keys of the album.
*Interaction.* Handlers, finalizer and workers meet in the session row, which all
lock but the cover step; commit and cleanup meet in the bucket. *Correct means.*
What an album plays is never deleted; a lease has one holder; a failed commit can
be repeated; a cancelled import stays cancelled; a registered request stays
registered; every import ends and what it held is cleaned up.

### Music wiki (`revision_service.go`, `music_wiki_policy.go`, `lyrics_service.go`, `service_entry_state.go`)

*State.* The rows of songs, the revisions of each song and album (`is_current`;
an album's hold a copy of its songs), `edit_status` of each entry, and the pending
request to change it. *Operations.* `CreateRevision` (lock the entry's row, check that it
is open, compare with the base revision, merge, write row and revision),
`RevertToRevision`, `ApplySongAudioReplacement`, saving and reverting lyrics, which
write no revision, requests for closing, reopening and unlocking with their
review, and an administrator's immediate change. *Interaction.* A song's own
history, its album's history and the lyrics editor all write the song's row; the
album's transaction reads it before it locks it. *Correct means.* An edit changes
what it names; what is closed on request is what its requester saw; a closed or
locked song is left alone by edits that began before.

### Full-text fetching (`internal/service/fulltext_*.go`)

*State.* Per item `full_text_status`, attempt count, next attempt; per source a
lease, the enabled flag and consecutive failures; per host a lease and the next
allowed request. *Operations.* Each process runs cycles: recover items fetching
for twenty minutes, claim a batch and lease its sources, then for each item
reload, lock source and host in memory, lease the host in the database or defer,
fetch, write item and source, release; administrators switch sources and requeue
items. *Correct means.* A host is asked by one at a time across processes,
nothing stays fetching, what waits is settled, a switched-off source stays off.

### Collaboration hub (`internal/collab/hub.go`)

*State.* One goroutine's rooms, three bounded channels, and per connection a
reader, a writer and a bounded send channel. *Operations.* Join, leave, broadcast
(dropped for a client whose channel is full), end of a connection. *Correct
means.* A client gets the others' updates in the order each wrote them, and no
writer outlives its reader.

### Not modelled

| part | state and operations | why not |
| --- | --- | --- |
| Reconciliation batch of mail maintenance (`workspace_maintenance.go:120-131`) | the ten stale rows updated longest ago | rows that fail before their update keep their place and can fill every batch; a hazard without a property |
| Rest of the music catalogue | artists' revisions, conversion of releases, merges, archiving, catalog backfills, `ApproveRevision` | artists' revisions work as songs' do but have no album above them; the others replace rows within one transaction; nothing creates a revision that waits for approval (`revision_handler.go:292,572`, `artist_wiki_handler.go:220`) |
| RSS poller (`rss_cron.go`) | groups of sources with one URL, ETags, failure counts | mostly parsing; the poller itself writes row by row |
| Cache (`platform/cachex`) | entries in memory and Redis under a version that an invalidation changes | public data, of which old values are allowed for a while (`cache.go:101`), and no other part's correctness rests on it |
| User notification hub (`collab/user_hub.go`) | clients per user | the pattern of `CollabHub`; its unlocked accesses are noted below |
| Sessions and limits (`platform/authsession`, `ratelimit`, `searchlimit`) | tokens and counters | the rules are in the conditions of statements of PostgreSQL and Redis |
| Publication lifecycle (`modules/lifecycle`) | states of content | one transaction per transition |
| Migration runner (`internal/migrationrunner`) | schema and backfills | one process at deployment |
| Book processing, video | jobs with tokens that fence slow workers (`book_processing.go`) | the lease pattern of the album import, with fewer steps |
| Import enrichment and standalone songs (`import_metadata_enricher.go`) | metadata of an import | parsing and lookups; they decide the payload, not the protocol |
| Mail message actions, accounts | JMAP calls per request | no state of their own |

Not planned: the single-transaction handlers of the content, forum, debate,
comment, notification and social modules, routing, rendering, configuration,
migrations' SQL, parsers and extractors, generated API documentation, and the
operators' one-off commands. They have no protocol of their own: their
correctness is in SQL and in data. `PROJECT.json` lists all components and the
hazards, each at its line.

## Plan

1. (done) `MailOutbox`, `MailPromise`, `IndexNowQueue`, `MailArtifacts` and their
   proofs.
2. (done) `MusicCleanup` against `CleanupPromise`; `SongAudio` composed with it;
   `AlbumImport`; `FullText`; `CollabHub`; their proofs.
3. (done) `MusicRevisions`: what an edit does to another editor's, an audio
   replacement's or the lyrics editor's change, and its proofs.
4. (done) `SongAudio` against `AudioPromise`, `AlbumImport` against `ImportPromise`;
   proofs of every safety and action property the runs check, and of the safety
   part of some liveness properties.
5. Left: the reconciliation batch of mail maintenance; the RSS poller; book
   processing; the multipart uploads of an album import, with the legacy archive
   endpoints.

## `MailOutbox` against the code

| actions | code |
| --- | --- |
| `Lookup`, `Compose`, `StorePut`, `Insert`, `Discard`, `Reread` | `Queue`, `outbox_service.go:80-184` |
| `CancelArm`, `CancelWrite`, `CancelTidy` | `Cancel`, `:186-220` |
| `Claim` | `ClaimDue`, `:224-256` |
| `CheckActive`, `LoadSnapshot`, `Finish`, `WorkTidy` | `deliverClaimed` and `finishClaim`, `:288-355` |
| `Prepare`, `Import`, `NoteImport`, `Send`, `FileAndNote` | `Submit`, `submitRFC822`, `outbox_stalwart.go:30-251` |
| `WorkCrash` | a kill, or the exit of the worker on any error (`cmd/mail_outbox_worker/main.go`) |
| `ReconBegin`, `FindMail`, `FindProof`, `ReconWrite`, `ReconDraft`, `ReconTidy`, `ReconAbort` | `Reconcile`, `outbox_reconcile.go` |
| `SweepPick`, `SweepDelete`, `SweepMark` | the snapshot part of `RunMaintenance` |
| `SaveDraft`, `DeleteDraft` | `workspace_service.go:126-181` |
| `ToggleAccount`, `BecomeDue`, `BecomeAged` | suspension and the clock |

A member of `Mail` is one *call* of `Queue`: the call mints the id of its row and
of its snapshot, so the three share the name. Time is three facts: `due`
(`send_after` passed), `aged` (two minutes since the claim), and for the sweep
nothing at all, since thirty days may pass at any point. `CancelArm` is the
moment `Cancel` reads the clock and `CancelWrite` its conditional update; time
may pass in between. Each call to the object store or to JMAP has three outcomes:
done, done with the reply lost, not done. `Email/query` and
`EmailSubmission/query` may miss what is there but never invent it. An insert may
commit and still be reported as failed. `active` stands for the mailbox and the
Atoman account together; the code only asks whether both are active.

Left out: sealing, MIME, address checks, attachments (they make a call fail,
which is `Refused` or the failing branch of `LoadSnapshot` and `Prepare`), the
user's explicit draft revision (a refusal), ownership checks (one user), and
fields only shown to the user.

`IndexNowQueue`: `Enqueue` = `enqueueDurable` (one URL; a statement with several
is their sequence, since the rows do not influence each other), `Claim`,
`Submit`, `Acknowledge`, `Backoff` = `runDurableOnce`, `Crash` also stands for a
closing transaction that fails. The lease and the delay are the booleans
`leased` and `due`, and may change at any time, also under a working owner.
`published` and `covered` are history variables: the content submitted for a URL
is what the page shows, so a submission covers everything published before it.
The number of attempts only sets the delay and is left out.

`MailArtifacts`: `UploadPut`, `UploadInsert`, `UploadDiscard` = `Upload`;
`DeleteFind`, `DeleteBytes`, `DeleteRow` = `DeleteUpload`; `SaveCheck` (take the
lock, look the attachments up) and `SaveWrite` (write and commit, or roll back) =
`SaveDraft`; `DeleteDraft` is the user's or the outbox's; `MaintSelect` and, per
row of the batch, `MaintScan`, `MaintMark`, `MaintBytes`, `MaintRow` =
`RunMaintenance`, and `MaintCrash` is a kill or the end of its five minutes. All
uploads and drafts are one user's, so the lock is one variable. An `Upload` that
never takes its next step is one whose process died. A draft whose attachments
are `{}` may also be absent; which of several concurrent saves wins is left to
the revision check, modelled in `MailOutbox`. Times are the order in which rows
were written (`clock`), and `cutoff` says which of them are more than thirty days
old; `Stamp` is `COALESCE(retired_at, created_at)`. The rows of a batch are taken
in any order, which includes the code's. An upload counts as unwanted, and out of
`AttachmentsStay`, from the user's first `DeleteUpload` on. `resolveAttachments`
reads an upload without the lock, but only to refuse a message.

`MusicCleanup`: `Promote` = `PromoteMusicUploadAsset` (a fresh key, written once),
`Discard`, `Enqueue`, `LoseFailure` = `DeleteMusicObjects`, whose failure is
recorded or, when the insert fails too, only logged; `Claim`, `Attempt`,
`NextJob`, `Settle`, `SettleFails` = `processMusicCleanupOnce`. `Attempt` deletes,
fails, or fails after deleting; `Expire` may run the lease out under it, whereupon
`Removed` and `StillLeased` are the `WHERE` clauses that keep its update from the
new holder's row. The number of attempts only sets the delay.

`SongAudio`: `Request` = `replaceSongAudio`; `Claim`, `Promote`, `Apply`,
`ApplyRefused`, `DropCopy`, `Fail`, `Consume`, `DropSource` =
`ProcessSongAudioReplacementOnce` and `ApplySongAudioReplacement`; `Revert` and
`ToggleEditable` are other edits of the song; `CleanUp` is the cleanup worker, seen
through `CleanupPromise`. A claim's lease token is its number, which also makes
its destination key. `Apply` may commit and be reported as failed (`unsure`).
`Promise` maps it to `AudioPromise`: `pending` and `processing` are both "asked",
`completed` is "switched", `failed` "refused"; an upload can be asked with while
it has its row and its object; a copy nobody names is not seen at all.

`AlbumImport`:

| actions | code |
| --- | --- |
| `Upload` | `CompleteAlbumImportFile` of the last upload, `import_upload_parts_service.go:102-185` |
| `DeleteFile`, `Cancel`, `RetryFile`, `Start`, `Repair` | the handlers of `import_upload_lifecycle_service.go` |
| `Submit`, `Commit` | `CommitAlbumImportSession` before and after the session is ready |
| `Publish`, `Unpublished` (`TryCommit`) | its promotions and transaction, `import_commit_service.go:490-691` |
| `DeleteObject`, `Mark` | the deletions, and the mark of a refused commit, after it |
| `FinalizeReady` | `FinalizeSubmittedReady`, `import_worker.go:76-104` |
| `CleanExpired`, `CleanCommitted`, `Recover`, `Claim` | the parts of `RunOnce` up to the claim |
| `Begin`, `WritePayload` | the loaded files and `processCover`, `media_import_processor.go:874-900` |
| `Preview` | `persistSourceTrackPreview` and `setSession` |
| `Store`, `Record` | `processLocalAudio`: the object (`:1728`), then the row (`:1754`) |
| `Load`, `Persist` | `persistDerivedTracks`: the rows read, then the payload merged under the lock (`:1189-1220`) |
| `Complete`, `Retry`, `Fail`, `Finalize` | the end of `RunOnce` |

A session's uploads stand for one source object, and `Arrive` for the moment they
are complete; the audio made of them in one claim stands for one playback object,
whose key (`mediaPlaybackKey`) is new each time: `Playback(i, c)` of the claim `c`. An
import of `Legacy` may come from a release that published the playback object
itself. `tracks` is the audio that `derived_tracks` of the payload name: the file
without audio (`Preview`), the playback object of the row that `Load` read
(`Persist`), or what the album plays (`Repair`); a commit takes the row's audio for a
track that names its file (`Sound`, `hydrateDerivedTrackAudio`). A merge that leaves
the tracks alone because the user locked the match is possible in `Preview`. `saw` is
what a worker read and is yet to write: the whole payload in the cover step, the
audio of the rows in the last. `held` and `done` are the rows' keys and whether their
audio is processed, which saves a second transcoding. `orphan` is a history variable:
playback objects that no row names. A commit copies what is not yet a copy
(`Unpromoted`), as `isPromotableAlbumImportKey` decides. A claim needs a cleanup
without any error before it (`Swept`): all that is expired is gone, and of the
published imports one that can be cleaned up came first. Idle workers are
interchangeable, so `Poller` names the one that claims. What the metadata say decides only whether a
commit is refused, which is a choice. `StageOf` maps session and job to the stage
`ImportPromise` knows: an active session is "queued" or "running" by its job's
status; leases, tokens, files and the bucket are not seen at all.

`MusicRevisions`: `Begin` is `ValidateMusicEntryEdit`, which locks the song's row and
reads its album's status without locking it, with the exception for lyrics of a
song whose album is closed. `EditSong` = `CreateRevision` (a partial function from
fields to values, and the base revision), `RevertSong` = `RevertToRevision`,
`ReplaceAudio` = `ApplySongAudioReplacement`, `SaveLyrics` = the lyrics editor;
`WriteRevision` is what they share: the new current revision, the row
(`applySongRevisionSnapshot`) and `HandleMusicRevisionApplied`. An album's
transaction is two steps, since it merges (`EditTracks`, `EditAlbum`, `RevertAlbum`)
before its `UPDATE` of the songs waits for their rows (`ApplyAlbum`);
`draft` is what it holds in between. `Ask`, `Approve`, `Withdraw`, `Emergency` =
`service_entry_state.go`. Whether editors are at war, which locks the entry, is
left open (`MayLock`). `writer` and `since` are history variables. `Text` stands for
the fields that song and album histories share; credits, tracks that an edit adds
or removes by name and the album's own fields are left out (a track may be
missing from what an editor keeps, and `Recorded` admits songs without a history).
`Hydrated` takes the row of structured lyrics for granted: every path that writes
lyrics keeps one.

`FullText`: one action per statement of `runFullTextCycle`, `claimFullTextBatch`,
`processFullTextItem` and the host lease. `nth` is the attempt count as claimed and
`seen` the source as reloaded, both used after a fetch of many seconds. A failing
statement ends the job (`JobFails`).

`CollabHub`: `Connect` = `ServeWS`, `Read`, `ReadFails`, `Leave` = `readPump`,
`Write`, `WriteEnds` = `writePump`, `TakeJoin`, `TakeLeave`, `TakeMessage` = the
cases of `Run`'s select, in any order. Messages are relayed unread.

## Runs

| run | instance | states | shows |
| --- | --- | --- | --- |
| `outbox_delivery` | 1 message with a draft, 2 workers, a reconciler, 2 revisions of the draft | 0.11 million | `SentAtMostOnce`, `StatusTellsTruth`, `NoSharedClaim`, `LiveRowKeepsSnapshot`, `OnlySentRevisionRemoved`, refinement `KeepsPromise`, `QueuedIsDispatched`, `AcceptedIsConfirmed` |
| `outbox_requests` | 3 calls with one request id, 2 payloads, 1 worker | 0.7 million | `OneRowPerRequest`, `AnswerNamesOwnRow` |
| `outbox_draft_reborn` | 1 message with a draft, 1 worker | | refutes `LaterEditsSurvive` |
| `indexnow` | 1 URL, 2 workers, 4 tokens, 3 changes | 22 thousand | `NoChangeLost`, `EveryRowLeaves` |
| `artifacts` | 2 uploads, one of which the user may delete, 1 draft, 1 maintenance process, batch of 2 | 75 thousand | `AttachmentsStay`, `GoneLeavesNothing`, `ExpiredUploadsLeave` |
| `artifacts_full_batch` | the same with a batch of 1 | | refutes `ExpiredUploadsLeave` |
| `cleanup` | 2 keys in one batch, 2 workers, 3 tokens, 1 discard of each key | 66 thousand | refinement `KeepsPromise`, `QueueDrains` |
| `audio` | 1 song, 1 upload, 2 jobs of which one may be claimed twice, 2 workers | 0.28 million | `RevisionsPlayable`, `StatusTellsTruth`, `UploadSurvives`, `NoCondemnedWrite`, refinement `KeepsPromise` (of `AudioPromise`), `EveryJobEnds` |
| `import` | 1 import with a cover, maybe of an earlier release, 2 workers, 2 claims, 1 attempt, 1 request, 2 copies | 0.18 million | `PublishedPlayable`, `LeaseExclusive`, `ReadyKeepsAudio`, `RequestKept`, refinement `KeepsPromise` (of `ImportPromise`), `JobEnds`, `SubmittedEnds`, `CanceledCleaned` |
| `fulltext` | 1 item, 2 processes, 2 crashes, 1 act of the administrator | 98 thousand | `HostsServedSingly`, `FetchingEnds`, `WaitingSettles`, `DisableStays` |
| `hub` | 2 clients of a room, 2 messages each, send channels of 1 | 21 thousand | `InOrder`, `WritersEnd` |
| `revisions` | an album with a song, 3 fields of 2 values, 3 revisions of the song and 2 of the album | 1.0 million | `OnlyAskedChanges`, `ClosedAsShown`, `Frozen` |

*Bounds.* The rows of different messages meet only in `OneRowPerRequest`, so one
message suffices for the delivery and three calls (a winner, a loser of the same
content, a loser of another) for the requests. Two workers give every race of two;
the theorems cover any number. `MaxRev = 2` gives an edit after queueing,
`MaxInc = 2` (in `outbox_draft_reborn`) a draft created again. In the queue, four
tokens for two workers leave a fresh one even when rows keep the tokens of dead
claims; three changes per URL allow one before, one during and one after a
delivery. Uploads meet only in the order of the batch, so two of them and a batch
of one show what two hundred and one with a batch of 200 do; a batch as large as
the number of uploads shows that nothing but the limit stands in the way. The two
keys of `cleanup` share a batch and a lease, which is what the eight of the code
do. In `audio` the two jobs name the same upload, and the second claim of a job is
the successor of a slow or dead worker. In `import` the second claim follows a
lapsed lease or a retry; with one attempt each, a job that fails waits for the
user's retry. Two names for copies suffice, one that the album plays and one for
the next commit, since a name is used again once nothing names it; a copy is
made only while fewer than `MaxDoomed` objects await their deletion, one here: a
deletion may come after a repair and another round of processing, not after the next
copy. That, and a second attempt of one job, are left to the theorems. `MaxRequest`
bounds what users ask for (submit, commit, repair), not the finalizers. In `fulltext` two
processes and two crashes leave a dead lease behind each of them; one item gives its source and host to both. In `hub` a send
channel of one is full as soon as a client is slow. In `revisions` the song starts
without a history, so its first edit makes two revisions and the third is an edit
or a revert on top of it; the album's second is an edit or a revert that meets
them. Songs of an album meet only in the album's one transaction, which writes all
of them in one step; the theorems cover any number of each. No run uses a state
constraint; the counters are bounded in guards (`MaxRev`, `MaxInc`, `MaxChange`,
`MaxCall`, `MaxClaim`, `MaxRequest`, `MaxAdmin`, `MaxCrash`, `MaxMessage`,
`MaxVersion`, `MaxDoomed`), and
nothing bounds `submissions`. `MaxAttempts`, `LastRetry`, `DisableAfter` and the
batch sizes are limits of the code, small in the runs.

*Deadlock* is checked wherever something can always happen (accounts can be
toggled, maintenance and import workers sweep for ever, full-text cycles start
again). The IndexNow and cleanup queues rest when all is delivered, audio jobs when
all have ended, and the hub when all have gone, so these say
`CHECK_DEADLOCK FALSE`.

*Fairness.* `DispatchFairness`: the clock advances; the worker loop polls every
500 ms and takes the oldest due row, so a due row is claimed in the end; a
running worker goes on, and systemd restarts a dead one. `EvidenceFairness`:
maintenance runs daily and reconciles again and again (strong fairness of
`ReconBegin`, since the account may be suspended in between: the property assumes
`[]<>active`); a mail server asked again and again finally shows the evidence it
has, and a reconciler that has it does not crash for ever before its write. The
bounded batch of ten in maintenance is not in this model.
`FairSpec` of the IndexNow queue: time passes, the worker loop polls every second
in the order of `next_attempt_at`, the engine does not refuse for ever a URL it is
asked about again and again, and a lease of 45 s does not always run out under a
delivery that takes at most 15 s. Publishers owe nothing, nor does `Crash`.
`FairSpec` of the uploads: the timer starts maintenance again and again; a save in
progress ends, and PostgreSQL grants the lock to who waits for it; from some time
on the maintenance process reaches the end of its runs; and a store or database
asked again and again does not fail for ever. Users owe nothing: an upload may
stay half done, and a reference to it may come and go.
`MusicCleanup`: the loop ticks every 30 s, so what is claimable is claimed; a store
asked again and again deletes at last, and three minutes do not always run out
under deletions of at most 15 s each. `SongAudio`: the import worker's loop takes
the oldest claimable job; a worker that runs goes on but may die at every claim,
so `EveryJobEnds` ends at `MaxClaim`, the bound. `AlbumImport`: workers poll, and what can be claimed
again and again is claimed by some worker; deletions happen, in any order; a lease lapses
once its holder is gone, and also under a slow one; what is due is cleaned up and
what is ready is committed unless store or database fail for ever. `FullText`: the
tickers start cycles for ever and time passes; recovery does not fail every time;
a deferred item finds its host free at last. `CollabHub`: the runtime schedules
every goroutine and Go's select, choosing at random, serves every channel.

## Disagreements between code and comments

* `outbox_draft_reborn`: `outbox_service.go:364` says "Delete only the exact
  revision queued by this send. Later edits always survive." Draft ids come from
  the client and a created draft starts at revision 1, so a draft deleted and
  created again under its id carries the number recorded for the queued send and
  is deleted by it. What does hold is `OnlySentRevisionRemoved`: within one
  creation of the draft no later edit is lost. `OutboxSparesLaterEdits` proves
  that the recreated draft is the only exception: with at most one creation the
  sentence of the comment is true.
* `artifacts_full_batch`: `docs/operations/atoman-mail-workspace-api-20261105.md`
  says that the periodic worker removes "unreferenced compose uploads older than
  30 days" (line 113) and that "failed object deletion is safely retried from its
  retained metadata row" (line 124). A pass selects the first 200 expired rows in
  the order of age, of all users, and passes over those a draft refers to, which
  stay first: once 200 expired uploads are in use, nothing younger is removed or
  retried. With a batch that holds every expired row the property does hold
  (`artifacts`).

The following were met while modelling. The models contain them, and where a
property would fail, it names the exception instead:

* `outbox_service.go:169-170` says that a failed insert "never deletes the
  winner's snapshot". If the insert committed and only its acknowledgement was
  lost, the call deletes the snapshot of its own row, finds that row as winner and
  reports it as queued; dispatch later ends it as `uncertain` (`ackLost` in
  `LiveRowKeepsSnapshot`).
* A transaction that commits although its caller sees an error makes the caller
  delete the copy it has just published (`song_audio_replacement_worker.go:70`,
  `import_commit_service.go:678`); `unsure` in `RevisionsPlayable` and
  `PublishedPlayable`.
* The cover step reads the payload and writes it back whole without a lock
  (`media_import_processor.go:889-899`). A commit request registered in between is
  lost; so are the derived tracks another worker wrote, and a refusal marked or
  cleared, once the lease has changed hands. `RequestKept` names the window, and
  `ImportPromise` has it as an action (`Overwrite`).
* The legacy endpoint that completes an archive upload writes back a payload that it
  read before its transaction and the store's answer
  (`import_multipart_service.go:290`, `:336-366`; routed in `http.go:43`), which is a
  second way to lose a request, and sets the import failed without a look at its
  status if that transaction fails. Multipart uploads are not modelled: `RequestKept`
  and `ImportPromise` speak of the imports that do not use it.
* A playback object is stored first and then named in its row, whose earlier key is
  overwritten and its object not deleted (`media_import_processor.go:1728`, `:1754`). A
  worker that dies between the two, or a second transcoding, leaves an object that no
  cleanup knows of; `orphan` in `CanceledCleaned`.
* A worker that has lost its lease still writes what it has under way:
  `persistDerivedMetadataResult` locks the session but asks neither for its status nor
  for the lease (`media_import_processor.go:1204-1219`), so the tracks of an import that
  is ready, cancelled or published may change. `ReadyKeepsAudio` holds for the tracks
  of whoever wrote last.
* Until the committed import is cleaned up, its rows go on naming the playback object
  that its publication deletes (`import_commit_service.go:692`). Published, repaired,
  refused and retried before that, it is not transcoded again when its file counts as
  processed (`media_import_processor.go:341-367`), and its tracks name an object that
  is gone: the next commit fails until that file is retried. `ReadyKeepsAudio` leaves out
  imports whose album plays something.
* Removing the last upload that is not complete does not queue a submitted import
  (`import_upload_lifecycle_service.go:198-229`), completing it does
  (`import_upload_parts_service.go:175`); the worker's reconciliation or the user's
  start does it later (`Start`).
* A cleanup that cannot succeed, because an album of an earlier release plays what
  is to be deleted, ends `RunOnce` before the claim, of every worker, on every
  tick (`import_worker.go:484`); `Blocked` in `JobEnds`.
* An expired session is cleaned up whether or not a worker is still at it or its
  result is ready (`import_worker.go:605`); `ReadyKeepsAudio` and `SubmittedEnds`
  say so.
* A repaired import still has the request of its first publication, and the
  finalizer publishes it again before the user has seen it
  (`import_upload_lifecycle_service.go:124`).
* A fetch that read its source before an administrator switched it off, and that
  fails, switches it on again (`fulltext_worker.go:516`); the window is named in
  `DisableStays`.
* Recovery gives an item up one attempt earlier than the retry policy does
  (`fulltext_recovery.go:53` against `fulltext_policy.go:24-25`).
* A leave that overtakes its join leaves a closed channel in its room, and the next
  message for it panics the hub (`hub.go:127`); `panicked` in `WritersEnd`.
* `user_hub.go:82-84` sends to a client after releasing the lock under which it was
  found; the channel may be closed meanwhile.
* An album's edit writes back the audio of its last revision for every track it
  keeps (`revision_service.go:743`), and without tracks their titles too, and so
  undoes an audio replacement or a song's edit made in between, although "existing track audio must use the audio replacement
  endpoint" (`revision_handler.go:678`). A song's edit or audio replacement starts
  from the song's last revision, and so undoes lyrics the lyrics editor saved.
  `OnlyAskedChanges` names both: the field was last written by another history.
* Lyrics saved between an album edit's read and its lock of the songs are lost;
  `since` in `OnlyAskedChanges`.
* A field that a stale form repeats unchanged overwrites a newer value without a
  conflict (`revision_service.go:1024`); conflicts are found only in fields both changed.
* An album's edit changes songs that are closed or locked, although
  `ValidateMusicEntryEdit` is to hold "for every write path"
  (`music_wiki_policy.go:43`), and does not supersede a request to close one of
  them ("invalidates stale close requests", `:134`). `Frozen` and `ClosedAsShown`
  name it.
* A review locks the request and then the entry, an edit the entry and then its
  requests (`service_entry_state.go:87`, `music_wiki_policy.go:190`): PostgreSQL may
  end one of the two as a deadlock, which the model treats as a transaction rolled
  back.

## Proofs

All checked by TLAPS, for every value of the constants that satisfies the
module's assumption (`MailAssumption`, `QueueAssumption`, `ArtifactsAssumption`,
`CleanupAssumption`, `AudioAssumption`, `ImportAssumption`,
`RevisionsAssumption`, `FullTextAssumption`, `HubAssumption`). The type invariant of each of these
modules is a part of its inductive invariant, and proved with it.

*Outbox.* `SentAtMostOnce` is not inductive: nothing in it says that a worker
about to submit is the first. The invariant `IInv` of `MailOutboxProofs` adds
where each worker stands to what has become of its row (`Claims`): before the
submission the row is in dispatch or uncertain and was never accepted, and no two
workers share a row (`NoSharedClaim`); that acceptances and receipts agree with
the row (`Accepted`); that a reconciler's proof is true (`Proven`); and, for the
snapshots, that whoever is about to delete one has seen a status that never
changes (`Snapshots`). One lemma per group of actions and one step per action
show that it is kept. `OutboxTerminalIsFinal` (terminal statuses never change)
follows from the conditional updates and `Claims`; no run lists it, since the run
that checks `KeepsPromise` checks it too. `RInv`, on top of it, says that an answer names a row of its
own request and content and that a request has one row; the unique index and the
fact that rows never disappear keep it. `OutboxKeepsPromise` maps every step to a
step or a stutter of `MailPromise`, using `IInv` where the abstract action demands
that nothing was delivered yet.

`OutboxRemovesOnlySentRevision` looks at the steps a draft can be lost in: a send
takes it only at the recorded revision, and the recorded creation is never in the
future (`Revisions`), so an equal revision of the same creation is the text that
was sent. Where a draft is created once, `Born` makes every creation the first,
and the unrestricted `LaterEditsSurvive` follows. `OutboxCanConfirm` is the
part of `AcceptedIsConfirmed` that must hold at every moment: an accepted message
is in a status the reconciler looks at, or sent, and its import is in the mailbox,
since a worker submits only after its import was confirmed (`Imported`).

*Uploads.* `AttachmentsStay` needs to know that nothing a draft is *about* to
refer to can be retired: `Saving` says so of the attachments a save has checked,
`Maintained` that a process about to mark an upload holds the lock and has seen no
reference to it, `Known` that a live row nobody asked to delete has its bytes.
Since save and retirement exclude each other, each of the two finds the other's
result. `GoneLeavesNothing` rests on the order object, then row, of both deleters.

*IndexNow.* `NoChangeLost` needs to know that a worker about to delete a row under
its token and revision has delivered everything published. `IInv` of
`QueueProofs` says that a worker's token is in use and differs from every
other's (`TokensInUse`, `TokensDiffer`), that a row under a worker's token has at
least the revision it claimed (`RevisionAhead`), and that an equal revision after
an accepted submission means the change is covered (`DeliveredIsCovered`).
Deleting under the revision alone (`DeliveredUnheld`) breaks it: revisions restart
at 1.

*Cleanup queue.* `KeepsPromise` is a step-by-step refinement: a row leaves only
while its object is gone (`DeletedIsGone`). A worker's deletion may be minutes
old, so this needs that nobody writes the key again: `OnlyWritten` says that only
keys already written are queued, claimed or on their way, and a key is written
once.

*Song audio.* `RevisionsPlayable` turns on the destination keys. Each claim has a
number of its own (`Leases`), the keys of claims to come are unused (`Unused`), and
the key of a claim under way is its worker's alone: not condemned and not named
by any revision before the switch (`Own`). So what a refused worker throws away
nobody plays, and what the queue still has to delete was used up or never
published (`Owed`, `Named`). `ContractKept` discharges what `CleanupPromise` asks
of its user, so `SongAudio` and `MusicCleanup` compose. `ReplacementKeepsPromise`
maps every step to a step or a stutter of `AudioPromise`. Beyond that invariant it
needs that an upload loses its row before its object, so that one with a row can
be used (`Spare`), and that a published copy belongs to a completed job, so that
what a song is switched to no song has had (`Switched`).

*Album import.* `LeaseExclusive` follows from `Leases`: claims are numbered and a
token is never given out again, though attempts are reset. `PublishedPlayable`
needs that what a handler still has to delete is not what an album plays: copies
are named afresh, and a playback object is thrown away only once the album plays
a copy (`Owned`, `Doomed`). `ReadyKeepsAudio` is about whatever the tracks name when
the import becomes ready, and they may be written by any worker that ever claimed it,
or go back to what a cover step read. So `Kept` speaks of every playback object that a
row, the tracks or what a worker read mentions, or that a worker has stored and not yet
recorded: it is in the store as long as the import has its source and no album, since a
cleanup takes the source first and a publication makes an album. What is left are
imports whose source a cleanup took: `Stopped` says that such an import is not ready
unless it is due, and that the holder of its lease has not gone past its first step,
which asks for the source. `RequestsKept` is a look at every write of the payload.
`ActiveHasJob` is the part of `JobEnds` that must hold at
every moment: session and job, two tables that different operations write, agree
on whether the import is at work, a running job has a token and a queued one an
attempt left (`JobsAgree`). `ImportKeepsPromise` maps every step to a step or a
stutter of `ImportPromise`: a claim begins a try, completion, retry and recovery end
it, and a commit, whoever makes it, publishes. It needs, beyond the above, that an
import past its upload is complete and that only one with a cover has its payload
written back whole (`Owned`, `Named`, `Covered`), and `FreshCopy`, that a published copy is nobody's
yet. What
`CanceledForGood` says of a cancelled import is a consequence; no run lists it.

*Music wiki.* None of the three properties is inductive. `Frozen` needs `Open`: a
song's transaction holds its row, so the entry stays open until it writes.
`ClosedAsShown` needs `StillShown`: while a request to close is pending, the entry
shows what its author saw, or the album wrote the song, and `Single`: there is at
most one request. `OnlyAskedChanges` needs to know what the
histories hold: the row agrees with the history that wrote it last (`SongLast`,
`AlbumLast`), and what an album's transaction writes unasked is what is there,
unless it was written since (`Drafted`, `Fresh`). One lemma per action shows that
they are kept.

*Full text.* `HostsServedSingly` rests on `Excluded` (the in-memory locks keep the
jobs of one cycle apart) and `Holding` (a job past the host's lease holds it and
the lease has not run out under it: a request is shorter than its host lease).
`SwitchedOnBy` rests on `SeenEnabled`: what was fetched was seen enabled.

*Hub.* `InOrder` speaks of what arrived, and says nothing of what is on its way.
All messages of one sender to one client take one way: the hub's channel, the
client's channel, the connection. `RelayInv` says that each stretch of it is in
order for each sender (`Rising`), that nothing on a later stretch was written after
anything on an earlier one (`Before`), that no message carries a number its sender
has not used (`Counted`), and that a client is only sent what others of its room
wrote (`ForPeer`). Lemmas about appending to a queue and taking its head serve
each of the three moves. `RelayLosesNoLeave` is the part of `WritersEnd` that must
hold at every moment: a client whose reader is gone has its channel closed or its
leave in the hub's channel (`LeavesArrive`). `QueueProofs` extends both queues;
the definitions of `CollabHub` that every module has carry the prefix `Relay` so
that it can.

*Only model-checked.* Every invariant, action property and refinement that a
passing run checks is proved. What stays with TLC is liveness, since this prover
has neither fairness nor `ENABLED`: `QueuedIsDispatched`, `AcceptedIsConfirmed`,
`EveryRowLeaves`, `ExpiredUploadsLeave`, `QueueDrains`, `EveryJobEnds`, `JobEnds`,
`SubmittedEnds`, `CanceledCleaned`, `FetchingEnds`, `WaitingSettles` and
`WritersEnd`; of `AcceptedIsConfirmed`, `JobEnds` and `WritersEnd` the safety part
is a theorem, as said above. The two disagreements are counterexamples found by
TLC. No model has a recursive operator.

## Running

    tlc -workers 2 -config outbox_delivery.cfg MCMailOutbox
    tlapm MailOutboxProofs.tla
