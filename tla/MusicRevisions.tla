--------------------------- MODULE MusicRevisions ---------------------------
(***************************************************************************)
(* The wiki history of an album and its songs (internal/service,           *)
(* internal/modules/music).  Songs and album have revisions of their own;  *)
(* an album's hold its songs' content too, and the lyrics editor writes a  *)
(* song's lyrics without one.  Every edit is a transaction that locks the  *)
(* row of its entry, checks that the entry is open and writes the row and  *)
(* the new revision; an album's reads the lyrics before it locks the songs.*)
(* Entries are closed and reopened on request or by an administrator.      *)
(***************************************************************************)
EXTENDS Naturals, Sequences

CONSTANTS
  Song, Album, \* the entries: one album and its songs
  Text,        \* the fields of a song beside lyrics and audio that its revisions and the album's hold
  Value,       \* what a field may hold
  First,       \* the songs as they were created
  Recorded,    \* the entries created with a revision, as all but the tracks an album's edit adds are
  MaxVersion   \* bound on the revisions of each entry

Entry == Song \union {Album}
Field == Text \union {"lyrics", "audio"}
Content == [Field -> Value]
Tracks == UNION {[S -> Content] : S \in SUBSET Song} \* an album's revision: its open songs

ASSUME RevisionsAssumption ==
  /\ Album \notin Song /\ {"lyrics", "audio"} \intersect Text = {}
  /\ First \in [Song -> Content] /\ Recorded \subseteq Entry
  /\ MaxVersion \in [Entry -> Nat]

VARIABLES
  live,    \* the row of each song
  revs,    \* the revisions of each entry, the current one last
  edit,    \* edit_status
  request, \* the pending state request of each entry, if any, and what its author was shown
  tx,      \* each song: the transaction that has its row locked, "lyrics" if it names nothing else
  draft,   \* the album's transaction, if any: what it is about to write, and which of it was asked for
  writer,  \* history: who wrote each field of a song last
  since    \* history: songs written since the album's transaction read them

rowVars == <<live, revs>>
entryVars == <<edit, request>>
histVars == <<writer, since>>
vars == <<rowVars, entryVars, tx, draft, histVars>>

Current(history) == history[Len(history)]

\* createBaselineRevision: the first edit of an entry without a revision records what it finds.
SongHistory(s) == IF revs[s] = <<>> THEN <<live[s]>> ELSE revs[s]
AlbumHistory == IF revs[Album] = <<>> THEN <<live>> ELSE revs[Album]

\* What a page of the entry shows of it.
Shown(e) == IF e = Album THEN Current(AlbumHistory) ELSE live[e]

Init ==
  /\ live = First
  /\ revs = [e \in Entry |-> IF e \notin Recorded THEN <<>> ELSE IF e = Album THEN <<First>> ELSE <<First[e]>>]
  /\ edit = [e \in Entry |-> "development"] /\ request = [e \in Entry |-> {}]
  /\ tx = [s \in Song |-> "none"] /\ draft = {}
  /\ writer = [s \in Song |-> [f \in Field |-> "song"]] /\ since = {}

------------------------------------------------------------------------------
(* What the edits of songs and album share *)

\* Fault: nobody waits for the lock of a row.
RowFreeAlways(e) == TRUE

\* The lock of an entry's row is free.
RowFree(e) == IF e = Album THEN draft = {} ELSE tx[e] = "none"

\* SupersedeMusicCloseRequests: a revision other than its base makes a request to close stale.
WithoutClose(e) == {r \in request[e] : r.action # "close"}

\* musicRevisionEditWar: whether editors kept undoing each other, and who they are, is left open.
MayLock(e) == edit' = edit \/ edit' = [edit EXCEPT ![e] = "locked"]

\* The end of a song's transaction.
Unlock(s) == tx' = [tx EXCEPT ![s] = "none"] /\ UNCHANGED draft
Wrote(s) == since' = IF draft = {} THEN since ELSE since \union {s}

------------------------------------------------------------------------------
(* Songs *)

\* ValidateMusicEntryEdit: the song's row is locked, the album's status only read.
Begin(s, kind) ==
  /\ RowFree(s) /\ edit[s] = "development"
  /\ edit[Album] = "closed" => kind = "lyrics"
  /\ tx' = [tx EXCEPT ![s] = kind]
  /\ UNCHANGED <<rowVars, entryVars, draft, histVars>>

\* Conflicts, invalid values and everything else that rolls a transaction back.
Abort(s) ==
  /\ tx[s] # "none" /\ Unlock(s)
  /\ UNCHANGED <<rowVars, entryVars, histVars>>

WriteRevision(s, content) ==
  /\ Len(SongHistory(s)) < MaxVersion[s]
  /\ revs' = [revs EXCEPT ![s] = Append(SongHistory(s), content)]
  /\ live' = [live EXCEPT ![s] = content]
  /\ writer' = [writer EXCEPT ![s] = [f \in Field |-> "song"]] /\ Wrote(s)
  /\ request' = [request EXCEPT ![s] = WithoutClose(s)] /\ MayLock(s)
  /\ Unlock(s)

\* detectConflicts: a named field was changed both by the editor and since.
Conflict(base, mine, current) == mine # base /\ mine # current /\ base # current

\* mergeRevisionChanges: what is named replaces, the rest stays.
Merge(new, old) == [f \in Field |-> IF f \in DOMAIN new THEN new[f] ELSE old[f]]

\* CreateRevision, with what the editor gave the fields named and the revision they started from.
EditSong(s, new, base) ==
  /\ DOMAIN new # {} /\ tx[s] = IF DOMAIN new = {"lyrics"} THEN "lyrics" ELSE "any"
  /\ LET history == SongHistory(s) IN
       /\ base \in DOMAIN history
       /\ \A f \in DOMAIN new : ~Conflict(history[base][f], new[f], Current(history)[f])
       /\ WriteRevision(s, Merge(new, Current(history)))

RevertSong(s, version) ==
  /\ tx[s] = "any" /\ version \in DOMAIN revs[s]
  /\ WriteRevision(s, revs[s][version])

\* ApplySongAudioReplacement, once the job's copy is in place (see SongAudio).
ReplaceAudio(s, audio) ==
  /\ tx[s] = "any"
  /\ WriteRevision(s, [Current(SongHistory(s)) EXCEPT !["audio"] = audio])

\* Fault: the lyrics editor leaves requests to close the song pending.
SupersededNever(s) == request[s]

\* SupersedeAllMusicCloseRequests
Superseded(s) == WithoutClose(s)

\* SaveSongLyrics, RevertSongLyrics: no revision of the song is written.
SaveLyrics(s, lyrics) ==
  /\ tx[s] = "lyrics"
  /\ live' = [live EXCEPT ![s]["lyrics"] = lyrics]
  /\ writer' = [writer EXCEPT ![s]["lyrics"] = "lyrics"] /\ Wrote(s)
  /\ request' = [request EXCEPT ![s] = Superseded(s)] /\ MayLock(s)
  /\ Unlock(s) /\ UNCHANGED revs

------------------------------------------------------------------------------
(* The album *)

\* Fault: a track keeps the lyrics of the album's revision.
HydratedNever(tracks) == tracks

\* mergeRevisionChangesWithDB: the lyrics are the songs' own, not those of the album's revision.
Hydrated(tracks) ==
  [s \in DOMAIN tracks |-> [tracks[s] EXCEPT !["lyrics"] = live[s]["lyrics"]]]

\* The tracks the editor kept, each with its text and perhaps its lyrics.  A track the
\* revision does not have is taken from its row.
Merged(tracks, new) ==
  [s \in DOMAIN new |-> Merge(new[s], IF s \in DOMAIN tracks THEN Hydrated(tracks)[s] ELSE live[s])]

BeginAlbum(tracks, asked) ==
  /\ RowFree(Album) /\ edit[Album] = "development"
  /\ draft' = {[history |-> AlbumHistory, tracks |-> tracks, asked |-> asked]} /\ since' = {}
  /\ UNCHANGED <<rowVars, entryVars, tx, writer>>

\* CreateRevision with tracks; audio is not among what an editor names.
EditTracks(new, base) ==
  LET current == Current(AlbumHistory) IN
    /\ DOMAIN new \subseteq DOMAIN current /\ base \in DOMAIN AlbumHistory
    /\ ~Conflict(AlbumHistory[base], Merged(AlbumHistory[base], new), current)
    /\ BeginAlbum(Merged(current, new), UNION {{s} \X DOMAIN new[s] : s \in DOMAIN new})

\* CreateRevision without tracks: title, cover and the like.
EditAlbum == BeginAlbum(Hydrated(Current(AlbumHistory)), {})

RevertAlbum(version) ==
  /\ version \in DOMAIN revs[Album]
  /\ BeginAlbum(revs[Album][version], (DOMAIN revs[Album][version]) \X Field)

\* applyAlbumRevisionSnapshot, to songs open or not; tracks left out are closed as songs.
ApplyAlbum ==
  /\ \A s \in Song : RowFree(s)
  /\ \E d \in draft :
       /\ Len(d.history) < MaxVersion[Album]
       /\ live' = [s \in Song |-> IF s \in DOMAIN d.tracks THEN d.tracks[s] ELSE live[s]]
       /\ revs' = [revs EXCEPT ![Album] = Append(d.history, d.tracks)]
       /\ writer' = [s \in Song |-> IF s \in DOMAIN d.tracks THEN [f \in Field |-> "album"] ELSE writer[s]]
  /\ request' = [request EXCEPT ![Album] = WithoutClose(Album)] /\ MayLock(Album)
  /\ draft' = {} /\ since' = {} /\ UNCHANGED tx

AbortAlbum ==
  /\ draft # {} /\ draft' = {} /\ since' = {}
  /\ UNCHANGED <<rowVars, entryVars, tx, writer>>

------------------------------------------------------------------------------
(* Entry states (service_entry_state.go) *)

Target(action) == IF action = "close" THEN "closed" ELSE "development"

\* validateMusicStateAction
Applies(e, action) ==
  edit[e] = CASE action = "close" -> "development" [] action = "reopen" -> "closed" [] action = "unlock" -> "locked"

\* CreateMusicEntryStateRequest
Ask(e, action) ==
  /\ RowFree(e) /\ Applies(e, action) /\ request[e] = {}
  /\ action = "close" => revs[e] # <<>>
  /\ request' = [request EXCEPT ![e] = {[action |-> action, base |-> Len(revs[e]), shown |-> Shown(e)]}]
  /\ UNCHANGED <<rowVars, edit, tx, draft, histVars>>

\* ReviewMusicEntryStateRequest: a request to close an older revision is superseded instead.
Approve(e) ==
  /\ RowFree(e)
  /\ \E r \in request[e] :
       /\ Applies(e, r.action)
       /\ edit' = IF r.action = "close" /\ r.base # Len(revs[e]) THEN edit
                  ELSE [edit EXCEPT ![e] = Target(r.action)]
  /\ request' = [request EXCEPT ![e] = {}]
  /\ UNCHANGED <<rowVars, tx, draft, histVars>>

\* CancelMusicEntryStateRequest, or a rejection; only the request's row is needed to cancel.
Withdraw(e) ==
  /\ request[e] # {} /\ request' = [request EXCEPT ![e] = {}]
  /\ UNCHANGED <<rowVars, edit, tx, draft, histVars>>

\* EmergencyMusicEntryState
Emergency(e, status) ==
  /\ RowFree(e) /\ edit[e] # status
  /\ edit' = [edit EXCEPT ![e] = status] /\ request' = [request EXCEPT ![e] = {}]
  /\ UNCHANGED <<rowVars, tx, draft, histVars>>

------------------------------------------------------------------------------
\* What an editor may give: some fields of a song; the text, and perhaps the lyrics, of some tracks.
Named == UNION {[fields -> Value] : fields \in SUBSET (Text \union {"lyrics"})}
KeptTracks ==
  UNION {[kept -> [Text -> Value] \union [Text \union {"lyrics"} -> Value]] : kept \in SUBSET Song}

EditsSong(s) ==
  \/ \E kind \in {"lyrics", "any"} : Begin(s, kind)
  \/ Abort(s)
  \/ \E new \in Named, base \in 1 .. MaxVersion[s] : EditSong(s, new, base)
  \/ \E version \in 1 .. MaxVersion[s] : RevertSong(s, version)
  \/ \E v \in Value : ReplaceAudio(s, v) \/ SaveLyrics(s, v)

EditsAlbum ==
  \/ \E new \in KeptTracks, base \in 1 .. MaxVersion[Album] : EditTracks(new, base)
  \/ EditAlbum \/ \E version \in 1 .. MaxVersion[Album] : RevertAlbum(version)
  \/ ApplyAlbum \/ AbortAlbum

ChangesState(e) ==
  \/ \E action \in {"close", "reopen", "unlock"} : Ask(e, action)
  \/ Approve(e) \/ Withdraw(e)
  \/ \E status \in {"development", "locked", "closed"} : Emergency(e, status)

Next == (\E s \in Song : EditsSong(s)) \/ EditsAlbum \/ \E e \in Entry : ChangesState(e)

Spec == Init /\ [][Next]_vars

------------------------------------------------------------------------------
(* Properties *)

TypeOK ==
  /\ live \in [Song -> Content]
  /\ \A s \in Song : revs[s] \in Seq(Content)
  /\ revs[Album] \in Seq(Tracks) /\ DOMAIN revs = Entry /\ DOMAIN request = Entry
  /\ edit \in [Entry -> {"development", "locked", "closed"}]
  /\ \A e \in Entry : \A r \in request[e] :
       r.action \in {"close", "reopen", "unlock"} /\ r.base \in Nat
  /\ tx \in [Song -> {"none", "lyrics", "any"}]
  /\ \A d \in draft : d.tracks \in Tracks /\ d.history \in Seq(Tracks)
  /\ writer \in [Song -> [Field -> {"song", "album", "lyrics"}]] /\ since \subseteq Song

\* What a step asks of a song's field.
AskedOfSong(s, f) ==
  \/ \E new \in Named, base \in 1 .. MaxVersion[s] : f \in DOMAIN new /\ EditSong(s, new, base)
  \/ \E version \in 1 .. MaxVersion[s] : RevertSong(s, version)
  \/ \E v \in Value : (f = "audio" /\ ReplaceAudio(s, v)) \/ (f = "lyrics" /\ SaveLyrics(s, v))
AskedOfAlbum(s, f) == \E d \in draft : <<s, f>> \in d.asked /\ ApplyAlbum

\* An edit changes what it names and nothing else, unless the song's history, the album's
\* and the lyrics editor meet: a field is brought back only from a history other than the
\* one that wrote it last, and lyrics by the album only if they were saved while its
\* edit was under way (the merges of CreateRevision and ApplySongAudioReplacement).
OnlyAskedChanges ==
  [][\A s \in Song, f \in Field : live'[s][f] # live[s][f] =>
       \/ AskedOfAlbum(s, f) \/ AskedOfSong(s, f)
       \/ /\ writer'[s][f] # writer[s][f]
          /\ f = "lyrics" /\ writer'[s][f] = "album" => s \in since]_vars

\* An entry closed on request shows what it showed to the author of the request, whatever
\* edits, reverts and lyrics were saved in between, unless an edit of the album rewrote the
\* song ("invalidates stale close requests").
ClosedAsShown ==
  [][\A e \in Entry : edit'[e] = "closed" /\ Approve(e) =>
       \A r \in request[e] : Shown(e) = r.shown \/ (e \in Song /\ \E f \in Field : writer[e][f] = "album")]_vars

\* A song that is not open for edits changes only with its album, even if it was closed
\* while an edit was under way.
Frozen ==
  [][\A s \in Song : edit[s] # "development" /\ live'[s] # live[s] => ApplyAlbum]_vars
==============================================================================
