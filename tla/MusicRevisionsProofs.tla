------------------------ MODULE MusicRevisionsProofs ------------------------
(***************************************************************************)
(* What MusicRevisions keeps for every number of songs, fields, values and *)
(* revisions: the invariant behind its three properties, and the           *)
(* properties themselves.                                                  *)
(***************************************************************************)
EXTENDS MusicRevisions, TLAPS

\* A song's transaction only began on an entry open for edits, and it stays so.
Open == \A s \in Song : tx[s] # "none" => edit[s] = "development"

\* An entry has one request at a time.
Single == \A e \in Entry : \A q, r \in request[e] : q = r

\* A request to close is about a revision, and what its author saw is still shown.
StillShown ==
  \A e \in Entry : \A r \in request[e] : r.action = "close" =>
    /\ revs[e] # <<>>
    /\ Shown(e) = r.shown \/ (e \in Song /\ \E f \in Field : writer[e][f] = "album")

\* The row agrees with the history that wrote it last.
SongLast ==
  \A s \in Song, f \in Field : writer[s][f] = "song" => live[s][f] = Current(SongHistory(s))[f]
AlbumLast ==
  \A s \in Song, f \in Field :
    s \in DOMAIN Current(AlbumHistory) /\ writer[s][f] = "album" => live[s][f] = Current(AlbumHistory)[s][f]

\* What the album's transaction writes without being asked is what is there, unless a song's
\* own history, or anything since for its lyrics, wrote it.
Drafted ==
  \A d \in draft : \A s \in DOMAIN d.tracks, f \in Field : <<s, f>> \notin d.asked =>
    /\ f # "lyrics" /\ writer[s][f] = "album" => d.tracks[s][f] = live[s][f]
    /\ f = "lyrics" /\ s \notin since => d.tracks[s][f] = live[s][f]
Fresh == \A s \in since : writer[s]["lyrics"] # "album"

IInv ==
  /\ TypeOK /\ Open /\ Single /\ StillShown
  /\ SongLast /\ AlbumLast /\ Drafted /\ Fresh

------------------------------------------------------------------------------
(* Histories and contents *)

\* The last revision of a history that has one is a revision.
LEMMA CurrentIn ==
  ASSUME NEW S, NEW h \in Seq(S), h # <<>>
  PROVE  Current(h) \in S
BY DEF Current

LEMMA CurrentFirst ==
  ASSUME NEW S, NEW x \in S
  PROVE  <<>> \in Seq(S) /\ <<x>> \in Seq(S) /\ Current(<<x>>) = x
BY DEF Current

\* A revision written last is the current one.
LEMMA CurrentLast ==
  ASSUME NEW S, NEW h \in Seq(S), NEW x \in S
  PROVE  Append(h, x) \in Seq(S) /\ Append(h, x) # <<>> /\ Current(Append(h, x)) = x
BY DEF Current

LEMMA HistoriesIn ==
  ASSUME TypeOK
  PROVE  /\ \A s \in Song : SongHistory(s) \in Seq(Content) /\ SongHistory(s) # <<>>
         /\ AlbumHistory \in Seq(Tracks) /\ AlbumHistory # <<>>
<1>1. ASSUME NEW s \in Song PROVE SongHistory(s) \in Seq(Content) /\ SongHistory(s) # <<>>
  BY <1>1 DEF TypeOK, SongHistory
<1>2. live \in Tracks
  BY DEF TypeOK, Tracks
<1>3. AlbumHistory \in Seq(Tracks) /\ AlbumHistory # <<>>
  BY <1>2 DEF TypeOK, AlbumHistory
<1>4. QED
  BY <1>1, <1>3

\* What an editor names replaces, the rest stays.
LEMMA NamedContent ==
  ASSUME NEW new \in Named, NEW old \in Content
  PROVE  /\ Merge(new, old) \in Content
         /\ \A f \in Field : f \notin DOMAIN new => Merge(new, old)[f] = old[f]
<1>1. PICK fields \in SUBSET (Text \union {"lyrics"}) : new \in [fields -> Value]
  BY DEF Named
<1>2. QED
  BY <1>1 DEF Merge, Content, Field

LEMMA HydratedTracks ==
  ASSUME TypeOK, NEW tracks \in Tracks
  PROVE  /\ Hydrated(tracks) \in Tracks /\ DOMAIN Hydrated(tracks) = DOMAIN tracks
         /\ DOMAIN tracks \subseteq Song
         /\ \A s \in DOMAIN tracks, f \in Field :
              Hydrated(tracks)[s][f] = IF f = "lyrics" THEN live[s][f] ELSE tracks[s][f]
<1>1. PICK S \in SUBSET Song : tracks \in [S -> Content]
  BY DEF Tracks
<1>2. \A s \in S : tracks[s] \in Content /\ live[s] \in Content
  BY <1>1 DEF TypeOK
<1>3. DOMAIN Hydrated(tracks) = S
  BY <1>1 DEF Hydrated
<1>4. ASSUME NEW s \in S
      PROVE  /\ Hydrated(tracks)[s] \in Content
             /\ \A f \in Field : Hydrated(tracks)[s][f] = IF f = "lyrics" THEN live[s][f] ELSE tracks[s][f]
  BY <1>1, <1>2 DEF Hydrated, Content, Field
<1>5. Hydrated(tracks) = [s \in S |-> Hydrated(tracks)[s]]
  BY <1>1 DEF Hydrated
<1>6. Hydrated(tracks) \in [S -> Content]
  BY <1>4, <1>5
<1>7. QED
  BY <1>1, <1>3, <1>4, <1>6 DEF Tracks

LEMMA MergedTracks ==
  ASSUME TypeOK, NEW tracks \in Tracks, NEW new \in KeptTracks
  PROVE  /\ Merged(tracks, new) \in Tracks /\ DOMAIN Merged(tracks, new) = DOMAIN new
         /\ \A s \in DOMAIN new, f \in Field :
              s \in DOMAIN tracks /\ f \notin DOMAIN new[s] => Merged(tracks, new)[s][f] = Hydrated(tracks)[s][f]
<1>1. PICK kept \in SUBSET Song :
        new \in [kept -> [Text -> Value] \union [Text \union {"lyrics"} -> Value]]
  BY DEF KeptTracks
<1> DEFINE old(s) == IF s \in DOMAIN tracks THEN Hydrated(tracks)[s] ELSE live[s]
<1>2. ASSUME NEW s \in kept PROVE new[s] \in Named /\ old(s) \in Content
  <2>1. new[s] \in Named
    BY <1>1 DEF Named
  <2>2. Hydrated(tracks) \in Tracks /\ DOMAIN Hydrated(tracks) = DOMAIN tracks
    BY HydratedTracks
  <2>3. s \in DOMAIN tracks => Hydrated(tracks)[s] \in Content
    BY <2>2 DEF Tracks
  <2>4. live[s] \in Content
    BY DEF TypeOK
  <2>5. QED
    BY <2>1, <2>3, <2>4
<1>3. Merged(tracks, new) = [s \in kept |-> Merge(new[s], old(s))]
  BY <1>1 DEF Merged
<1>4. ASSUME NEW s \in kept
      PROVE  /\ Merge(new[s], old(s)) \in Content
             /\ \A f \in Field : f \notin DOMAIN new[s] => Merge(new[s], old(s))[f] = old(s)[f]
  <2> HIDE DEF old
  <2>1. QED
    BY <1>2, NamedContent
<1>5. Merged(tracks, new) \in [kept -> Content]
  BY <1>3, <1>4
<1>6. QED
  BY <1>1, <1>3, <1>4, <1>5 DEF Tracks

\* An album's transaction writes songs.
LEMMA DraftedSongs ==
  ASSUME TypeOK, NEW d \in draft
  PROVE  DOMAIN d.tracks \subseteq Song
<1>1. d.tracks \in Tracks
  BY DEF TypeOK
<1>2. QED
  BY <1>1, HydratedTracks

LEMMA Lengths ==
  ASSUME TypeOK, NEW e \in Entry
  PROVE  Len(revs[e]) \in Nat
<1>1. CASE e \in Song
  BY <1>1 DEF TypeOK
<1>2. CASE e = Album
  BY <1>2 DEF TypeOK
<1>3. QED
  BY <1>1, <1>2 DEF Entry

------------------------------------------------------------------------------
(* Every step keeps the invariant *)

\* A song's new revision.
LEMMA WriteKeeps ==
  ASSUME IInv, NEW s \in Song, NEW content \in Content, WriteRevision(s, content)
  PROVE  IInv'
<1> USE DEF IInv
<1>1. s # Album /\ s \in Entry /\ Song \subseteq Entry /\ Album \in Entry
  BY RevisionsAssumption DEF Entry
<1>2. /\ SongHistory(s) \in Seq(Content)
      /\ revs' = [revs EXCEPT ![s] = Append(SongHistory(s), content)]
      /\ live' = [live EXCEPT ![s] = content]
      /\ writer' = [writer EXCEPT ![s] = [f \in Field |-> "song"]]
      /\ since' = IF draft = {} THEN since ELSE since \union {s}
      /\ request' = [request EXCEPT ![s] = {r \in request[s] : r.action # "close"}]
      /\ edit' = edit \/ edit' = [edit EXCEPT ![s] = "locked"]
      /\ tx' = [tx EXCEPT ![s] = "none"] /\ draft' = draft
  BY HistoriesIn DEF WriteRevision, Wrote, WithoutClose, MayLock, Unlock
<1>3. /\ revs'[s] \in Seq(Content) /\ revs'[s] # <<>> /\ Current(revs'[s]) = content
      /\ \A e \in Entry : e # s => revs'[e] = revs[e]
  <2>1. revs'[s] = Append(SongHistory(s), content) /\ \A e \in Entry : e # s => revs'[e] = revs[e]
    BY <1>1, <1>2 DEF TypeOK
  <2>2. QED
    BY <2>1, <1>2, CurrentLast
<1>4. live'[s] = content /\ \A t \in Song : t # s => live'[t] = live[t] /\ writer'[t] = writer[t]
  BY <1>2 DEF TypeOK
<1>5. writer'[s] = [f \in Field |-> "song"]
  BY <1>2 DEF TypeOK
<1>6. TypeOK'
  <2>1. live' \in [Song -> Content] /\ writer' \in [Song -> [Field -> {"song", "album", "lyrics"}]]
    BY <1>2 DEF TypeOK
  <2>2. /\ \A t \in Song : revs'[t] \in Seq(Content)
        /\ revs'[Album] \in Seq(Tracks) /\ DOMAIN revs' = Entry /\ DOMAIN request' = Entry
    BY <1>1, <1>2, <1>3 DEF TypeOK
  <2>3. edit' \in [Entry -> {"development", "locked", "closed"}] /\ tx' \in [Song -> {"none", "lyrics", "any"}]
    BY <1>1, <1>2 DEF TypeOK
  <2>4. \A e \in Entry : request'[e] \subseteq request[e]
    BY <1>2 DEF TypeOK
  <2>5. \A d \in draft' : d.tracks \in Tracks /\ d.history \in Seq(Tracks)
    BY <1>2 DEF TypeOK
  <2>6. since' \subseteq Song
    BY <1>2 DEF TypeOK
  <2>7. QED
    BY <2>1, <2>2, <2>3, <2>4, <2>5, <2>6 DEF TypeOK
<1>7. Open'
  BY <1>1, <1>2 DEF Open, TypeOK
<1>8. Single'
  BY <1>1, <1>2 DEF Single, TypeOK
<1>9. StillShown'
  <2>1. ASSUME NEW e \in Entry, NEW r \in request'[e], r.action = "close"
        PROVE  /\ revs'[e] # <<>>
               /\ Shown(e)' = r.shown \/ (e \in Song /\ \E f \in Field : writer'[e][f] = "album")
    <3>1. e # s /\ r \in request[e]
      BY <1>1, <1>2, <2>1 DEF TypeOK
    <3>2. revs'[e] = revs[e] /\ revs[e] # <<>>
         /\ (Shown(e) = r.shown \/ (e \in Song /\ \E f \in Field : writer[e][f] = "album"))
      BY <3>1, <2>1, <1>3 DEF StillShown
    <3>3. Shown(e)' = Shown(e)
      BY <3>1, <3>2, <1>4 DEF Shown, AlbumHistory, Entry
    <3>4. QED
      BY <3>1, <3>2, <3>3, <1>4
  <2>2. QED
    BY <2>1 DEF StillShown
<1>10. SongLast'
  BY <1>1, <1>3, <1>4, <1>5 DEF SongLast, SongHistory
<1>11. AlbumLast'
  <2>1. ASSUME NEW t \in Song, NEW f \in Field, t \in DOMAIN Current(AlbumHistory)', writer'[t][f] = "album"
        PROVE  live'[t][f] = Current(AlbumHistory)'[t][f]
    <3>1. t # s
      BY <1>5, <2>1
    <3>2. CASE revs[Album] = <<>>
      BY <3>2, <1>1, <1>3 DEF AlbumHistory, Current
    <3>3. CASE revs[Album] # <<>>
      BY <3>1, <3>3, <1>1, <1>3, <1>4, <2>1 DEF AlbumHistory, AlbumLast
    <3>4. QED
      BY <3>2, <3>3
  <2>2. QED
    BY <2>1 DEF AlbumLast
<1>12. Drafted'
  <2>1. ASSUME NEW d \in draft, NEW t \in DOMAIN d.tracks, NEW f \in Field, <<t, f>> \notin d.asked
        PROVE  /\ f # "lyrics" /\ writer'[t][f] = "album" => d.tracks[t][f] = live'[t][f]
               /\ f = "lyrics" /\ t \notin since' => d.tracks[t][f] = live'[t][f]
    <3>1. CASE t = s
      BY <3>1, <1>2, <1>5
    <3>2. CASE t # s
      <4>1. t \in Song
        BY DraftedSongs
      <4>2. QED
        BY <3>2, <4>1, <1>2, <1>4, <2>1 DEF Drafted
    <3>3. QED
      BY <3>1, <3>2
  <2>2. QED
    BY <2>1, <1>2 DEF Drafted
<1>13. Fresh'
  BY <1>2, <1>4, <1>5 DEF Fresh, TypeOK, Field
<1>14. QED
  BY <1>6, <1>7, <1>8, <1>9, <1>10, <1>11, <1>12, <1>13

\* The lyrics editor.
LEMMA LyricsKeep ==
  ASSUME IInv, NEW s \in Song, NEW lyrics \in Value, SaveLyrics(s, lyrics)
  PROVE  IInv'
<1> USE DEF IInv
<1>1. s # Album /\ s \in Entry /\ Song \subseteq Entry /\ Album \in Entry
  BY RevisionsAssumption DEF Entry
<1>2. /\ live' = [live EXCEPT ![s]["lyrics"] = lyrics]
      /\ writer' = [writer EXCEPT ![s]["lyrics"] = "lyrics"]
      /\ since' = IF draft = {} THEN since ELSE since \union {s}
      /\ request' = [request EXCEPT ![s] = {r \in request[s] : r.action # "close"}]
      /\ edit' = edit \/ edit' = [edit EXCEPT ![s] = "locked"]
      /\ tx' = [tx EXCEPT ![s] = "none"] /\ draft' = draft /\ revs' = revs
  BY DEF SaveLyrics, Superseded, Wrote, WithoutClose, MayLock, Unlock
<1>3. /\ writer'[s]["lyrics"] = "lyrics"
      /\ \A f \in Field : f # "lyrics" => live'[s][f] = live[s][f] /\ writer'[s][f] = writer[s][f]
      /\ \A t \in Song : t # s => live'[t] = live[t] /\ writer'[t] = writer[t]
  BY <1>2 DEF TypeOK, Content, Field
<1>4. TypeOK'
  <2>1. live' \in [Song -> Content] /\ writer' \in [Song -> [Field -> {"song", "album", "lyrics"}]]
    <3>1. live[s] \in Content /\ writer[s] \in [Field -> {"song", "album", "lyrics"}]
      BY DEF TypeOK
    <3>2. /\ [live[s] EXCEPT !["lyrics"] = lyrics] \in Content
          /\ [writer[s] EXCEPT !["lyrics"] = "lyrics"] \in [Field -> {"song", "album", "lyrics"}]
      BY <3>1 DEF Content, Field
    <3>3. QED
      BY <3>2, <1>2 DEF TypeOK
  <2>2. \A e \in Entry : request'[e] \subseteq request[e]
    BY <1>2 DEF TypeOK
  <2>3. edit' \in [Entry -> {"development", "locked", "closed"}] /\ tx' \in [Song -> {"none", "lyrics", "any"}]
    BY <1>1, <1>2 DEF TypeOK
  <2>4. DOMAIN request' = Entry /\ since' \subseteq Song
    BY <1>2 DEF TypeOK
  <2>5. QED
    BY <2>1, <2>2, <2>3, <2>4, <1>2 DEF TypeOK
<1>5. Open'
  BY <1>1, <1>2 DEF Open, TypeOK
<1>6. Single'
  BY <1>1, <1>2 DEF Single, TypeOK
<1>7. StillShown'
  <2>1. ASSUME NEW e \in Entry, NEW r \in request'[e], r.action = "close"
        PROVE  /\ revs'[e] # <<>>
               /\ Shown(e)' = r.shown \/ (e \in Song /\ \E f \in Field : writer'[e][f] = "album")
    <3>1. e # s /\ r \in request[e]
      BY <1>1, <1>2, <2>1 DEF TypeOK
    <3>2. revs[e] # <<>> /\ (Shown(e) = r.shown \/ (e \in Song /\ \E f \in Field : writer[e][f] = "album"))
      BY <3>1, <2>1 DEF StillShown
    <3>3. Shown(e)' = Shown(e)
      BY <3>1, <3>2, <1>2, <1>3 DEF Shown, AlbumHistory, Entry
    <3>4. QED
      BY <3>1, <3>2, <3>3, <1>2, <1>3
  <2>2. QED
    BY <2>1 DEF StillShown
<1>8. SongLast'
  <2>1. ASSUME NEW t \in Song, NEW f \in Field, writer'[t][f] = "song"
        PROVE  live'[t][f] = Current(SongHistory(t))'[f]
    <3>1. t # s \/ f # "lyrics"
      BY <1>3, <2>1
    <3>2. live'[t][f] = live[t][f] /\ writer[t][f] = "song"
      BY <3>1, <1>3, <2>1
    <3>3. CASE revs[t] = <<>>
      BY <3>3, <1>2 DEF SongHistory, Current
    <3>4. CASE revs[t] # <<>>
      BY <3>2, <3>4, <1>2 DEF SongHistory, SongLast
    <3>5. QED
      BY <3>3, <3>4
  <2>2. QED
    BY <2>1 DEF SongLast
<1>9. AlbumLast'
  <2>1. ASSUME NEW t \in Song, NEW f \in Field, t \in DOMAIN Current(AlbumHistory)', writer'[t][f] = "album"
        PROVE  live'[t][f] = Current(AlbumHistory)'[t][f]
    <3>1. t # s \/ f # "lyrics"
      BY <1>3, <2>1
    <3>2. live'[t][f] = live[t][f] /\ writer[t][f] = "album"
      BY <3>1, <1>3, <2>1
    <3>3. CASE revs[Album] = <<>>
      BY <3>3, <1>2 DEF AlbumHistory, Current
    <3>4. CASE revs[Album] # <<>>
      BY <3>2, <3>4, <1>2, <2>1 DEF AlbumHistory, AlbumLast
    <3>5. QED
      BY <3>3, <3>4
  <2>2. QED
    BY <2>1 DEF AlbumLast
<1>10. Drafted'
  <2>1. ASSUME NEW d \in draft, NEW t \in DOMAIN d.tracks, NEW f \in Field, <<t, f>> \notin d.asked
        PROVE  /\ f # "lyrics" /\ writer'[t][f] = "album" => d.tracks[t][f] = live'[t][f]
               /\ f = "lyrics" /\ t \notin since' => d.tracks[t][f] = live'[t][f]
    <3>1. t \in Song
      BY DraftedSongs
    <3>2. CASE t = s
      BY <3>1, <3>2, <1>2, <1>3, <2>1 DEF Drafted
    <3>3. CASE t # s
      BY <3>1, <3>3, <1>2, <1>3, <2>1 DEF Drafted
    <3>4. QED
      BY <3>2, <3>3
  <2>2. QED
    BY <2>1, <1>2 DEF Drafted
<1>11. Fresh'
  BY <1>2, <1>3 DEF Fresh, TypeOK
<1>12. QED
  BY <1>4, <1>5, <1>6, <1>7, <1>8, <1>9, <1>10, <1>11

\* What is not touched by a step that leaves rows, revisions and writers alone.
LEMMA RowsKeep ==
  ASSUME IInv, UNCHANGED <<rowVars, writer>>
  PROVE  SongLast' /\ AlbumLast'
<1>1. SongLast'
  BY DEF IInv, SongLast, SongHistory, rowVars
<1>2. AlbumLast'
  BY DEF IInv, AlbumLast, AlbumHistory, rowVars
<1>3. QED
  BY <1>1, <1>2

LEMMA ShownKeeps ==
  ASSUME IInv, UNCHANGED <<rowVars, writer, request>>
  PROVE  StillShown'
<1>1. \A e \in Entry : Shown(e)' = Shown(e)
  BY DEF Shown, AlbumHistory, rowVars
<1>2. QED
  BY <1>1 DEF IInv, StillShown, rowVars

\* The album's transaction reads what it will write.
LEMMA BeginAlbumKeeps ==
  ASSUME IInv, NEW tracks \in Tracks, NEW asked, BeginAlbum(tracks, asked),
         \A s \in DOMAIN tracks, f \in Field : <<s, f>> \notin asked =>
           tracks[s][f] = IF f = "lyrics" THEN live[s][f] ELSE Current(AlbumHistory)[s][f],
         asked = (DOMAIN tracks) \X Field \/ DOMAIN tracks \subseteq DOMAIN Current(AlbumHistory)
  PROVE  IInv'
<1>1. UNCHANGED <<rowVars, entryVars, tx, writer>> /\ since' = {}
  BY DEF BeginAlbum
<1>2. draft' = {[history |-> AlbumHistory, tracks |-> tracks, asked |-> asked]}
  BY DEF BeginAlbum
<1>3. SongLast' /\ AlbumLast' /\ StillShown'
  BY <1>1, RowsKeep, ShownKeeps DEF entryVars
<1>4. TypeOK'
  <2>1. AlbumHistory \in Seq(Tracks)
    BY HistoriesIn DEF IInv
  <2>2. \A d \in draft' : d.tracks \in Tracks /\ d.history \in Seq(Tracks)
    BY <1>2, <2>1
  <2>3. QED
    BY <1>1, <2>2 DEF IInv, TypeOK, rowVars, entryVars
<1>5. Open' /\ Single' /\ Fresh'
  BY <1>1 DEF IInv, Open, Single, Fresh, entryVars
<1>6. Drafted'
  <2>1. ASSUME NEW s \in DOMAIN tracks, NEW f \in Field, <<s, f>> \notin asked
        PROVE  /\ f # "lyrics" /\ writer[s][f] = "album" => tracks[s][f] = live[s][f]
               /\ f = "lyrics" => tracks[s][f] = live[s][f]
    <3>1. s \in DOMAIN Current(AlbumHistory) /\ s \in Song
      <4>1. DOMAIN tracks \subseteq DOMAIN Current(AlbumHistory)
        BY <2>1
      <4>2. DOMAIN tracks \subseteq Song
        BY HydratedTracks DEF IInv
      <4>3. QED
        BY <4>1, <4>2
    <3>2. QED
      BY <2>1, <3>1 DEF IInv, AlbumLast
  <2>2. live' = live /\ writer' = writer
    BY <1>1 DEF rowVars
  <2>3. QED
    BY <2>1, <2>2, <1>2 DEF Drafted
<1>7. QED
  BY <1>3, <1>4, <1>5, <1>6 DEF IInv

LEMMA EditTracksKeeps ==
  ASSUME IInv, NEW new \in KeptTracks, NEW base, EditTracks(new, base)
  PROVE  IInv'
<1> DEFINE current == Current(AlbumHistory)
           tracks == Merged(current, new)
           asked == UNION {{s} \X DOMAIN new[s] : s \in DOMAIN new}
<1>1. BeginAlbum(tracks, asked) /\ DOMAIN new \subseteq DOMAIN current
  BY DEF EditTracks
<1>2. TypeOK /\ current \in Tracks
  BY HistoriesIn, CurrentIn DEF IInv
<1>3. /\ tracks \in Tracks /\ DOMAIN tracks = DOMAIN new
      /\ \A s \in DOMAIN new, f \in Field :
           s \in DOMAIN current /\ f \notin DOMAIN new[s] => tracks[s][f] = Hydrated(current)[s][f]
  <2> HIDE DEF current
  <2>1. QED
    BY <1>2, MergedTracks
<1>4. \A s \in DOMAIN current, f \in Field :
        Hydrated(current)[s][f] = IF f = "lyrics" THEN live[s][f] ELSE current[s][f]
  <2> HIDE DEF current
  <2>1. QED
    BY <1>2, HydratedTracks
<1>5. ASSUME NEW s \in DOMAIN tracks, NEW f \in Field, <<s, f>> \notin asked
      PROVE  tracks[s][f] = IF f = "lyrics" THEN live[s][f] ELSE current[s][f]
  <2>1. s \in DOMAIN new /\ s \in DOMAIN current
    BY <1>1, <1>3, <1>5
  <2>2. f \notin DOMAIN new[s]
    BY <2>1, <1>5
  <2> HIDE DEF tracks, current
  <2>3. QED
    BY <2>1, <2>2, <1>3, <1>4
<1>6. QED
  <2> HIDE DEF tracks, asked
  <2>1. QED
    BY <1>1, <1>3, <1>5, BeginAlbumKeeps

LEMMA EditAlbumKeeps ==
  ASSUME IInv, EditAlbum
  PROVE  IInv'
<1> DEFINE current == Current(AlbumHistory)
<1>1. TypeOK /\ current \in Tracks
  BY HistoriesIn, CurrentIn DEF IInv
<1>2. /\ Hydrated(current) \in Tracks /\ DOMAIN Hydrated(current) = DOMAIN current
      /\ \A s \in DOMAIN current, f \in Field :
           Hydrated(current)[s][f] = IF f = "lyrics" THEN live[s][f] ELSE current[s][f]
  <2> HIDE DEF current
  <2>1. QED
    BY <1>1, HydratedTracks
<1>3. BeginAlbum(Hydrated(current), {})
  BY DEF EditAlbum
<1>4. QED
  BY <1>2, <1>3, BeginAlbumKeeps

LEMMA RevertAlbumKeeps ==
  ASSUME IInv, NEW version, RevertAlbum(version)
  PROVE  IInv'
<1>1. revs[Album][version] \in Tracks
  BY DEF IInv, TypeOK, RevertAlbum
<1>2. BeginAlbum(revs[Album][version], (DOMAIN revs[Album][version]) \X Field)
  BY DEF RevertAlbum
<1>3. QED
  BY <1>1, <1>2, BeginAlbumKeeps

\* The album's new revision.
LEMMA ApplyAlbumKeeps ==
  ASSUME IInv, ApplyAlbum
  PROVE  IInv'
<1> USE DEF IInv
<1>1. Album \notin Song /\ Song \subseteq Entry /\ Album \in Entry
  BY RevisionsAssumption DEF Entry
<1>2. PICK d \in draft :
       /\ live' = [s \in Song |-> IF s \in DOMAIN d.tracks THEN d.tracks[s] ELSE live[s]]
       /\ revs' = [revs EXCEPT ![Album] = Append(d.history, d.tracks)]
       /\ writer' = [s \in Song |-> IF s \in DOMAIN d.tracks THEN [f \in Field |-> "album"] ELSE writer[s]]
  BY DEF ApplyAlbum
<1>3. /\ request' = [request EXCEPT ![Album] = {r \in request[Album] : r.action # "close"}]
      /\ edit' = edit \/ edit' = [edit EXCEPT ![Album] = "locked"]
      /\ draft' = {} /\ since' = {} /\ tx' = tx
  BY DEF ApplyAlbum, WithoutClose, MayLock
<1>4. d.tracks \in Tracks /\ d.history \in Seq(Tracks) /\ DOMAIN d.tracks \subseteq Song
  BY DraftedSongs DEF TypeOK
<1>5. \A s \in DOMAIN d.tracks : d.tracks[s] \in Content
  BY <1>4 DEF Tracks
<1>6. /\ revs'[Album] \in Seq(Tracks) /\ revs'[Album] # <<>> /\ Current(revs'[Album]) = d.tracks
      /\ \A s \in Song : revs'[s] = revs[s]
  <2>1. revs'[Album] = Append(d.history, d.tracks) /\ \A s \in Song : revs'[s] = revs[s]
    BY <1>1, <1>2 DEF TypeOK
  <2>2. QED
    BY <2>1, <1>4, CurrentLast
<1>7. "audio" \in Field
  BY DEF Field
<1>8. StillShown'
  <2>1. ASSUME NEW e \in Entry, NEW r \in request'[e], r.action = "close"
        PROVE  /\ revs'[e] # <<>>
               /\ Shown(e)' = r.shown \/ (e \in Song /\ \E f \in Field : writer'[e][f] = "album")
    <3>1. e \in Song /\ e # Album /\ r \in request[e]
      BY <1>1, <1>3, <2>1 DEF TypeOK, Entry
    <3>2. revs[e] # <<>> /\ (Shown(e) = r.shown \/ \E f \in Field : writer[e][f] = "album")
      BY <3>1, <2>1 DEF StillShown
    <3>3. CASE e \in DOMAIN d.tracks
      BY <3>1, <3>2, <3>3, <1>2, <1>6, <1>7
    <3>4. CASE e \notin DOMAIN d.tracks
      BY <3>1, <3>2, <3>4, <1>2, <1>6 DEF Shown
    <3>5. QED
      BY <3>3, <3>4
  <2>2. QED
    BY <2>1 DEF StillShown
<1>9. SongLast'
  <2>1. ASSUME NEW s \in Song, NEW f \in Field, writer'[s][f] = "song"
        PROVE  live'[s][f] = Current(SongHistory(s))'[f]
    <3>1. s \notin DOMAIN d.tracks
      BY <1>2, <2>1
    <3>2. QED
      BY <3>1, <2>1, <1>2, <1>6 DEF SongLast, SongHistory
  <2>2. QED
    BY <2>1 DEF SongLast
<1>10. AlbumLast'
  BY <1>2, <1>6 DEF AlbumLast, AlbumHistory
<1>11. TypeOK'
  <2>1. live' \in [Song -> Content] /\ writer' \in [Song -> [Field -> {"song", "album", "lyrics"}]]
    BY <1>2, <1>5 DEF TypeOK
  <2>2. /\ \A s \in Song : revs'[s] \in Seq(Content)
        /\ revs'[Album] \in Seq(Tracks) /\ DOMAIN revs' = Entry /\ DOMAIN request' = Entry
    BY <1>2, <1>3, <1>6 DEF TypeOK
  <2>3. edit' \in [Entry -> {"development", "locked", "closed"}]
    BY <1>1, <1>3 DEF TypeOK
  <2>4. \A e \in Entry : request'[e] \subseteq request[e]
    BY <1>3 DEF TypeOK
  <2>5. QED
    BY <2>1, <2>2, <2>3, <2>4, <1>3 DEF TypeOK
<1>12. Open' /\ Single' /\ Drafted' /\ Fresh'
  BY <1>1, <1>3 DEF Open, Single, Drafted, Fresh, TypeOK
<1>13. QED
  BY <1>8, <1>9, <1>10, <1>11, <1>12

\* The edits of a song.
LEMMA SongSteps ==
  ASSUME IInv, NEW s \in Song, EditsSong(s)
  PROVE  IInv'
<1>1. s \in Entry /\ Song \subseteq Entry
  BY DEF Entry
<1>2. TypeOK /\ SongHistory(s) \in Seq(Content) /\ SongHistory(s) # <<>>
  BY HistoriesIn DEF IInv
<1>3. ASSUME NEW kind \in {"lyrics", "any"}, Begin(s, kind) PROVE IInv'
  <2>1. UNCHANGED <<rowVars, entryVars, draft, histVars>>
    BY <1>3 DEF Begin
  <2>2. SongLast' /\ AlbumLast' /\ StillShown'
    BY <2>1, RowsKeep, ShownKeeps DEF entryVars, histVars
  <2>3. TypeOK' /\ Single' /\ Drafted' /\ Fresh'
    BY <2>1, <1>3 DEF IInv, TypeOK, Single, Drafted, Fresh, Begin, rowVars, entryVars, histVars
  <2>4. Open'
    BY <2>1, <1>3 DEF IInv, TypeOK, Open, Begin, entryVars
  <2>5. QED
    BY <2>2, <2>3, <2>4 DEF IInv
<1>4. ASSUME Abort(s) PROVE IInv'
  <2>1. UNCHANGED <<rowVars, entryVars, draft, histVars>>
    BY <1>4 DEF Abort, Unlock
  <2>2. SongLast' /\ AlbumLast' /\ StillShown'
    BY <2>1, RowsKeep, ShownKeeps DEF entryVars, histVars
  <2>3. TypeOK' /\ Single' /\ Drafted' /\ Fresh'
    BY <2>1, <1>4 DEF IInv, TypeOK, Single, Drafted, Fresh, Abort, Unlock, rowVars, entryVars, histVars
  <2>4. Open'
    BY <2>1, <1>4 DEF IInv, TypeOK, Open, Abort, Unlock, entryVars
  <2>5. QED
    BY <2>2, <2>3, <2>4 DEF IInv
<1>5. ASSUME NEW new \in Named, NEW base, EditSong(s, new, base) PROVE IInv'
  <2>1. Merge(new, Current(SongHistory(s))) \in Content
    BY <1>2, CurrentIn, NamedContent
  <2>2. WriteRevision(s, Merge(new, Current(SongHistory(s))))
    BY <1>5 DEF EditSong
  <2>3. QED
    BY <2>1, <2>2, WriteKeeps
<1>6. ASSUME NEW version, RevertSong(s, version) PROVE IInv'
  <2>1. revs[s][version] \in Content /\ WriteRevision(s, revs[s][version])
    BY <1>2, <1>6 DEF RevertSong, TypeOK
  <2>2. QED
    BY <2>1, WriteKeeps
<1>7. ASSUME NEW v \in Value, ReplaceAudio(s, v) PROVE IInv'
  <2>1. Current(SongHistory(s)) \in Content
    BY <1>2, CurrentIn
  <2>2. [Current(SongHistory(s)) EXCEPT !["audio"] = v] \in Content
    BY <2>1 DEF Content, Field
  <2>3. QED
    BY <2>2, <1>7, WriteKeeps DEF ReplaceAudio
<1>8. ASSUME NEW v \in Value, SaveLyrics(s, v) PROVE IInv'
  BY <1>8, LyricsKeep
<1>9. QED
  BY <1>3, <1>4, <1>5, <1>6, <1>7, <1>8 DEF EditsSong

\* The edits of the album.
LEMMA AlbumSteps ==
  ASSUME IInv, EditsAlbum
  PROVE  IInv'
<1>1. ASSUME AbortAlbum PROVE IInv'
  <2>1. UNCHANGED <<rowVars, entryVars, tx, writer>> /\ draft' = {} /\ since' = {}
    BY <1>1 DEF AbortAlbum
  <2>2. SongLast' /\ AlbumLast' /\ StillShown'
    BY <2>1, RowsKeep, ShownKeeps DEF entryVars
  <2>3. TypeOK' /\ Open' /\ Single' /\ Drafted' /\ Fresh'
    BY <2>1 DEF IInv, TypeOK, Open, Single, Drafted, Fresh, rowVars, entryVars
  <2>4. QED
    BY <2>2, <2>3 DEF IInv
<1>2. QED
  BY <1>1, EditTracksKeeps, EditAlbumKeeps, RevertAlbumKeeps, ApplyAlbumKeeps DEF EditsAlbum

\* Requests, their reviews and the administrator.
LEMMA StateSteps ==
  ASSUME IInv, NEW e \in Entry, ChangesState(e)
  PROVE  IInv'
<1>1. UNCHANGED <<rowVars, tx, draft, histVars>>
  BY DEF ChangesState, Ask, Approve, Withdraw, Emergency
<1>2. SongLast' /\ AlbumLast'
  BY <1>1, RowsKeep DEF histVars
<1>3. Drafted' /\ Fresh'
  BY <1>1 DEF IInv, Drafted, Fresh, rowVars, histVars
<1>4. \A x \in Entry : Shown(x)' = Shown(x)
  BY <1>1 DEF Shown, AlbumHistory, rowVars
<1>5. ASSUME RowFree(e), e \in Song PROVE tx[e] = "none"
  BY <1>5, RevisionsAssumption DEF RowFree
<1>6. ASSUME NEW action \in {"close", "reopen", "unlock"}, Ask(e, action) PROVE IInv'
  <2>1. /\ request' = [request EXCEPT ![e] = {[action |-> action, base |-> Len(revs[e]), shown |-> Shown(e)]}]
        /\ edit' = edit /\ (action = "close" => revs[e] # <<>>)
    BY <1>6 DEF Ask
  <2>2. /\ request'[e] = {[action |-> action, base |-> Len(revs[e]), shown |-> Shown(e)]}
        /\ \A x \in Entry : x # e => request'[x] = request[x]
    BY <2>1 DEF IInv, TypeOK
  <2>3. StillShown'
    BY <2>1, <2>2, <1>1, <1>4 DEF IInv, StillShown, rowVars, histVars
  <2>4. Len(revs[e]) \in Nat
    BY Lengths DEF IInv
  <2>5. TypeOK'
    BY <2>1, <2>2, <2>4, <1>1 DEF IInv, TypeOK, rowVars, histVars
  <2>6. Open' /\ Single'
    BY <2>1, <2>2, <1>1 DEF IInv, Open, Single
  <2>7. QED
    BY <2>3, <2>5, <2>6, <1>2, <1>3 DEF IInv
<1>7. ASSUME request' = [request EXCEPT ![e] = {}],
             \/ edit' = edit
             \/ RowFree(e) /\ \E x \in {"development", "locked", "closed"} : edit' = [edit EXCEPT ![e] = x]
      PROVE  IInv'
  <2>1. request'[e] = {} /\ \A x \in Entry : x # e => request'[x] = request[x]
    BY <1>7 DEF IInv, TypeOK
  <2>2. StillShown'
    BY <2>1, <1>1, <1>4 DEF IInv, StillShown, rowVars, histVars
  <2>3. edit' \in [Entry -> {"development", "locked", "closed"}]
    BY <1>7 DEF IInv, TypeOK
  <2>4. TypeOK'
    BY <2>1, <2>3, <1>1, <1>7 DEF IInv, TypeOK, rowVars, histVars
  <2>5. Open'
    BY <1>1, <1>5, <1>7 DEF IInv, Open, TypeOK, Entry
  <2>6. Single'
    BY <2>1 DEF IInv, Single
  <2>7. QED
    BY <2>2, <2>4, <2>5, <2>6, <1>2, <1>3 DEF IInv
<1>8. CASE Approve(e)
  BY <1>7, <1>8 DEF Approve, Target
<1>9. CASE Withdraw(e)
  BY <1>7, <1>9 DEF Withdraw
<1>10. ASSUME NEW status \in {"development", "locked", "closed"}, Emergency(e, status) PROVE IInv'
  BY <1>7, <1>10 DEF Emergency
<1>11. QED
  BY <1>6, <1>8, <1>9, <1>10 DEF ChangesState

------------------------------------------------------------------------------
(* The invariant *)

LEMMA InitIInv == Init => IInv
<1> SUFFICES ASSUME Init PROVE IInv
  OBVIOUS
<1>1. Album \notin Song /\ First \in [Song -> Content] /\ First \in Tracks
  BY RevisionsAssumption DEF Tracks
<1>2. /\ \A s \in Song : revs[s] = <<>> \/ revs[s] = <<First[s]>>
      /\ revs[Album] = <<>> \/ revs[Album] = <<First>>
  BY <1>1 DEF Init, Entry
<1>3. TypeOK
  <2>1. \A s \in Song : revs[s] \in Seq(Content)
    <3>1. ASSUME NEW s \in Song PROVE First[s] \in Content
      BY <1>1
    <3>2. ASSUME NEW s \in Song PROVE <<>> \in Seq(Content) /\ <<First[s]>> \in Seq(Content)
      BY <3>1, CurrentFirst
    <3>3. QED
      BY <3>2, <1>2
  <2>2. revs[Album] \in Seq(Tracks)
    <3>1. <<>> \in Seq(Tracks) /\ <<First>> \in Seq(Tracks)
      BY <1>1, CurrentFirst
    <3>2. QED
      BY <3>1, <1>2
  <2>3. QED
    BY <2>1, <2>2, <1>1 DEF Init, TypeOK
<1>4. Open /\ Single /\ StillShown /\ Drafted /\ Fresh
  BY DEF Init, Open, Single, StillShown, Drafted, Fresh, Entry
<1>5. SongLast
  <2>1. ASSUME NEW s \in Song PROVE Current(SongHistory(s)) = live[s]
    <3>1. live[s] = First[s]
      BY DEF Init
    <3>2. SongHistory(s) = <<live[s]>>
      BY <3>1, <1>2 DEF SongHistory
    <3>3. QED
      BY <3>2, CurrentFirst
  <2>2. QED
    BY <2>1 DEF SongLast
<1>6. AlbumLast
  BY DEF Init, AlbumLast
<1>7. QED
  BY <1>3, <1>4, <1>5, <1>6 DEF IInv

LEMMA NextIInv == IInv /\ [Next]_vars => IInv'
<1> SUFFICES ASSUME IInv, [Next]_vars PROVE IInv'
  OBVIOUS
<1>1. CASE UNCHANGED vars
  <2>1. SongLast' /\ AlbumLast' /\ StillShown'
    BY <1>1, RowsKeep, ShownKeeps DEF vars, entryVars, histVars
  <2>2. TypeOK' /\ Open' /\ Single' /\ Drafted' /\ Fresh'
    BY <1>1 DEF IInv, TypeOK, Open, Single, Drafted, Fresh, vars, rowVars, entryVars, histVars
  <2>3. QED
    BY <2>1, <2>2 DEF IInv
<1>2. CASE Next
  BY <1>2, SongSteps, AlbumSteps, StateSteps DEF Next
<1>3. QED
  BY <1>1, <1>2

\* The invariant holds throughout: histories, rows, requests and transactions agree.
THEOREM Invariance == Spec => []IInv
BY InitIInv, NextIInv, PTL DEF Spec

------------------------------------------------------------------------------
(* The properties *)

\* A step on an entry asked for, approved by a review, closes it as its author saw it.
LEMMA CloseStep ==
  ASSUME IInv, NEW e \in Entry, edit'[e] = "closed", Approve(e), NEW q \in request[e]
  PROVE  Shown(e) = q.shown \/ (e \in Song /\ \E f \in Field : writer[e][f] = "album")
<1>1. PICK r \in request[e] :
        /\ Applies(e, r.action)
        /\ edit' = IF r.action = "close" /\ r.base # Len(revs[e]) THEN edit
                   ELSE [edit EXCEPT ![e] = Target(r.action)]
  BY DEF Approve
<1>2. r.action \in {"close", "reopen", "unlock"}
  BY DEF IInv, TypeOK
<1>3. r.action = "close"
  BY <1>1, <1>2 DEF IInv, TypeOK, Applies, Target
<1>4. q = r
  BY DEF IInv, Single
<1>5. QED
  BY <1>3, <1>4 DEF IInv, StillShown

\* A closed entry is the one its author asked to close, on every run.
THEOREM ClosesAsShown == Spec => ClosedAsShown
<1>1. IInv /\ [Next]_vars =>
        [\A e \in Entry : edit'[e] = "closed" /\ Approve(e) =>
           \A r \in request[e] : Shown(e) = r.shown \/ (e \in Song /\ \E f \in Field : writer[e][f] = "album")]_vars
  BY CloseStep
<1>2. QED
  BY <1>1, Invariance, PTL DEF Spec, ClosedAsShown

\* A step that changes a song is one of its transaction's, or the album's.
LEMMA SongWriters ==
  ASSUME IInv, Next, NEW s \in Song, live'[s] # live[s]
  PROVE  \/ ApplyAlbum
         \/ tx[s] # "none" /\ EditsSong(s) /\ ~Abort(s) /\ \A kind \in {"lyrics", "any"} : ~Begin(s, kind)
<1>1. s # Album
  BY RevisionsAssumption
<1>2. CASE \E t \in Song : EditsSong(t)
  <2>1. PICK t \in Song : EditsSong(t)
    BY <1>2
  <2>2. CASE UNCHANGED live
    BY <2>2
  <2>3. CASE ~UNCHANGED live
    <3>1. tx[t] # "none" /\ ~Abort(t) /\ \A kind \in {"lyrics", "any"} : ~Begin(t, kind)
      BY <2>1, <2>3 DEF EditsSong, EditSong, RevertSong, ReplaceAudio, SaveLyrics, Abort, Begin, rowVars
    <3>2. \A u \in Song : u # t => live'[u] = live[u]
      BY <2>1, <3>1 DEF EditsSong, EditSong, RevertSong, ReplaceAudio, SaveLyrics, WriteRevision, IInv, TypeOK
    <3>3. QED
      BY <2>1, <3>1, <3>2
  <2>4. QED
    BY <2>2, <2>3
<1>3. CASE EditsAlbum
  BY <1>3 DEF EditsAlbum, EditTracks, EditAlbum, RevertAlbum, BeginAlbum, AbortAlbum, rowVars
<1>4. CASE \E e \in Entry : ChangesState(e)
  BY <1>4 DEF ChangesState, Ask, Approve, Withdraw, Emergency, rowVars
<1>5. QED
  BY <1>2, <1>3, <1>4 DEF Next

\* A song that is not open for edits changes only with its album, on every run.
THEOREM StaysFrozen == Spec => Frozen
<1>1. ASSUME IInv, [Next]_vars
      PROVE  [\A s \in Song : edit[s] # "development" /\ live'[s] # live[s] => ApplyAlbum]_vars
  <2>1. CASE UNCHANGED vars
    BY <2>1
  <2>2. CASE Next
    BY <2>2, <1>1, SongWriters DEF IInv, Open
  <2>3. QED
    BY <1>1, <2>1, <2>2
<1>2. QED
  BY <1>1, Invariance, PTL DEF Spec, Frozen

\* What a song's transaction changes without being asked, another history wrote.
LEMMA SongAsked ==
  ASSUME IInv, NEW s \in Song, EditsSong(s), NEW f \in Field, live'[s][f] # live[s][f], ~AskedOfSong(s, f)
  PROVE  writer'[s][f] = "song" /\ writer[s][f] # "song"
<1> DEFINE current == Current(SongHistory(s))
<1>1. current \in Content
  BY HistoriesIn, CurrentIn DEF IInv
<1>2. live[s] \in Content /\ s \in DOMAIN live /\ s \in DOMAIN writer
  BY DEF IInv, TypeOK
<1>3. ASSUME NEW content, WriteRevision(s, content)
      PROVE  live'[s] = content /\ writer'[s][f] = "song"
  BY <1>2, <1>3 DEF WriteRevision
<1>4. ASSUME NEW content, WriteRevision(s, content), content[f] = current[f]
      PROVE  writer'[s][f] = "song" /\ writer[s][f] # "song"
  BY <1>3, <1>4 DEF IInv, SongLast
<1>5. ASSUME NEW new \in Named, NEW base \in 1 .. MaxVersion[s], EditSong(s, new, base)
      PROVE  writer'[s][f] = "song" /\ writer[s][f] # "song"
  <2>1. f \notin DOMAIN new
    BY <1>5 DEF AskedOfSong
  <2>2. Merge(new, current)[f] = current[f]
    BY <2>1, <1>1, NamedContent
  <2>3. WriteRevision(s, Merge(new, current))
    BY <1>5 DEF EditSong
  <2>4. QED
    BY <2>2, <2>3, <1>4
<1>6. ASSUME NEW v \in Value, ReplaceAudio(s, v)
      PROVE  writer'[s][f] = "song" /\ writer[s][f] # "song"
  <2>1. f # "audio"
    BY <1>6 DEF AskedOfSong
  <2>2. [current EXCEPT !["audio"] = v][f] = current[f]
    BY <2>1, <1>1 DEF Content
  <2>3. QED
    BY <2>2, <1>4, <1>6 DEF ReplaceAudio
<1>7. ASSUME NEW v \in Value, SaveLyrics(s, v) PROVE FALSE
  <2>1. f # "lyrics"
    BY <1>7 DEF AskedOfSong
  <2>2. QED
    BY <2>1, <1>2, <1>7 DEF SaveLyrics, Content
<1>8. ASSUME NEW version \in 1 .. MaxVersion[s], RevertSong(s, version) PROVE FALSE
  BY <1>8 DEF AskedOfSong
<1>9. ASSUME Abort(s) \/ \E kind \in {"lyrics", "any"} : Begin(s, kind) PROVE FALSE
  BY <1>9 DEF Abort, Begin, rowVars
<1>10. QED
  BY <1>5, <1>6, <1>7, <1>8, <1>9 DEF EditsSong

\* What the album's transaction changes without being asked, it read from another history, or
\* are lyrics saved while it was under way.
LEMMA AlbumAsked ==
  ASSUME IInv, ApplyAlbum, NEW s \in Song, NEW f \in Field, live'[s][f] # live[s][f], ~AskedOfAlbum(s, f)
  PROVE  writer'[s][f] = "album" /\ writer[s][f] # "album" /\ (f = "lyrics" => s \in since)
<1>1. PICK d \in draft :
       /\ live' = [t \in Song |-> IF t \in DOMAIN d.tracks THEN d.tracks[t] ELSE live[t]]
       /\ writer' = [t \in Song |-> IF t \in DOMAIN d.tracks THEN [g \in Field |-> "album"] ELSE writer[t]]
  BY DEF ApplyAlbum
<1>2. s \in DOMAIN d.tracks /\ d.tracks[s][f] # live[s][f] /\ writer'[s][f] = "album"
  BY <1>1
<1>3. <<s, f>> \notin d.asked
  BY DEF AskedOfAlbum
<1>4. /\ f # "lyrics" => writer[s][f] # "album"
      /\ f = "lyrics" => s \in since
  BY <1>2, <1>3 DEF IInv, Drafted
<1>5. f = "lyrics" => writer[s][f] # "album"
  BY <1>4 DEF IInv, Fresh
<1>6. QED
  BY <1>2, <1>4, <1>5

\* An edit changes what it names, on every run.
THEOREM ChangesWhatIsAsked == Spec => OnlyAskedChanges
<1>1. ASSUME IInv, [Next]_vars
      PROVE  [\A s \in Song, f \in Field : live'[s][f] # live[s][f] =>
                \/ AskedOfAlbum(s, f) \/ AskedOfSong(s, f)
                \/ /\ writer'[s][f] # writer[s][f]
                   /\ f = "lyrics" /\ writer'[s][f] = "album" => s \in since]_vars
  <2>1. CASE UNCHANGED vars
    BY <2>1
  <2>2. CASE Next
    <3>1. ASSUME NEW s \in Song, NEW f \in Field, live'[s][f] # live[s][f],
                 ~AskedOfAlbum(s, f), ~AskedOfSong(s, f)
          PROVE  /\ writer'[s][f] # writer[s][f]
                 /\ f = "lyrics" /\ writer'[s][f] = "album" => s \in since
      <4>1. ApplyAlbum \/ EditsSong(s)
        BY <1>1, <2>2, <3>1, SongWriters
      <4>2. CASE ApplyAlbum
        BY <1>1, <3>1, <4>2, AlbumAsked
      <4>3. CASE EditsSong(s)
        BY <1>1, <3>1, <4>3, SongAsked
      <4>4. QED
        BY <4>1, <4>2, <4>3
    <3>2. QED
      BY <3>1
  <2>3. QED
    BY <1>1, <2>1, <2>2
<1>2. QED
  BY <1>1, Invariance, PTL DEF Spec, OnlyAskedChanges
==============================================================================
