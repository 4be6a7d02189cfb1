---------------------------- MODULE AudioPromise -----------------------------
(***************************************************************************)
(* What replacing the audio of a song promises its editor, with no lease,  *)
(* worker, object store or cleanup queue in sight.  A replacement is asked *)
(* for and then either refused, which changes nothing, or it switches the  *)
(* song in one step to audio that no revision of any song names.  An       *)
(* upload is spent only by a replacement that switched its song.           *)
(* SongAudio is shown to implement it.                                     *)
(***************************************************************************)
CONSTANTS Song, Asset, Job, Key

VARIABLES
  stage,         \* what the editor may be told about each replacement
  song, upload,  \* what it was asked for, {} before
  live, past,    \* the audio each song plays, and that of its revisions
  open,          \* the songs that may be edited
  spare          \* the uploads a replacement can still be asked with

promiseVars == <<stage, song, upload, live, past, open, spare>>

Advance(j, from, to) ==
  /\ stage[j] = from
  /\ stage' = [stage EXCEPT ![j] = to]

Ask(j, s, a) ==
  /\ Advance(j, "absent", "asked")
  /\ s \in open /\ a \in spare
  /\ song' = [song EXCEPT ![j] = {s}] /\ upload' = [upload EXCEPT ![j] = {a}]
  /\ UNCHANGED <<live, past, open, spare>>

\* Everything at once, and only while the song may be edited.
Switch(j) ==
  /\ Advance(j, "asked", "switched")
  /\ song[j] \subseteq open
  /\ \E k \in Key :
       /\ \A s \in Song : k \notin past[s]
       /\ live' = [s \in Song |-> IF s \in song[j] THEN k ELSE live[s]]
       /\ past' = [s \in Song |-> IF s \in song[j] THEN past[s] \union {k} ELSE past[s]]
  /\ UNCHANGED <<song, upload, open, spare>>

Refuse(j) ==
  /\ Advance(j, "asked", "refused")
  /\ UNCHANGED <<song, upload, live, past, open, spare>>

Spend(j) ==
  /\ stage[j] = "switched"
  /\ spare' = spare \ upload[j]
  /\ UNCHANGED <<stage, song, upload, live, past, open>>

\* The other edits of a song: back to the audio of a revision, closed and opened.
Revert(s) ==
  /\ s \in open
  /\ \E k \in past[s] : live' = [live EXCEPT ![s] = k]
  /\ UNCHANGED <<stage, song, upload, past, open, spare>>

Toggle(s) ==
  /\ open' = IF s \in open THEN open \ {s} ELSE open \union {s}
  /\ UNCHANGED <<stage, song, upload, live, past, spare>>

PromiseInit ==
  /\ stage = [j \in Job |-> "absent"]
  /\ song = [j \in Job |-> {}] /\ upload = [j \in Job |-> {}]
  /\ live \in [Song -> Key] /\ past = [s \in Song |-> {live[s]}]
  /\ open = Song /\ spare = Asset

PromiseNext ==
  \/ \E j \in Job : Switch(j) \/ Refuse(j) \/ Spend(j) \/ \E s \in Song, a \in Asset : Ask(j, s, a)
  \/ \E s \in Song : Revert(s) \/ Toggle(s)

PromiseSpec == PromiseInit /\ [][PromiseNext]_promiseVars
==============================================================================
