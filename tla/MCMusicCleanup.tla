--------------------------- MODULE MCMusicCleanup ---------------------------
(* Small instances of MusicCleanup for TLC. *)
EXTENDS MusicCleanup, TLC

Alike == Permutations(Key) \union Permutations(Worker) \union Permutations(Token)
==============================================================================
