--------------------------- MODULE MCIndexNowQueue ---------------------------
(* Small instances of IndexNowQueue for TLC. *)
EXTENDS IndexNowQueue, TLC

Alike == Permutations(URL) \union Permutations(Worker) \union Permutations(Token)
==============================================================================
