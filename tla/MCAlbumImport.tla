---------------------------- MODULE MCAlbumImport ----------------------------
(* Instances of AlbumImport for TLC. *)
EXTENDS AlbumImport, TLC

Alike == Permutations(Worker)
==============================================================================
