--------------------------- MODULE MCMailArtifacts ---------------------------
(* Small instances of MailArtifacts for TLC. *)
EXTENDS MailArtifacts, TLC

Alike == Permutations(Upload) \union Permutations(Draft) \union Permutations(Maint)
==============================================================================
