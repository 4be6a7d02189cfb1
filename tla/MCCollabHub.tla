----------------------------- MODULE MCCollabHub -----------------------------
(* Small instances of CollabHub for TLC. *)
EXTENDS CollabHub, TLC

OneRoom == [c \in Client |-> CHOOSE r \in Room : TRUE]
Alike == Permutations(Client)
==============================================================================
