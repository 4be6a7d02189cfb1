----------------------------- MODULE MCFullText -----------------------------
(* Small instances of FullText for TLC: two items of one source or of two. *)
EXTENDS FullText, TLC

OneSource == [i \in Item |-> CHOOSE s \in Source : TRUE]
OneHost == [i \in Item |-> CHOOSE h \in Host : TRUE]
Alike == Permutations(Cycle) \union Permutations(Item)
==============================================================================
