-------------------------- MODULE MCMusicRevisions --------------------------
EXTENDS MusicRevisions

CONSTANTS v1

Alike == [s \in Song |-> [f \in Field |-> v1]]
Versions == [e \in Entry |-> IF e = Album THEN 2 ELSE 3]
==============================================================================
