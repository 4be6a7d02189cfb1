---- MODULE MCSongAudio ----
EXTENDS SongAudio, TLC
CONSTANTS j1, j2
Uneven == [j \in Job |-> IF j = j1 THEN 2 ELSE 1]
====
