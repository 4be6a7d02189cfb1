---------------------------- MODULE CleanupPromise ----------------------------
(***************************************************************************)
(* What the music code expects of storage.DeleteMusicObjects and of the    *)
(* durable cleanup queue behind it: an object is deleted at once, or its   *)
(* key is condemned, and a condemned key is forgotten only when its object *)
(* is gone.  In return nobody writes an object under a condemned key.      *)
(***************************************************************************)
CONSTANT Key
VARIABLES
  object,      \* the keys that have an object in the bucket
  condemned    \* the keys whose deletion is still owed

Init == object \subseteq Key /\ condemned = {}

Write(k) == k \notin condemned /\ object' = object \union {k} /\ UNCHANGED condemned

Delete(k) == object' = object \ {k} /\ UNCHANGED condemned

\* A deletion failed, perhaps only its answer, and the failure was recorded.
Condemn(k) == condemned' = condemned \union {k} /\ object' \in {object, object \ {k}}

Forget(k) == k \notin object /\ condemned' = condemned \ {k} /\ UNCHANGED object

Next == \E k \in Key : Write(k) \/ Delete(k) \/ Condemn(k) \/ Forget(k)

Spec == Init /\ [][Next]_<<object, condemned>>
==============================================================================
