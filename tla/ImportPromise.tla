---------------------------- MODULE ImportPromise ----------------------------
(***************************************************************************)
(* What an album import promises its uploader, with no lease, worker or    *)
(* object store in sight.  Uploads are collected, processed in a bounded   *)
(* number of tries, and published only when they were processed and the    *)
(* user asked for it.  A withdrawn import stays withdrawn.  What an album  *)
(* plays changes only when its import is published, and never to the       *)
(* import's own audio.                                                     *)
(* AlbumImport is shown to implement it.                                   *)
(***************************************************************************)
EXTENDS Naturals

CONSTANTS
  Import,
  Audio, Original, \* all audio, and of each import its own, made before it is published
  Earlier,         \* imports that may have been published by an earlier release
  Rewritten,       \* imports whose payload the processing of a cover may overwrite
  MaxTries

VARIABLES
  stage,            \* what the uploader sees
  complete, wanted, \* imports whose uploads are complete, and who are asked to be published
  refused,          \* imports whose publication was refused
  tries,            \* processing begun since the import was last queued
  plays             \* what the album of each import plays; {} before there is one

promiseVars == <<stage, complete, wanted, refused, tries, plays>>

Advance(i, to) == stage' = [stage EXCEPT ![i] = to]
Enqueue(i) == Advance(i, "queued") /\ tries' = [tries EXCEPT ![i] = 0]

Complete(i) ==
  /\ stage[i] = "open" /\ i \notin complete
  /\ complete' = complete \union {i}
  /\ UNCHANGED <<wanted, refused, plays>>

\* The last upload arrives, or what has not arrived is given up.
Deliver(i) == Complete(i) /\ Enqueue(i)
GiveUp(i) == Complete(i) /\ UNCHANGED <<stage, tries>>

Start(i) ==
  /\ stage[i] \in {"open", "attention"} /\ i \in complete
  /\ Enqueue(i)
  /\ UNCHANGED <<complete, wanted, refused, plays>>

Want(i) ==
  /\ stage[i] \in {"open", "queued", "running"}
  /\ wanted' = wanted \union {i}
  /\ IF stage[i] = "open" /\ i \in complete THEN Enqueue(i) ELSE UNCHANGED <<stage, tries>>
  /\ UNCHANGED <<complete, refused, plays>>

Withdraw(i) ==
  /\ stage[i] \notin {"published", "withdrawn"}
  /\ Advance(i, "withdrawn")
  /\ UNCHANGED <<complete, wanted, refused, tries, plays>>

\* A try begins, and ends with the import ready, queued for another try or given up.
Begin(i) ==
  /\ stage[i] = "queued" /\ tries[i] < MaxTries
  /\ Advance(i, "running") /\ tries' = [tries EXCEPT ![i] = @ + 1]
  /\ UNCHANGED <<complete, wanted, refused, plays>>

End(i) ==
  /\ stage[i] = "running" /\ i \in complete
  /\ \/ Advance(i, "ready") \/ Advance(i, "attention")
     \/ tries[i] < MaxTries /\ Advance(i, "queued")
  /\ UNCHANGED <<complete, wanted, refused, tries, plays>>

\* The cover's way to undo a request or a refusal, or to bring one back, at any time after
\* the import was claimed.
Overwrite(i) ==
  /\ i \in Rewritten /\ i \in complete /\ stage[i] # "open"
  /\ wanted' \in {wanted \union {i}, wanted \ {i}}
  /\ refused' \in {refused \union {i}, refused \ {i}}
  /\ UNCHANGED <<stage, complete, tries, plays>>

Publish(i) ==
  /\ stage[i] = "ready" \/ (stage[i] = "attention" /\ i \in refused)
  /\ i \in complete
  /\ Advance(i, "published")
  /\ wanted' = wanted \union {i} /\ refused' = refused \ {i}
  /\ \/ \E k \in Audio \ (Original[i] \union plays[i]) : plays' = [plays EXCEPT ![i] = {k}]
     \/ plays[i] # {} /\ UNCHANGED plays
  /\ UNCHANGED <<complete, tries>>

Refuse(i) ==
  /\ stage[i] \in {"ready", "attention"}
  /\ Advance(i, "attention")
  /\ wanted' = wanted \union {i} /\ refused' = refused \union {i}
  /\ UNCHANGED <<complete, tries, plays>>

Repair(i) ==
  /\ stage[i] = "published"
  /\ Advance(i, "ready")
  /\ UNCHANGED <<complete, wanted, refused, tries, plays>>

PromiseInit ==
  \E old \in SUBSET Earlier, first \in [Import -> Audio] :
    /\ stage = [i \in Import |-> IF i \in old THEN "published" ELSE "open"]
    /\ complete = old /\ wanted = old /\ refused = {}
    /\ tries = [i \in Import |-> IF i \in old THEN 1 ELSE 0]
    /\ \A i \in old : first[i] \in Original[i]
    /\ plays = [i \in Import |-> IF i \in old THEN {first[i]} ELSE {}]

PromiseNext ==
  \E i \in Import :
    \/ Deliver(i) \/ GiveUp(i) \/ Start(i) \/ Want(i) \/ Withdraw(i) \/ Begin(i) \/ End(i)
    \/ Overwrite(i) \/ Publish(i) \/ Refuse(i) \/ Repair(i)

PromiseSpec == PromiseInit /\ [][PromiseNext]_promiseVars
==============================================================================
