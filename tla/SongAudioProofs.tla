--------------------------- MODULE SongAudioProofs ---------------------------
(***************************************************************************)
(* What TLAPS proves of audio replacement for any songs, uploads, jobs,    *)
(* workers and numbers of claims.  The induction rests on the destination  *)
(* keys: each claim has its own, so a key that a worker may still write or *)
(* throw away is one that no revision names and no deletion is owed for.   *)
(***************************************************************************)
EXTENDS SongAudio, TLAPS

Published(k) == \E s \in Song : k \in past[s]

\* A working worker has one job under a claim that was made; no other worker has the
\* same claim of the same job.
Leases ==
  /\ \A j \in Job : lease[j] <= MaxClaim[j]
  /\ \A w \in Worker : wpc[w] = "idle" <=> wjob[w] = {}
  /\ \A w \in Worker : wjob[w] # {} =>
       \E j \in Job : wjob[w] = {j} /\ 1 <= wlease[w] /\ wlease[w] <= lease[j]
  /\ \A v, w \in Worker : v # w /\ wjob[v] = wjob[w] /\ wjob[v] # {} => wlease[v] # wlease[w]

\* The keys of claims to come are unused.
Unused ==
  \A j \in Job : \A n \in 1 .. MaxClaim[j] :
    n > lease[j] => <<j, n>> \notin object \union condemned /\ ~Published(<<j, n>>)

\* The key of a claim under way is its worker's own until the song is switched to it.
Own ==
  \A w \in Worker, j \in Job : wjob[w] = {j} =>
    /\ wpc[w] \in {"claimed", "copied"} =>
         Destination(w, j) \notin condemned /\ ~Published(Destination(w, j))
    /\ wpc[w] = "copied" => Destination(w, j) \in object
    /\ wpc[w] = "refused" /\ Published(Destination(w, j)) => Destination(w, j) \in unsure
    /\ wpc[w] \in {"applied", "consumed"} => status[j] = "completed"

\* A deletion is owed only for uploads that were used and copies that were refused.
Used(a) == \E j \in Job : jasset[j] = {a} /\ status[j] = "completed"
Owed ==
  /\ condemned \intersect Song = {}
  /\ \A k \in condemned \intersect Asset : Used(k)
  /\ \A k \in condemned \intersect Copy : Published(k) => k \in unsure

\* A job that was asked for has a song and an upload; a song plays its first audio or copies.
Named ==
  /\ \A j \in Job : status[j] # "none" =>
       (\E s \in Song : jsong[j] = {s}) /\ (\E a \in Asset : jasset[j] = {a})
  /\ \A s \in Song : past[s] \subseteq {s} \union Copy

IInv ==
  /\ TypeOK /\ Leases /\ Unused /\ Own /\ Owed /\ Named
  /\ RevisionsPlayable /\ StatusTellsTruth /\ UploadSurvives

USE AudioAssumption
USE DEF audioVars, jobVars, storeVars, workVars, histVars, Destination, Published, Used

LEMMA CopyOfClaim ==
  ASSUME NEW j \in Job, NEW n \in Nat, 1 <= n, n <= MaxClaim[j]
  PROVE  <<j, n>> \in Copy
BY DEF Copy

LEMMA ClaimOfCopy == \A c \in Copy : \E j \in Job, n \in Nat : c = <<j, n>>
BY DEF Copy

\* The destination of a claim under way is a copy, and no other worker's.
LEMMA DestinationIsOwn ==
  ASSUME IInv, NEW w \in Worker, NEW j \in Job, wjob[w] = {j}
  PROVE  /\ Destination(w, j) \in Copy
         /\ wlease[w] <= lease[j]
         /\ \A v \in Worker, i \in Job :
              v # w /\ wjob[v] = {i} => Destination(v, i) # Destination(w, j)
<1>1. wlease[w] \in Nat /\ 1 <= wlease[w] /\ wlease[w] <= lease[j]
  BY DEF IInv, TypeOK, Leases
<1>2. lease[j] \in Nat /\ lease[j] <= MaxClaim[j] /\ MaxClaim[j] \in Nat
  BY DEF IInv, TypeOK, Leases
<1>3. Destination(w, j) \in Copy
  BY <1>1, <1>2, CopyOfClaim
<1>4. ASSUME NEW v \in Worker, NEW i \in Job, v # w, wjob[v] = {i}
      PROVE  Destination(v, i) # Destination(w, j)
  BY <1>4 DEF IInv, Leases
<1> QED BY <1>1, <1>3, <1>4

LEMMA InitIInv == Init => IInv
<1> SUFFICES ASSUME Init PROVE IInv
  OBVIOUS
<1> USE DEF Init
<1>1. TypeOK BY DEF TypeOK, Key
<1>2. Leases BY DEF Leases
<1>3. Unused BY CopyOfClaim, ClaimOfCopy DEF Unused
<1>4. Own /\ Owed BY DEF Own, Owed
<1>5. Named /\ RevisionsPlayable /\ StatusTellsTruth /\ UploadSurvives
  BY DEF Named, RevisionsPlayable, StatusTellsTruth, UploadSurvives
<1> QED BY <1>1, <1>2, <1>3, <1>4, <1>5 DEF IInv

\* What changes neither claims nor who works at all keeps the leases; what adds only the
\* key of a claim that was made keeps the others unused.
LEMMA LeasesKept ==
  ASSUME Leases, UNCHANGED <<lease, wjob, wlease>>,
         \A w \in Worker : wpc'[w] = "idle" <=> wpc[w] = "idle"
  PROVE  Leases'
BY DEF Leases

LEMMA LeasesLeft ==
  ASSUME TypeOK, Leases, NEW w \in Worker, Leave(w), UNCHANGED lease
  PROVE  Leases'
<1> USE DEF Leave
<1>1. \A v \in Worker : wpc'[v] = "idle" <=> wjob'[v] = {} BY DEF TypeOK, Leases
<1>2. \A v \in Worker : wjob'[v] # {} => v # w /\ wjob'[v] = wjob[v] /\ wlease'[v] = wlease[v]
  BY DEF TypeOK
<1>3. \A v \in Worker : wjob'[v] # {} =>
         \E j \in Job : wjob'[v] = {j} /\ 1 <= wlease'[v] /\ wlease'[v] <= lease'[j]
  BY <1>2 DEF Leases
<1>4. \A u, v \in Worker : u # v /\ wjob'[u] = wjob'[v] /\ wjob'[u] # {} => wlease'[u] # wlease'[v]
  BY <1>2 DEF Leases
<1> QED BY <1>1, <1>3, <1>4 DEF Leases

LEMMA UnusedKept ==
  ASSUME TypeOK, Unused, UNCHANGED lease, NEW w \in Worker, NEW j \in Job, wlease[w] <= lease[j],
         object' \subseteq object \union {Destination(w, j)},
         condemned' \subseteq condemned \union {Destination(w, j)} \union Asset,
         \A s \in Song : past'[s] \subseteq past[s] \union {Destination(w, j)}
  PROVE  Unused'
<1> SUFFICES ASSUME NEW i \in Job, NEW n \in 1 .. MaxClaim[i], n > lease[i]
             PROVE  <<i, n>> \notin object' \union condemned' /\ ~Published(<<i, n>>)'
  BY DEF Unused
<1>1. <<i, n>> # Destination(w, j) BY DEF TypeOK
<1>2. <<i, n>> \notin Asset BY CopyOfClaim
<1>3. <<i, n>> \notin object \union condemned /\ ~Published(<<i, n>>) BY DEF Unused
<1> QED BY <1>1, <1>2, <1>3

------------------------------------------------------------------------------
(* One lemma for the steps of each actor *)

\* Requests, other edits and the clock touch no key.
LEMMA EditKeepsIInv ==
  ASSUME IInv,
         \/ \E j \in Job, s \in Song, a \in Asset : Request(j, s, a)
         \/ \E s \in Song : Revert(s) \/ ToggleEditable(s)
         \/ \E j \in Job : Age(j)
  PROVE  IInv'
<1> USE DEF IInv
<1>1. ASSUME NEW j \in Job, NEW s \in Song, NEW a \in Asset, Request(j, s, a)
      PROVE  IInv'
  <2> USE <1>1 DEF Request
  <2>1. TypeOK' BY DEF TypeOK
  <2>2. Leases' BY LeasesKept DEF TypeOK
  <2>3. Unused' /\ Own'
    <3>1. \A i \in Job : i # j => status'[i] = status[i] BY DEF TypeOK
    <3> QED BY <3>1 DEF Unused, Own
  <2>4. Owed' /\ Named'
    <3>1. Owed' BY DEF TypeOK, Owed
    <3>2. Named' BY DEF TypeOK, Named
    <3> QED BY <3>1, <3>2
  <2>5. RevisionsPlayable' /\ StatusTellsTruth' BY DEF TypeOK, RevisionsPlayable, StatusTellsTruth
  <2>6. UploadSurvives' BY DEF TypeOK, UploadSurvives
  <2> QED BY <2>1, <2>2, <2>3, <2>4, <2>5, <2>6
<1>2. ASSUME NEW s \in Song, Revert(s)
      PROVE  IInv'
  <2> USE <1>2 DEF Revert
  <2>1. TypeOK' BY DEF TypeOK
  <2>2. Leases' /\ Unused' /\ Own'
    <3>1. Leases' BY DEF Leases
    <3>2. Unused' BY DEF Unused
    <3> QED BY <3>1, <3>2 DEF Own
  <2>4. Owed' /\ Named' BY DEF Owed, Named
  <2>3. RevisionsPlayable' /\ StatusTellsTruth' /\ UploadSurvives'
    BY DEF RevisionsPlayable, StatusTellsTruth, UploadSurvives
  <2> QED BY <2>1, <2>2, <2>3, <2>4
<1>3. CASE (\E s \in Song : ToggleEditable(s)) \/ \E j \in Job : Age(j)
  <2> USE <1>3 DEF ToggleEditable, Age
  <2>1. TypeOK' BY DEF TypeOK
  <2>2. Leases' /\ Unused' /\ Own'
    <3>1. Leases' BY DEF Leases
    <3>2. Unused' BY DEF Unused
    <3> QED BY <3>1, <3>2 DEF Own
  <2>4. Owed' /\ Named' BY DEF Owed, Named
  <2>3. RevisionsPlayable' /\ StatusTellsTruth' /\ UploadSurvives'
    BY DEF RevisionsPlayable, StatusTellsTruth, UploadSurvives
  <2> QED BY <2>1, <2>2, <2>3, <2>4
<1> QED BY <1>1, <1>2, <1>3

\* A claim takes a number nobody has used.
LEMMA ClaimKeepsIInv ==
  ASSUME IInv, NEW w \in Worker, NEW j \in Job, Claim(w, j)
  PROVE  IInv'
<1> USE DEF IInv, Claim
<1>1. TypeOK' BY DEF TypeOK
<1>2. Leases'
  <2>1. \A i \in Job : lease'[i] <= MaxClaim[i] BY DEF TypeOK, Leases
  <2>2. \A v \in Worker : wpc'[v] = "idle" <=> wjob'[v] = {} BY DEF TypeOK, Leases
  <2>3. ASSUME NEW v \in Worker, wjob'[v] # {}
        PROVE  \E i \in Job : wjob'[v] = {i} /\ 1 <= wlease'[v] /\ wlease'[v] <= lease'[i]
    <3>1. CASE v = w
      <4>1. wlease'[v] = lease[j] + 1 /\ lease'[j] = lease[j] + 1 /\ lease[j] \in Nat
        BY <3>1 DEF TypeOK
      <4>2. wjob'[v] = {j} BY <3>1 DEF TypeOK
      <4> QED BY <4>1, <4>2
    <3>2. CASE v # w
      <4>1. PICK i \in Job : wjob[v] = {i} /\ 1 <= wlease[v] /\ wlease[v] <= lease[i]
        BY <2>3, <3>2 DEF TypeOK, Leases
      <4>2. lease[i] <= lease'[i] BY DEF TypeOK
      <4> QED BY <3>2, <4>1, <4>2 DEF TypeOK
    <3> QED BY <3>1, <3>2
  <2>4. ASSUME NEW u \in Worker, NEW v \in Worker, u # v, wjob'[u] = wjob'[v], wjob'[u] # {}
        PROVE  wlease'[u] # wlease'[v]
    <3>1. ASSUME NEW x \in Worker, x # w, wjob[x] = {j} PROVE wlease[x] # lease[j] + 1
      <4>1. \E i \in Job : wjob[x] = {i} /\ wlease[x] <= lease[i] BY <3>1 DEF Leases
      <4>2. wlease[x] <= lease[j] BY <3>1, <4>1
      <4>3. wlease[x] \in Nat /\ lease[j] \in Nat BY DEF TypeOK
      <4> QED BY <4>2, <4>3
    <3> QED BY <2>4, <3>1 DEF TypeOK, Leases
  <2> QED BY <2>1, <2>2, <2>3, <2>4 DEF Leases
<1>3. Unused'
  <2> SUFFICES ASSUME NEW i \in Job, NEW n \in 1 .. MaxClaim[i], n > lease'[i]
               PROVE  <<i, n>> \notin object \union condemned /\ ~Published(<<i, n>>)
    BY DEF Unused
  <2>1. n > lease[i] BY DEF TypeOK
  <2> QED BY <2>1 DEF Unused
<1>4. Own'
  <2> SUFFICES ASSUME NEW v \in Worker, NEW i \in Job, wjob'[v] = {i}
               PROVE  /\ wpc'[v] \in {"claimed", "copied"} =>
                           Destination(v, i)' \notin condemned' /\ ~Published(Destination(v, i))'
                      /\ wpc'[v] = "copied" => Destination(v, i)' \in object'
                      /\ wpc'[v] = "refused" /\ Published(Destination(v, i))'
                           => Destination(v, i)' \in unsure'
                      /\ wpc'[v] \in {"applied", "consumed"} => status'[i] = "completed"
    BY DEF Own
  <2>1. CASE v = w
    <3>1. i = j /\ wpc'[v] = "claimed" /\ wlease'[v] = lease[j] + 1 BY <2>1 DEF TypeOK
    <3>2. lease[j] + 1 \in 1 .. MaxClaim[j] BY DEF TypeOK
    <3> QED BY <3>1, <3>2 DEF Unused, TypeOK
  <2>2. CASE v # w
    BY <2>2 DEF TypeOK, Own, Claimable
  <2> QED BY <2>1, <2>2
<1>5. Owed' /\ Named'
  <2>1. status[j] # "none" /\ status[j] # "completed" BY DEF Claimable
  <2>2. \A i \in Job : i # j => status'[i] = status[i] BY DEF TypeOK
  <2>3. Owed' BY <2>1, <2>2 DEF Owed
  <2>4. Named' BY <2>1, <2>2 DEF Named
  <2> QED BY <2>3, <2>4
<1>6. RevisionsPlayable' /\ StatusTellsTruth' BY DEF TypeOK, RevisionsPlayable, StatusTellsTruth, Claimable
<1>7. UploadSurvives' BY DEF TypeOK, UploadSurvives, Claimable
<1> QED BY <1>1, <1>2, <1>3, <1>4, <1>5, <1>6, <1>7

\* The copy goes to the claim's own key.
LEMMA PromoteKeepsIInv ==
  ASSUME IInv, NEW w \in Worker, NEW j \in Job, Promote(w, j)
  PROVE  IInv'
<1> USE DEF IInv, Promote, Goto
<1>1. wjob[w] = {j} /\ wpc[w] = "claimed" OBVIOUS
<1>2. Destination(w, j) \in Copy /\ wlease[w] <= lease[j] BY <1>1, DestinationIsOwn
<1>3. TypeOK' BY <1>2 DEF TypeOK, Key
<1>4. Leases' BY LeasesKept DEF TypeOK
<1>5. Unused' BY <1>2, UnusedKept
<1>6. Own'
  <2>1. UNCHANGED <<status, past, condemned, unsure, wjob, wlease>> /\ object \subseteq object'
    OBVIOUS
  <2>2. \A v \in Worker : v # w => wpc'[v] = wpc[v] BY DEF TypeOK
  <2>3. wpc'[w] = "failing" \/ (wpc'[w] = "copied" /\ Destination(w, j) \in object') BY DEF TypeOK
  <2> HIDE DEF Promote, Destination
  <2>4. \A v \in Worker, i \in Job : Destination(v, i)' = Destination(v, i)
    BY <2>1 DEF Destination
  <2> QED BY <1>1, <2>1, <2>2, <2>3, <2>4 DEF Own
<1>7. Owed' /\ Named' BY DEF Owed, Named
<1>8. RevisionsPlayable' /\ StatusTellsTruth' /\ UploadSurvives'
  BY DEF RevisionsPlayable, StatusTellsTruth, UploadSurvives
<1> QED BY <1>3, <1>4, <1>5, <1>6, <1>7, <1>8

\* The switch names the claim's own key, which no deletion is owed for.
LEMMA ApplyKeepsIInv ==
  ASSUME IInv, NEW w \in Worker, NEW j \in Job, Apply(w, j)
  PROVE  IInv'
<1> USE DEF IInv, Apply, Goto, Holds, Revised
<1>1. wjob[w] = {j} /\ wpc[w] = "copied" /\ status[j] = "processing" OBVIOUS
<1>2. /\ Destination(w, j) \in Copy /\ wlease[w] <= lease[j]
      /\ \A v \in Worker, i \in Job :
           v # w /\ wjob[v] = {i} => Destination(v, i) # Destination(w, j)
  BY <1>1, DestinationIsOwn
<1>3. Destination(w, j) \in object /\ Destination(w, j) \notin condemned BY <1>1 DEF Own
<1>4. \A s \in Song : past'[s] \subseteq past[s] \union {Destination(w, j)} BY DEF TypeOK
<1>5. TypeOK'
  <2>1. live' \in [Song -> Key] /\ past' \in [Song -> SUBSET Key]
    <3>1. Destination(w, j) \in Key BY <1>2 DEF Key
    <3> HIDE DEF Destination
    <3>2. live' \in [Song -> Key] BY <3>1 DEF TypeOK
    <3>3. past' \in [Song -> SUBSET Key] BY <3>1 DEF TypeOK
    <3> QED BY <3>2, <3>3
  <2>2. \A s \in Song : live'[s] \in past'[s] BY DEF TypeOK
  <2>3. unsure' \subseteq Copy BY <1>2 DEF TypeOK
  <2>4. wpc' \in [Worker -> {"idle", "claimed", "copied", "applied", "refused", "failing", "consumed"}]
    BY DEF TypeOK
  <2>5. status' \in [Job -> {"none", "pending", "processing", "completed", "failed"}]
        /\ switched' \in [Job -> Nat]
    BY DEF TypeOK
  <2>6. UNCHANGED <<editable, jsong, jasset, lease, stale, assetRow, object, condemned, wjob, wlease>>
    OBVIOUS
  <2> HIDE DEF Apply
  <2> QED BY <2>1, <2>2, <2>3, <2>4, <2>5, <2>6 DEF TypeOK
<1>6. Leases' BY LeasesKept DEF TypeOK
<1>7. Unused' BY <1>2, <1>4, UnusedKept
<1>8. Own'
  <2> SUFFICES ASSUME NEW v \in Worker, NEW i \in Job, wjob[v] = {i}
               PROVE  /\ wpc'[v] \in {"claimed", "copied"} =>
                           Destination(v, i) \notin condemned /\ ~Published(Destination(v, i))'
                      /\ wpc'[v] = "copied" => Destination(v, i) \in object
                      /\ wpc'[v] = "refused" /\ Published(Destination(v, i))'
                           => Destination(v, i) \in unsure'
                      /\ wpc'[v] \in {"applied", "consumed"} => status'[i] = "completed"
    <3>1. UNCHANGED <<wjob, wlease, object, condemned>> OBVIOUS
    <3>2. \A v \in Worker, i \in Job : Destination(v, i)' = Destination(v, i) BY <3>1
    <3> HIDE DEF Apply, Destination
    <3> QED BY <3>1, <3>2 DEF Own
  <2>1. CASE v = w
    <3>1. i = j /\ wpc'[v] \in {"applied", "refused"} BY <1>1, <2>1 DEF TypeOK
    <3>2. CASE wpc'[v] = "applied" BY <3>1, <3>2 DEF TypeOK
    <3>3. CASE wpc'[v] = "refused"
      BY <2>1, <3>1, <3>3 DEF TypeOK
    <3> QED BY <3>1, <3>2, <3>3
  <2>2. CASE v # w
    <3>1. wpc'[v] = wpc[v] /\ Destination(v, i) # Destination(w, j) BY <1>2, <2>2 DEF TypeOK
    <3>2. Published(Destination(v, i))' => Published(Destination(v, i)) BY <1>4, <3>1
    <3> QED BY <3>1, <3>2 DEF TypeOK, Own
  <2> QED BY <2>1, <2>2
<1>9. Owed'
  <2>1. UNCHANGED condemned /\ unsure \subseteq unsure' /\ \A k \in Asset : Used(k) => Used(k)'
    BY <1>1 DEF TypeOK, Used
  <2>2. \A k \in condemned : Published(k)' => Published(k)
    BY <1>3, <1>4
  <2> HIDE DEF Apply
  <2> QED BY <2>1, <2>2 DEF Owed
<1>10. Named'
  <2>0. UNCHANGED <<jsong, jasset>> OBVIOUS
  <2>1. status[j] # "none" /\ \A i \in Job : i # j => status'[i] = status[i]
    BY <1>1 DEF TypeOK
  <2>2. \A s \in Song : past'[s] \subseteq past[s] \union {Destination(w, j)}
    BY <1>4
  <2> HIDE DEF Apply
  <2> QED BY <1>2, <2>0, <2>1, <2>2 DEF Named
<1>11. RevisionsPlayable' BY <1>3, <1>4 DEF RevisionsPlayable
<1>12. StatusTellsTruth'
  <2>1. switched[j] = 0 BY <1>1 DEF StatusTellsTruth
  <2> QED BY <2>1 DEF TypeOK, StatusTellsTruth
<1>13. UploadSurvives' BY DEF TypeOK, UploadSurvives
<1> QED BY <1>5, <1>6, <1>7, <1>8, <1>9, <1>10, <1>11, <1>12, <1>13

\* A refused worker throws away the key of its own claim.
LEMMA DropCopyKeepsIInv ==
  ASSUME IInv, NEW w \in Worker, NEW j \in Job, DropCopy(w, j)
  PROVE  IInv'
<1> USE DEF IInv, DropCopy, Goto
<1>1. wjob[w] = {j} /\ wpc[w] = "refused" OBVIOUS
<1>2. /\ Destination(w, j) \in Copy /\ wlease[w] <= lease[j]
      /\ \A v \in Worker, i \in Job :
           v # w /\ wjob[v] = {i} => Destination(v, i) # Destination(w, j)
  BY <1>1, DestinationIsOwn
<1>3. Published(Destination(w, j)) => Destination(w, j) \in unsure BY <1>1 DEF Own
<1>4. /\ object \ {Destination(w, j)} \subseteq object' /\ object' \subseteq object
      /\ condemned' \subseteq condemned \union {Destination(w, j)}
  BY DEF Discard, Leftovers, Cleanup!Delete, Cleanup!Condemn
<1>5. TypeOK' BY <1>2, <1>4 DEF TypeOK, Key
<1>6. Leases' BY LeasesKept DEF TypeOK
<1>7. Unused' BY <1>2, <1>4, UnusedKept
<1>8. Own'
  <2>1. \A v \in Worker, i \in Job : wjob[v] = {i} => v = w \/ Destination(v, i) # Destination(w, j)
    BY <1>2
  <2>2. wpc'[w] \in {"idle", "refused", "failing"} /\ \A v \in Worker : v # w => wpc'[v] = wpc[v]
    BY DEF TypeOK
  <2> QED BY <1>2, <1>4, <2>1, <2>2 DEF Own
<1>9. Owed' BY <1>2, <1>3, <1>4 DEF Owed
<1>10. Named' /\ StatusTellsTruth' BY DEF Named, StatusTellsTruth
<1>11. RevisionsPlayable' BY <1>3, <1>4 DEF RevisionsPlayable
<1>12. UploadSurvives' BY <1>2, <1>4 DEF UploadSurvives
<1> QED BY <1>5, <1>6, <1>7, <1>8, <1>9, <1>10, <1>11, <1>12

\* The steps that only move a worker, and what becomes of its job.
LEMMA MoveKeepsIInv ==
  ASSUME IInv, NEW w \in Worker, ApplyRefused(w) \/ Crash(w) \/ \E j \in Job : Fail(w, j)
  PROVE  IInv'
<1> USE DEF IInv
<1>1. CASE ApplyRefused(w)
  <2> USE <1>1 DEF ApplyRefused, Goto
  <2>1. TypeOK' BY DEF TypeOK
  <2>2. Leases' BY LeasesKept DEF TypeOK
  <2>3. Unused' BY DEF Unused
  <2>4. Own' BY DEF TypeOK, Own
  <2>5. Owed' /\ Named' BY DEF Owed, Named
  <2>6. RevisionsPlayable' /\ StatusTellsTruth' /\ UploadSurvives'
    BY DEF RevisionsPlayable, StatusTellsTruth, UploadSurvives
  <2> QED BY <2>1, <2>2, <2>3, <2>4, <2>5, <2>6
<1>2. CASE Crash(w)
  <2> USE <1>2 DEF Crash, Leave
  <2>1. TypeOK' BY DEF TypeOK
  <2>2. Leases' BY LeasesLeft
  <2>3. Unused' BY DEF Unused
  <2>4. Own' BY DEF TypeOK, Own
  <2>5. Owed' /\ Named' BY DEF Owed, Named
  <2>6. RevisionsPlayable' /\ StatusTellsTruth' /\ UploadSurvives'
    BY DEF RevisionsPlayable, StatusTellsTruth, UploadSurvives
  <2> QED BY <2>1, <2>2, <2>3, <2>4, <2>5, <2>6
<1>3. ASSUME NEW j \in Job, Fail(w, j)
      PROVE  IInv'
  <2> USE <1>3 DEF Fail, Holds
  <2>1. \A i \in Job : status[i] = "completed" => status'[i] = "completed" BY DEF TypeOK
  <2>2. \A i \in Job : status'[i] = "completed" => status[i] = "completed" BY DEF TypeOK
  <2>3. TypeOK' BY DEF Leave, TypeOK
  <2>4. Leases' BY LeasesLeft
  <2>5. Unused' BY DEF Unused
  <2>6. Own'
    <3>1. \A v \in Worker : wjob'[v] # {} => wjob'[v] = wjob[v] /\ wpc'[v] = wpc[v] /\ wlease'[v] = wlease[v]
      BY DEF Leave, TypeOK
    <3> QED BY <2>1, <3>1 DEF Own
  <2>7. Owed' BY <2>1 DEF Owed
  <2>8. Named' BY DEF TypeOK, Named
  <2>9. RevisionsPlayable' BY DEF RevisionsPlayable
  <2>10. StatusTellsTruth' BY <2>1, <2>2 DEF StatusTellsTruth
  <2>11. UploadSurvives' BY <2>1 DEF UploadSurvives
  <2> QED BY <2>3, <2>4, <2>5, <2>6, <2>7, <2>8, <2>9, <2>10, <2>11
<1> QED BY <1>1, <1>2, <1>3

\* The upload is consumed by a worker whose job is done.
LEMMA ConsumeKeepsIInv ==
  ASSUME IInv, NEW w \in Worker, NEW j \in Job, Consume(w, j) \/ DropSource(w, j)
  PROVE  IInv'
<1> USE DEF IInv
<1>1. wjob[w] = {j} /\ wpc[w] \in {"applied", "consumed"} BY DEF Consume, DropSource
<1>2. status[j] = "completed" BY <1>1 DEF Own
<1>3. \A a \in jasset[j] : a \in Asset /\ jasset[j] = {a} BY <1>2 DEF Named, TypeOK
<1>4. wlease[w] <= lease[j] BY <1>1, DestinationIsOwn
<1>5. \A v \in Worker : wjob'[v] # {} =>
        /\ wjob'[v] = wjob[v] /\ wlease'[v] = wlease[v]
        /\ wpc'[v] = wpc[v] \/ (v = w /\ wpc'[v] = "consumed")
  BY DEF Consume, DropSource, Leave, Goto, TypeOK
<1>6. CASE Consume(w, j)
  <2> USE <1>6 DEF Consume
  <2>1. TypeOK' BY DEF Leave, Goto, TypeOK
  <2>2. Leases' BY LeasesLeft, LeasesKept DEF Goto, TypeOK
  <2>3. Unused' BY DEF Unused
  <2>4. Own' BY <1>2, <1>5 DEF Own
  <2>5. Owed' /\ Named' BY DEF Owed, Named
  <2>6. RevisionsPlayable' /\ StatusTellsTruth' BY DEF RevisionsPlayable, StatusTellsTruth
  <2>7. UploadSurvives' BY <1>2, <1>3 DEF UploadSurvives
  <2> QED BY <2>1, <2>2, <2>3, <2>4, <2>5, <2>6, <2>7
<1>7. CASE DropSource(w, j)
  <2> USE <1>7 DEF DropSource
  <2>1. PICK a \in jasset[j] :
          /\ object \ {a} \subseteq object' /\ object' \subseteq object
          /\ condemned' \subseteq condemned \union {a}
    BY DEF Discard, Cleanup!Delete, Cleanup!Condemn
  <2>2. a \in Asset /\ jasset[j] = {a} BY <1>3
  <2>3. TypeOK' BY <2>1, <2>2 DEF Leave, TypeOK, Key
  <2>4. Leases' BY LeasesLeft
  <2>5. Unused' BY <1>4, <2>1, <2>2, UnusedKept
  <2>6. Own'
    <3>1. \A v \in Worker, i \in Job : wjob[v] = {i} => Destination(v, i) # a
      BY <2>2, DestinationIsOwn
    <3> QED BY <1>2, <1>5, <2>1, <3>1 DEF Own
  <2>7. Owed' BY <1>2, <2>1, <2>2 DEF Owed
  <2>8. Named' /\ StatusTellsTruth' BY DEF Named, StatusTellsTruth
  <2>9. RevisionsPlayable' BY <2>1, <2>2 DEF RevisionsPlayable, Named
  <2>10. UploadSurvives' BY <1>2, <2>1, <2>2 DEF UploadSurvives
  <2> QED BY <2>3, <2>4, <2>5, <2>6, <2>7, <2>8, <2>9, <2>10
<1> QED BY <1>6, <1>7

\* The queue deletes what nobody plays.
LEMMA CleanUpKeepsIInv ==
  ASSUME IInv, NEW k \in Key, CleanUp(k)
  PROVE  IInv'
<1> USE DEF IInv, CleanUp
<1>1. /\ k \in condemned /\ k \notin Song
      /\ object \ {k} \subseteq object' /\ object' \subseteq object /\ condemned' \subseteq condemned
  BY DEF Cleanup!Delete, Cleanup!Forget, Owed
<1>2. k \in Asset => Used(k) BY <1>1 DEF Owed
<1>3. Published(k) => k \in unsure
  <2>1. ASSUME Published(k) PROVE k \notin Asset
    BY <1>1, <2>1 DEF Named
  <2> QED BY <1>1, <2>1 DEF Owed, Key
<1>4. TypeOK' BY <1>1 DEF TypeOK
<1>5. Leases' BY DEF Leases
<1>6. Unused' BY <1>1 DEF Unused
<1>7. Own'
  <2> SUFFICES ASSUME NEW v \in Worker, NEW i \in Job, wjob[v] = {i}, wpc[v] \in {"claimed", "copied"}
               PROVE  Destination(v, i) # k
    BY <1>1 DEF Own
  <2> QED BY <1>1 DEF Own
<1>8. Owed' /\ Named' BY <1>1 DEF Owed, Named
<1>9. RevisionsPlayable' BY <1>1, <1>3 DEF RevisionsPlayable
<1>10. StatusTellsTruth' BY DEF StatusTellsTruth
<1>11. UploadSurvives' BY <1>1, <1>2 DEF UploadSurvives
<1> QED BY <1>4, <1>5, <1>6, <1>7, <1>8, <1>9, <1>10, <1>11

LEMMA NextIInv == IInv /\ [Next]_vars => IInv'
<1> SUFFICES ASSUME IInv, [Next]_vars PROVE IInv'
  OBVIOUS
<1>1. CASE \/ \E j \in Job, s \in Song, a \in Asset : Request(j, s, a)
           \/ \E s \in Song : Revert(s) \/ ToggleEditable(s)
           \/ \E j \in Job : Age(j)
  BY <1>1, EditKeepsIInv
<1>2. ASSUME NEW w \in Worker, ApplyRefused(w) \/ Crash(w) \/ \E j \in Job : Fail(w, j)
      PROVE  IInv'
  BY <1>2, MoveKeepsIInv
<1>3. ASSUME NEW w \in Worker, NEW j \in Job, Claim(w, j) PROVE IInv'
  BY <1>3, ClaimKeepsIInv
<1>4. ASSUME NEW w \in Worker, NEW j \in Job,
             Promote(w, j) \/ Apply(w, j) \/ DropCopy(w, j) \/ Consume(w, j) \/ DropSource(w, j)
      PROVE  IInv'
  BY <1>4, PromoteKeepsIInv, ApplyKeepsIInv, DropCopyKeepsIInv, ConsumeKeepsIInv
<1>5. ASSUME NEW k \in Key, CleanUp(k) PROVE IInv'
  BY <1>5, CleanUpKeepsIInv
<1>6. CASE UNCHANGED vars
  <2> USE <1>6 DEF vars, IInv
  <2>1. TypeOK' BY DEF TypeOK
  <2>2. Leases' /\ Unused' /\ Own' BY DEF Leases, Unused, Own
  <2>3. Owed' /\ Named' BY DEF Owed, Named
  <2>4. RevisionsPlayable' /\ StatusTellsTruth' /\ UploadSurvives'
    BY DEF RevisionsPlayable, StatusTellsTruth, UploadSurvives
  <2> QED BY <2>1, <2>2, <2>3, <2>4
<1> QED BY <1>1, <1>2, <1>3, <1>4, <1>5, <1>6 DEF Next, Work

\* The inductive invariant holds.
THEOREM IInvHolds == Spec => []IInv
BY InitIInv, NextIInv, PTL DEF Spec

\* The variables have the types of the tables, the store and the worker.
THEOREM Typing == Spec => []TypeOK
BY IInvHolds, PTL DEF IInv

\* No worker, however late, deletes the audio of a song or of one of its revisions,
\* unless its switch was committed while the worker was told otherwise.
THEOREM Playable == Spec => []RevisionsPlayable
BY IInvHolds, PTL DEF IInv

\* However often a job is claimed, it switches its song at most once and its status says so.
THEOREM OneSwitch == Spec => []StatusTellsTruth
BY IInvHolds, PTL DEF IInv

\* An upload is given up only for a replacement that happened.
THEOREM UploadsKept == Spec => []UploadSurvives
BY IInvHolds, PTL DEF IInv

------------------------------------------------------------------------------
(* Replacement keeps its side of the cleanup queue's contract *)

LEMMA ContractInit == Init => Cleanup!Init
BY DEF Init, Cleanup!Init, Key

LEMMA ContractDiscard ==
  ASSUME NEW K \in SUBSET Key, Discard(K)
  PROVE  [Cleanup!Next]_<<object, condemned>>
BY DEF Discard, Cleanup!Next

LEMMA ContractStep == IInv /\ [Next]_vars => [Cleanup!Next]_<<object, condemned>>
<1> SUFFICES ASSUME IInv, [Next]_vars PROVE [Cleanup!Next]_<<object, condemned>>
  OBVIOUS
<1>1. ASSUME NEW w \in Worker, NEW j \in Job, Promote(w, j)
      PROVE  [Cleanup!Next]_<<object, condemned>>
  <2>1. Destination(w, j) \in Key /\ Destination(w, j) \notin condemned
    BY <1>1, DestinationIsOwn DEF Promote, IInv, Own, Key
  <2> HIDE DEF Destination
  <2> QED BY <1>1, <2>1 DEF Promote, Goto, Cleanup!Next, Cleanup!Write
<1>2. ASSUME NEW w \in Worker, NEW j \in Job, DropCopy(w, j)
      PROVE  [Cleanup!Next]_<<object, condemned>>
  <2>1. Destination(w, j) \in Key BY <1>2, DestinationIsOwn DEF DropCopy, Key
  <2> QED BY <1>2, <2>1, ContractDiscard DEF DropCopy, Leftovers
<1>3. ASSUME NEW w \in Worker, NEW j \in Job, DropSource(w, j)
      PROVE  [Cleanup!Next]_<<object, condemned>>
  <2>1. jasset[j] \subseteq Key BY DEF IInv, TypeOK, Key
  <2> QED BY <1>3, <2>1, ContractDiscard DEF DropSource
<1>4. ASSUME NEW k \in Key, CleanUp(k) PROVE Cleanup!Next
  BY <1>4 DEF CleanUp, Cleanup!Next
<1>5. ASSUME NEW w \in Worker, NEW j \in Job,
             Claim(w, j) \/ Apply(w, j) \/ Fail(w, j) \/ Consume(w, j)
      PROVE  UNCHANGED <<object, condemned>>
  BY <1>5 DEF Claim, Apply, Fail, Consume
<1>6. ASSUME NEW w \in Worker, Crash(w) \/ ApplyRefused(w) PROVE UNCHANGED <<object, condemned>>
  BY <1>6 DEF Crash, ApplyRefused
<1>7. CASE \/ \E j \in Job, s \in Song, a \in Asset : Request(j, s, a)
           \/ \E s \in Song : Revert(s) \/ ToggleEditable(s)
           \/ \E j \in Job : Age(j)
  BY <1>7 DEF Request, Revert, ToggleEditable, Age
<1>8. CASE UNCHANGED vars BY <1>8 DEF vars
<1> QED BY <1>1, <1>2, <1>3, <1>4, <1>5, <1>6, <1>7, <1>8 DEF Next, Work

\* No copy is written under a key whose deletion is owed, and what is deleted or owed is
\* so as CleanupPromise allows.
THEOREM ContractKept == Spec => NoCondemnedWrite
<1> QED BY IInvHolds, ContractInit, ContractStep, PTL DEF Spec, NoCondemnedWrite, Cleanup!Spec

------------------------------------------------------------------------------
(* Replacement implements AudioPromise.  Beyond the invariant above this    *)
(* needs that the row of an upload is the first to go, so that an upload    *)
(* with a row can be used, and that a published copy is of a finished job,  *)
(* so that the audio a song is switched to is new to every song.            *)

Spare ==
  /\ assetRow \subseteq object
  /\ condemned \intersect assetRow = {}
  /\ \A w \in Worker, j \in Job :
       wjob[w] = {j} /\ wpc[w] = "consumed" => jasset[j] \intersect assetRow = {}

Switched ==
  \A j \in Job : \A n \in 1 .. MaxClaim[j], s \in Song :
    <<j, n>> \in past[s] => status[j] = "completed"

\* The store loses nothing but copies and uploads without a row.
LEMMA DiscardSpares ==
  ASSUME Spare, NEW K, K \intersect assetRow = {}, Discard(K)
  PROVE  /\ assetRow \subseteq object'
         /\ condemned' \intersect assetRow = {}
BY DEF Spare, Discard, Cleanup!Delete, Cleanup!Condemn

\* Only those who consumed an upload think so, and it has no row.
LEMMA ConsumedStays ==
  ASSUME TypeOK, Spare, UNCHANGED jasset, assetRow' \subseteq assetRow,
         \A w \in Worker : wpc'[w] = "consumed" => wpc[w] = "consumed" /\ wjob'[w] = wjob[w]
  PROVE  \A w \in Worker, j \in Job :
           wjob'[w] = {j} /\ wpc'[w] = "consumed" => jasset'[j] \intersect assetRow' = {}
BY DEF Spare

LEMMA SpareKept == IInv /\ Spare /\ [Next]_vars => Spare'
<1> SUFFICES ASSUME IInv, Spare, [Next]_vars PROVE Spare'
  OBVIOUS
<1> USE DEF IInv
<1>1. ASSUME NEW j \in Job, NEW s \in Song, NEW a \in Asset, Request(j, s, a) PROVE Spare'
  BY <1>1 DEF Request, Spare, Own, TypeOK
<1>2. ASSUME UNCHANGED <<assetRow, storeVars, jasset>>,
             \A w \in Worker : wpc'[w] = "consumed" => wpc[w] = "consumed" /\ wjob'[w] = wjob[w]
      PROVE  Spare'
  BY <1>2, ConsumedStays DEF Spare
<1>3. ASSUME NEW w \in Worker, NEW j \in Job, Claim(w, j) \/ Apply(w, j) \/ Fail(w, j) PROVE Spare'
  BY <1>3, <1>2 DEF Claim, Apply, Fail, Goto, Leave, TypeOK
<1>4. ASSUME NEW w \in Worker, Crash(w) \/ ApplyRefused(w) PROVE Spare'
  BY <1>4, <1>2 DEF Crash, ApplyRefused, Goto, Leave, TypeOK
<1>5. ASSUME NEW w \in Worker, NEW j \in Job, Promote(w, j) PROVE Spare'
  <2>1. object \subseteq object' /\ UNCHANGED <<assetRow, condemned, jasset>>
    BY <1>5 DEF Promote
  <2>2. \A v \in Worker : wpc'[v] = "consumed" => wpc[v] = "consumed" /\ wjob'[v] = wjob[v]
    BY <1>5 DEF Promote, Goto, TypeOK
  <2> QED BY <2>1, <2>2, ConsumedStays DEF Spare
<1>6. ASSUME NEW w \in Worker, NEW j \in Job, DropCopy(w, j) PROVE Spare'
  <2>1. {Destination(w, j)} \intersect assetRow = {}
    BY <1>6, DestinationIsOwn DEF DropCopy, TypeOK
  <2>2. Discard({Destination(w, j)}) /\ UNCHANGED <<assetRow, jasset>>
    BY <1>6 DEF DropCopy, Leftovers
  <2>3. \A v \in Worker : wpc'[v] = "consumed" => wpc[v] = "consumed" /\ wjob'[v] = wjob[v]
    BY <1>6 DEF DropCopy, Goto, TypeOK
  <2> QED BY <2>1, <2>2, <2>3, DiscardSpares, ConsumedStays DEF Spare
<1>7. ASSUME NEW w \in Worker, NEW j \in Job, Consume(w, j) PROVE Spare'
  <2>1. assetRow' \subseteq assetRow /\ UNCHANGED <<storeVars, jasset>>
    BY <1>7 DEF Consume
  <2>2. wpc'[w] = "consumed" => wjob'[w] = {j} /\ assetRow' = assetRow \ jasset[j]
    BY <1>7 DEF Consume, Goto, Leave, TypeOK
  <2>3. \A v \in Worker \ {w} : wpc'[v] = wpc[v] /\ wjob'[v] = wjob[v]
    BY <1>7 DEF Consume, Goto, Leave, TypeOK
  <2>4. ASSUME NEW v \in Worker, NEW i \in Job, wjob'[v] = {i}, wpc'[v] = "consumed"
        PROVE  jasset'[i] \intersect assetRow' = {}
    BY <2>1, <2>2, <2>3, <2>4 DEF Spare
  <2> QED BY <2>1, <2>4 DEF Spare
<1>8. ASSUME NEW w \in Worker, NEW j \in Job, DropSource(w, j) PROVE Spare'
  <2>1. jasset[j] \intersect assetRow = {} BY <1>8 DEF DropSource, Spare
  <2>2. Discard(jasset[j]) /\ UNCHANGED <<assetRow, jasset>> BY <1>8 DEF DropSource
  <2>3. \A v \in Worker : wpc'[v] = "consumed" => wpc[v] = "consumed" /\ wjob'[v] = wjob[v]
    BY <1>8 DEF DropSource, Leave, TypeOK
  <2> QED BY <2>1, <2>2, <2>3, DiscardSpares, ConsumedStays DEF Spare
<1>9. ASSUME NEW k \in Key, CleanUp(k) PROVE Spare'
  BY <1>9 DEF CleanUp, Cleanup!Delete, Cleanup!Forget, Spare
<1>10. CASE \/ \E s \in Song : Revert(s) \/ ToggleEditable(s)
            \/ \E j \in Job : Age(j)
            \/ UNCHANGED vars
  BY <1>10, <1>2 DEF Revert, ToggleEditable, Age, vars
<1> QED BY <1>1, <1>3, <1>4, <1>5, <1>6, <1>7, <1>8, <1>9, <1>10 DEF Next, Work

\* A song is switched together with its job, and a finished job stays so.
LEMMA SwitchedKept == IInv /\ Switched /\ [Next]_vars => Switched'
<1> SUFFICES ASSUME IInv, Switched, [Next]_vars PROVE Switched'
  OBVIOUS
<1> USE DEF IInv
<1>1. ASSUME UNCHANGED past, \A j \in Job : status[j] = "completed" => status'[j] = "completed"
      PROVE  Switched'
  BY <1>1 DEF Switched
<1>2. ASSUME NEW j \in Job, NEW s \in Song, NEW a \in Asset, Request(j, s, a) PROVE Switched'
  BY <1>2, <1>1 DEF Request, TypeOK
<1>3. ASSUME NEW w \in Worker, NEW j \in Job, Claim(w, j) \/ Fail(w, j) PROVE Switched'
  BY <1>3, <1>1 DEF Claim, Claimable, Fail, Holds, TypeOK
<1>4. ASSUME NEW w \in Worker, NEW j \in Job, Apply(w, j) PROVE Switched'
  <2>1. \A s \in Song : past'[s] \subseteq past[s] \union {<<j, wlease[w]>>}
    BY <1>4 DEF Apply
  <2>2. status'[j] = "completed" /\ \A i \in Job \ {j} : status'[i] = status[i]
    BY <1>4 DEF Apply, TypeOK
  <2>3. ASSUME NEW i \in Job, NEW n \in 1 .. MaxClaim[i], NEW s \in Song, <<i, n>> \in past'[s]
        PROVE  status'[i] = "completed"
    <3>1. CASE i = j BY <2>2, <3>1
    <3>2. CASE i # j
      <4>1. <<i, n>> \in past[s] BY <2>1, <2>3, <3>2
      <4> QED BY <2>2, <3>2, <4>1 DEF Switched
    <3> QED BY <3>1, <3>2
  <2> QED BY <2>3 DEF Switched
<1>5. ASSUME NEW w \in Worker, NEW j \in Job,
             Promote(w, j) \/ DropCopy(w, j) \/ Consume(w, j) \/ DropSource(w, j)
      PROVE  Switched'
  BY <1>5, <1>1 DEF Promote, DropCopy, Consume, DropSource
<1>6. ASSUME NEW w \in Worker, Crash(w) \/ ApplyRefused(w) PROVE Switched'
  BY <1>6, <1>1 DEF Crash, ApplyRefused
<1>7. CASE \/ \E s \in Song : Revert(s) \/ ToggleEditable(s)
           \/ \E j \in Job : Age(j)
           \/ \E k \in Key : CleanUp(k)
           \/ UNCHANGED vars
  BY <1>7, <1>1 DEF Revert, ToggleEditable, Age, CleanUp, vars
<1> QED BY <1>2, <1>3, <1>4, <1>5, <1>6, <1>7 DEF Next, Work

LEMMA RefinementInv == Spec => [](IInv /\ Spare /\ Switched)
<1>1. Init => Spare /\ Switched
  BY CopyOfClaim DEF Init, Spare, Switched
<1> QED BY <1>1, IInvHolds, SpareKept, SwitchedKept, PTL DEF Spec

Keeps == [Promise!PromiseNext]_(Promise!promiseVars)
Spares == assetRow \intersect object

LEMMA StageValues ==
  /\ StageOf["none"] = "absent" /\ StageOf["pending"] = "asked"
  /\ StageOf["processing"] = "asked" /\ StageOf["completed"] = "switched"
  /\ StageOf["failed"] = "refused"
BY DEF StageOf

\* An upload with a row is spare.
LEMMA SparesAreRows == (Spare => Spares = assetRow) /\ (Spare' => Spares' = assetRow')
BY DEF Spare, Spares

\* The promise does not see the steps that leave stages, songs and uploads' rows alone.
LEMMA StutterKeeps ==
  ASSUME Spare, Spare', UNCHANGED <<audioVars, jsong, jasset, assetRow>>,
         \A j \in Job : StageOf[status'[j]] = StageOf[status[j]]
  PROVE  Keeps
<1>1. UNCHANGED Spares BY SparesAreRows
<1>2. UNCHANGED [j \in Job |-> StageOf[status[j]]] OBVIOUS
<1> QED BY <1>1, <1>2 DEF Keeps, Promise!promiseVars, Spares

\* Writing one job's status advances its stage.
LEMMA StatusAdvances ==
  ASSUME TypeOK, NEW j \in Job, NEW state, status' = [status EXCEPT ![j] = state]
  PROVE  Promise!Advance(j, StageOf[status[j]], StageOf[state])
BY DEF TypeOK, Promise!Advance

\* The upload asked for has a row, hence its object.
LEMMA RequestKeeps ==
  ASSUME IInv, Spare, Spare', NEW j \in Job, NEW s \in Song, NEW a \in Asset, Request(j, s, a)
  PROVE  Keeps
<1>1. Promise!Advance(j, "absent", "asked")
  BY StatusAdvances, StageValues DEF IInv, Request
<1>2. a \in Spares /\ UNCHANGED Spares
  BY SparesAreRows DEF Request
<1>3. Promise!Ask(j, s, a)
  BY <1>1, <1>2 DEF Promise!Ask, Request, Spares
<1> QED BY <1>3 DEF Keeps, Promise!PromiseNext

\* The claim is still held, so its destination was never published.
LEMMA ApplyKeeps ==
  ASSUME IInv, Spare, Spare', Switched, NEW w \in Worker, NEW j \in Job, Apply(w, j)
  PROVE  Keeps
<1>1. Promise!Advance(j, "asked", "switched")
  BY StatusAdvances, StageValues DEF IInv, Apply, Holds
<1>2. Destination(w, j) \in Key
  BY DestinationIsOwn DEF Apply, Key
<1>3. \A s \in Song : Destination(w, j) \notin past[s]
  BY DEF Apply, IInv, Own
<1>4. UNCHANGED Spares
  BY SparesAreRows DEF Apply
<1> HIDE DEF Destination
<1>5. Promise!Switch(j)
  BY <1>1, <1>2, <1>3, <1>4 DEF Promise!Switch, Apply, Revised, Spares
<1> QED BY <1>5 DEF Keeps, Promise!PromiseNext

LEMMA FailKeeps ==
  ASSUME IInv, Spare, Spare', NEW w \in Worker, NEW j \in Job, Fail(w, j)
  PROVE  Keeps
<1>1. CASE Holds(w, j) /\ status' = [status EXCEPT ![j] = "failed"]
  <2>1. Promise!Advance(j, "asked", "refused")
    BY <1>1, StatusAdvances, StageValues DEF IInv, Holds
  <2>2. UNCHANGED Spares
    BY SparesAreRows DEF Fail
  <2>3. Promise!Refuse(j)
    BY <2>1, <2>2 DEF Promise!Refuse, Fail, Spares
  <2> QED BY <2>3 DEF Keeps, Promise!PromiseNext
<1>2. CASE UNCHANGED status
  BY <1>2, StutterKeeps DEF Fail
<1> QED BY <1>1, <1>2 DEF Fail

\* A worker that consumes an upload has seen its job completed.
LEMMA ConsumeKeeps ==
  ASSUME IInv, Spare, Spare', NEW w \in Worker, NEW j \in Job, Consume(w, j)
  PROVE  Keeps
<1>1. CASE assetRow' = assetRow \ jasset[j]
  <2>1. StageOf[status[j]] = "switched"
    BY StageValues DEF Consume, IInv, Own
  <2>2. Spares' = Spares \ jasset[j]
    BY <1>1, SparesAreRows
  <2>3. Promise!Spend(j)
    BY <2>1, <2>2 DEF Promise!Spend, Consume, Spares
  <2> QED BY <2>3 DEF Keeps, Promise!PromiseNext
<1>2. CASE UNCHANGED assetRow
  BY <1>2, StutterKeeps DEF Consume
<1> QED BY <1>1, <1>2 DEF Consume

LEMMA EditKeeps ==
  ASSUME Spare, Spare', NEW s \in Song, Revert(s) \/ ToggleEditable(s)
  PROVE  Keeps
<1>1. UNCHANGED Spares
  BY SparesAreRows DEF Revert, ToggleEditable
<1>2. CASE Revert(s)
  <2>1. Promise!Revert(s)
    BY <1>1, <1>2 DEF Promise!Revert, Revert, Spares
  <2> QED BY <2>1 DEF Keeps, Promise!PromiseNext
<1>3. CASE ToggleEditable(s)
  <2>1. Promise!Toggle(s)
    BY <1>1, <1>3 DEF Promise!Toggle, ToggleEditable, Spares
  <2> QED BY <2>1 DEF Keeps, Promise!PromiseNext
<1> QED BY <1>2, <1>3

LEMMA StepKeeps == IInv /\ Spare /\ Spare' /\ Switched /\ [Next]_vars => Keeps
<1> SUFFICES ASSUME IInv, Spare, Spare', Switched, [Next]_vars PROVE Keeps
  OBVIOUS
<1>1. ASSUME NEW w \in Worker, NEW j \in Job, Claim(w, j) PROVE Keeps
  <2>1. StageOf[status[j]] = "asked" /\ StageOf["processing"] = "asked"
    BY <1>1, StageValues DEF Claim, Claimable
  <2>2. \A i \in Job : StageOf[status'[i]] = StageOf[status[i]]
    BY <1>1, <2>1 DEF Claim, IInv, TypeOK
  <2> QED BY <1>1, <2>2, StutterKeeps DEF Claim
<1>2. ASSUME NEW w \in Worker, NEW j \in Job, Promote(w, j) \/ DropCopy(w, j) \/ DropSource(w, j)
      PROVE  Keeps
  BY <1>2, StutterKeeps DEF Promote, DropCopy, DropSource
<1>3. ASSUME NEW w \in Worker, Crash(w) \/ ApplyRefused(w) PROVE Keeps
  BY <1>3, StutterKeeps DEF Crash, ApplyRefused
<1>4. CASE \/ \E j \in Job : Age(j)
           \/ \E k \in Key : CleanUp(k)
           \/ UNCHANGED vars
  BY <1>4, StutterKeeps DEF Age, CleanUp, vars
<1> QED
  BY <1>1, <1>2, <1>3, <1>4, RequestKeeps, ApplyKeeps, FailKeeps, ConsumeKeeps, EditKeeps
     DEF Next, Work

\* Every run of the replacement, seen through jobs, songs and uploads, is one of AudioPromise:
\* a switch is atomic, a failure keeps the original audio.
THEOREM ReplacementKeepsPromise == Spec => KeepsPromise
<1>1. Init => Promise!PromiseInit
  <2> SUFFICES ASSUME Init PROVE Promise!PromiseInit
    OBVIOUS
  <2>1. [j \in Job |-> StageOf[status[j]]] = [j \in Job |-> "absent"]
    BY StageValues DEF Init
  <2>2. assetRow \intersect object = Asset
    BY DEF Init
  <2> QED BY <2>1, <2>2 DEF Init, Promise!PromiseInit, Key
<1>2. IInv /\ Spare /\ Spare' /\ Switched /\ [Next]_vars
        => [Promise!PromiseNext]_(Promise!promiseVars)
  BY StepKeeps DEF Keeps
<1> QED
  BY <1>1, <1>2, RefinementInv, PTL DEF Spec, KeepsPromise, Promise!PromiseSpec
==============================================================================
