---------------------------- MODULE QueueProofs -----------------------------
(***************************************************************************)
(* Two queues between processes.  The durable one, IndexNowQueue, loses no *)
(* change, for any number of URLs, worker processes and changes and any    *)
(* batch size.  The one in memory, CollabHub, may lose messages but never  *)
(* reorders them, and loses nobody's leave, for any number of clients and  *)
(* rooms and any capacity of its channels.                                 *)
(***************************************************************************)
EXTENDS IndexNowQueue, CollabHub, SequenceTheorems, TLAPS

------------------------------------------------------------------------------
(* The durable queue.  The induction needs to know why an acknowledgement  *)
(* that still holds the row's token and revision speaks of the newest      *)
(* change: a token belongs to one claim, and under a token the revision    *)
(* only grows.                                                             *)

\* A row that is not there holds no token; a worker has one exactly while it works.
TokensInUse ==
  /\ \A u \in URL : u \notin queued => token[u] = NoToken
  /\ \A w \in Worker : (wpc[w] = "idle") <=> (wtoken[w] = NoToken)

\* No two claims share a token.
TokensDiffer ==
  \A v, w \in Worker : v # w /\ wtoken[v] = wtoken[w] => wtoken[v] = NoToken

\* Under one token a row's revision only moves ahead of the claimed one.
RevisionAhead ==
  \A w \in Worker, u \in URL :
    wtoken[w] # NoToken /\ Held(w, u) => revision[u] >= wrev[w][u]

\* What an accepted delivery may delete has no change left to tell.
DeliveredIsCovered ==
  \A w \in Worker, u \in URL :
    wpc[w] = "accepted" /\ u \in Delivered(w) => covered[u] = published[u]

IInv == TypeOK /\ TokensInUse /\ TokensDiffer /\ RevisionAhead
          /\ DeliveredIsCovered /\ NoChangeLost

USE DEF InBatch, Held, Delivered

LEMMA InitIInv == Init => IInv
BY QueueAssumption DEF Init, IInv, TypeOK, TokensInUse, TokensDiffer, RevisionAhead,
                       DeliveredIsCovered, NoChangeLost

\* Publishing raises the revision, so what was claimed before cannot match it.
LEMMA EnqueueIInv ==
  ASSUME IInv, NEW x \in URL, Enqueue(x) PROVE IInv'
<1> USE QueueAssumption DEF IInv, Enqueue, NextRevision, rowVars, workVars
<1>1. TypeOK'
  BY DEF TypeOK
<1>2. TokensInUse' /\ TokensDiffer'
  BY DEF TokensInUse, TokensDiffer
<1>3. RevisionAhead'
  BY DEF RevisionAhead, TypeOK, TokensInUse
<1>4. DeliveredIsCovered'
  <2> SUFFICES ASSUME NEW w \in Worker, NEW u \in URL,
                      wpc'[w] = "accepted", (u \in Delivered(w))'
               PROVE  covered'[u] = published'[u]
    BY DEF DeliveredIsCovered
  <2>1. u # x
    BY DEF TypeOK, TokensInUse, RevisionAhead
  <2>2. u \in Delivered(w)
    BY <2>1 DEF TypeOK
  <2> QED
    BY <2>1, <2>2 DEF DeliveredIsCovered, TypeOK
<1>5. NoChangeLost'
  BY DEF NoChangeLost, TypeOK
<1> QED
  BY <1>1, <1>2, <1>3, <1>4, <1>5

\* A claim brings a token nobody holds.
LEMMA ClaimIInv ==
  ASSUME IInv, NEW w \in Worker, Claim(w) PROVE IInv'
<1> USE QueueAssumption DEF IInv, rowVars, workVars
<1> PICK S \in SUBSET {u \in URL : Claimable(u)}, t \in Token :
       /\ Fresh(t)
       /\ token' = [u \in URL |-> IF u \in S THEN t ELSE token[u]]
       /\ leased' = [u \in URL |-> u \in S \/ leased[u]]
       /\ wtoken' = [wtoken EXCEPT ![w] = t]
       /\ wrev' = [wrev EXCEPT ![w] = [u \in URL |-> IF u \in S THEN revision[u] ELSE 0]]
  BY DEF Claim
<1> wpc[w] = "idle" /\ wpc' = [wpc EXCEPT ![w] = "claimed"]
    /\ UNCHANGED <<queued, revision, due, published, covered>>
  BY DEF Claim
<1> \A u \in S : u \in URL /\ u \in queued
  BY DEF Claimable
<1>1. TypeOK'
  BY DEF TypeOK
<1>2. TokensInUse'
  BY DEF TokensInUse, TypeOK
<1>3. TokensDiffer'
  BY DEF TokensDiffer, TypeOK, Fresh
<1>4. RevisionAhead'
  BY DEF RevisionAhead, TypeOK, Fresh
<1>5. DeliveredIsCovered'
  BY DEF DeliveredIsCovered, TypeOK, Fresh
<1>6. NoChangeLost'
  BY DEF NoChangeLost
<1> QED
  BY <1>1, <1>2, <1>3, <1>4, <1>5, <1>6

\* Whatever the engine answers, it knows every change published so far.
LEMMA SubmitIInv ==
  ASSUME IInv, NEW w \in Worker, Submit(w) PROVE IInv'
<1> USE DEF IInv, rowVars
<1>1. UNCHANGED <<queued, revision, token, leased, due, wtoken, wrev, published>>
  BY DEF Submit
<1>2. wpc[w] = "claimed" /\ \E x \in {"accepted", "failed"} : wpc' = [wpc EXCEPT ![w] = x]
  BY DEF Submit
<1>3. Cover(w) \/ (UNCHANGED covered /\ wpc' = [wpc EXCEPT ![w] = "failed"])
  BY DEF Submit
<1>4. TypeOK'
  BY <1>1, <1>2, <1>3 DEF TypeOK, Cover
<1>5. TokensInUse' /\ TokensDiffer' /\ RevisionAhead'
  BY <1>1, <1>2 DEF TokensInUse, TokensDiffer, RevisionAhead, TypeOK
<1>6. DeliveredIsCovered'
  BY <1>1, <1>2, <1>3 DEF DeliveredIsCovered, TypeOK, Cover
<1>7. NoChangeLost'
  BY <1>1, <1>3 DEF NoChangeLost, Cover, TypeOK
<1> QED
  BY <1>4, <1>5, <1>6, <1>7

\* Only rows without a change left to tell are deleted.
LEMMA AcknowledgeIInv ==
  ASSUME IInv, NEW w \in Worker, Acknowledge(w) PROVE IInv'
<1> USE QueueAssumption DEF IInv, Acknowledge, Release, Rest
<1>1. TypeOK'
  BY DEF TypeOK
<1>2. TokensInUse'
  BY DEF TokensInUse, TypeOK
<1>3. TokensDiffer'
  BY DEF TokensDiffer, TypeOK
<1>4. RevisionAhead'
  BY DEF RevisionAhead, TypeOK
<1>5. DeliveredIsCovered'
  BY DEF DeliveredIsCovered, TypeOK, TokensInUse
<1>6. NoChangeLost'
  BY DEF NoChangeLost, DeliveredIsCovered, TypeOK
<1> QED
  BY <1>1, <1>2, <1>3, <1>4, <1>5, <1>6

\* A failed delivery gives its rows back and deletes nothing.
LEMMA BackoffIInv ==
  ASSUME IInv, NEW w \in Worker, Backoff(w) PROVE IInv'
<1> USE QueueAssumption DEF IInv, Backoff, Release, Rest
<1>1. TypeOK'
  BY DEF TypeOK
<1>2. TokensInUse' /\ TokensDiffer'
  BY DEF TokensInUse, TokensDiffer, TypeOK
<1>3. RevisionAhead'
  BY DEF RevisionAhead, TypeOK
<1>4. DeliveredIsCovered'
  BY DEF DeliveredIsCovered, TypeOK, TokensInUse
<1>5. NoChangeLost'
  BY DEF NoChangeLost
<1> QED
  BY <1>1, <1>2, <1>3, <1>4, <1>5

LEMMA CrashIInv ==
  ASSUME IInv, NEW w \in Worker, Crash(w) PROVE IInv'
<1> USE QueueAssumption DEF IInv, Crash, Rest, rowVars
<1>1. TypeOK'
  BY DEF TypeOK
<1>2. TokensInUse' /\ TokensDiffer' /\ RevisionAhead'
  BY DEF TokensInUse, TokensDiffer, RevisionAhead, TypeOK
<1>3. DeliveredIsCovered' /\ NoChangeLost'
  BY DEF DeliveredIsCovered, TypeOK, NoChangeLost
<1> QED
  BY <1>1, <1>2, <1>3

LEMMA ClockIInv ==
  ASSUME IInv, NEW x \in URL, BecomeDue(x) \/ Expire(x) PROVE IInv'
<1>1. /\ UNCHANGED <<queued, revision, token, workVars, published, covered>>
      /\ leased' \in [URL -> BOOLEAN] /\ due' \in [URL -> BOOLEAN]
  BY DEF BecomeDue, Expire, IInv, TypeOK
<1>2. TypeOK'
  BY <1>1 DEF IInv, TypeOK, workVars
<1>3. (TokensInUse /\ TokensDiffer /\ RevisionAhead /\ DeliveredIsCovered /\ NoChangeLost)'
  BY <1>1 DEF IInv, TokensInUse, TokensDiffer, RevisionAhead, DeliveredIsCovered,
              NoChangeLost, workVars
<1> QED
  BY <1>2, <1>3 DEF IInv

LEMMA NextIInv == IInv /\ [Next]_vars => IInv'
<1> SUFFICES ASSUME IInv, [Next]_vars PROVE IInv'
  OBVIOUS
<1>1. CASE UNCHANGED vars
  BY <1>1 DEF vars, rowVars, workVars, IInv, TypeOK, TokensInUse, TokensDiffer,
              RevisionAhead, DeliveredIsCovered, NoChangeLost
<1>2. CASE Next
  BY <1>2, EnqueueIInv, ClaimIInv, SubmitIInv, AcknowledgeIInv, BackoffIInv, CrashIInv,
     ClockIInv DEF Next
<1> QED
  BY <1>1, <1>2

LEMMA IInvHolds == Spec => []IInv
BY InitIInv, NextIInv, PTL DEF Spec

\* Every reachable state of the queue is well typed, and every row has a revision.
THEOREM QueueTypeCorrect == Spec => []TypeOK
<1>1. IInv => TypeOK
  BY DEF IInv
<1> QED
  BY <1>1, IInvHolds, PTL

\* The promise of durable.go: no acknowledgement, of whichever worker and however
\* late, deletes a change that the engine was not told about.
THEOREM QueueLosesNoChange == Spec => []NoChangeLost
<1>1. IInv => NoChangeLost
  BY DEF IInv
<1> QED
  BY <1>1, IInvHolds, PTL

------------------------------------------------------------------------------
(* The hub.  A client may leave, be slow or be cut off at any moment, and  *)
(* the hub serves its channels in any order.  Order is kept because all of *)
(* one sender's messages take one way: the hub's channel, the receiver's   *)
(* channel, the connection.                                                *)

\* What one client wrote stands in the order it wrote it, here and from here to there.
Rising(q) == \A i, j \in 1..Len(q) : i < j /\ q[i].from = q[j].from => q[i].n < q[j].n
Below(q, m) == \A i \in 1..Len(q) : q[i].from = m.from => q[i].n < m.n
Before(p, q) == \A j \in 1..Len(q) : Below(p, q[j])

\* All that was read has a number given out by then; nobody is sent what is not for them.
Counted(q) == \A i \in 1..Len(q) : q[i].n <= sent[q[i].from]
ForPeer(c, q) == \A i \in 1..Len(q) : q[i].from # c /\ RoomOf[q[i].from] = RoomOf[c]

\* A message goes from the hub's channel to the client's and from there to the peer.
Flows(c) ==
  /\ Rising(send[c]) /\ Rising(got[c])
  /\ Before(got[c], send[c]) /\ Before(got[c], message) /\ Before(send[c], message)
  /\ Counted(send[c]) /\ Counted(got[c])
  /\ ForPeer(c, send[c]) /\ ForPeer(c, got[c])

\* Whoever is gone has told the hub, and the hub will close or has closed its channel.
LeavesArrive ==
  \A c \in Client : reader[c] = "gone" => c \in closed \/ \E i \in 1..Len(leave) : leave[i] = c

\* Only who connected joins, and only who is gone leaves.
InTurn ==
  /\ \A i \in 1..Len(join) : reader[join[i]] # "new"
  /\ \A i \in 1..Len(leave) : reader[leave[i]] = "gone"

RelayInv ==
  /\ RelayTypeOK /\ InTurn /\ LeavesArrive
  /\ Rising(message) /\ Counted(message)
  /\ \A c \in Client : Flows(c)

(* Facts about queues of messages *)

LEMMA QueueAppend ==
  ASSUME NEW q \in Seq(Messages), NEW m \in Messages
  PROVE  /\ Append(q, m) \in Seq(Messages) /\ Len(Append(q, m)) = Len(q) + 1
         /\ Append(q, m)[Len(q) + 1] = m
         /\ \A i \in 1..Len(q) : Append(q, m)[i] = q[i]
BY AppendProperties

LEMMA QueueTail ==
  ASSUME NEW q \in Seq(Messages), q # <<>>
  PROVE  /\ Tail(q) \in Seq(Messages) /\ Len(Tail(q)) = Len(q) - 1
         /\ Head(q) = q[1] /\ Head(q) \in Messages /\ 1 \in 1..Len(q)
         /\ \A i \in 1..Len(Tail(q)) : i + 1 \in 1..Len(q) /\ Tail(q)[i] = q[i + 1]
BY HeadTailProperties

LEMMA Capacities == SendCap \in Nat \ {0} /\ QueueCap \in Nat \ {0} /\ MaxMessage \in Nat
BY HubAssumption

LEMMA QueueMember ==
  ASSUME NEW q \in Seq(Messages), NEW i \in 1..Len(q)
  PROVE  q[i] \in Messages /\ q[i].from \in Client /\ q[i].n \in Nat
<1>1. q[i] \in Messages
  OBVIOUS
<1> QED
  BY <1>1, Capacities DEF Messages

\* What holds of a queue and of one more message holds of the two together.
LEMMA BothAppend ==
  ASSUME NEW q \in Seq(Messages), NEW m \in Messages, NEW i \in 1..Len(Append(q, m))
  PROVE  (i \in 1..Len(q) /\ Append(q, m)[i] = q[i]) \/ Append(q, m)[i] = m
BY QueueAppend

LEMMA BeforeAppend ==
  ASSUME NEW p \in Seq(Messages), NEW q \in Seq(Messages), NEW m \in Messages,
         Before(p, q), Below(p, m)
  PROVE  Before(p, Append(q, m))
BY BothAppend DEF Before

LEMMA BelowAppend ==
  ASSUME NEW q \in Seq(Messages), NEW h \in Messages, NEW m \in Messages,
         Below(q, m), h.from = m.from => h.n < m.n
  PROVE  Below(Append(q, h), m)
BY BothAppend DEF Below

LEMMA CountedAppend ==
  ASSUME NEW q \in Seq(Messages), NEW m \in Messages, Counted(q), m.n <= sent[m.from]
  PROVE  Counted(Append(q, m))
BY BothAppend DEF Counted

LEMMA ForPeerAppend ==
  ASSUME NEW q \in Seq(Messages), NEW m \in Messages, NEW c \in Client,
         ForPeer(c, q), m.from # c, RoomOf[m.from] = RoomOf[c]
  PROVE  ForPeer(c, Append(q, m))
BY BothAppend DEF ForPeer

LEMMA RisingAppend ==
  ASSUME NEW q \in Seq(Messages), NEW m \in Messages, Rising(q), Below(q, m)
  PROVE  Rising(Append(q, m))
BY QueueAppend DEF Rising, Below

LEMMA RisingTail ==
  ASSUME NEW q \in Seq(Messages), q # <<>>, Rising(q)
  PROVE  Rising(Tail(q))
<1> SUFFICES ASSUME NEW i \in 1..Len(Tail(q)), NEW j \in 1..Len(Tail(q)), i < j,
                    Tail(q)[i].from = Tail(q)[j].from
             PROVE  Tail(q)[i].n < Tail(q)[j].n
  BY DEF Rising
<1>1. i + 1 \in 1..Len(q) /\ j + 1 \in 1..Len(q) /\ i + 1 < j + 1
  BY QueueTail
<1> QED
  BY <1>1, QueueTail DEF Rising

\* What comes after everything in q still does when q loses its head ...
LEMMA BelowTail ==
  ASSUME NEW q \in Seq(Messages), q # <<>>, NEW m \in Messages, Below(q, m)
  PROVE  Below(Tail(q), m)
BY QueueTail DEF Below

\* ... and everything left of q comes after its head.
LEMMA HeadFirst ==
  ASSUME NEW p \in Seq(Messages), NEW q \in Seq(Messages), q # <<>>, Rising(q), Before(p, q)
  PROVE  /\ Below(p, Head(q)) /\ Before(p, Tail(q))
         /\ Before(Append(p, Head(q)), Tail(q))
<1>1. Below(p, Head(q))
  BY QueueTail DEF Before
<1>2. ASSUME NEW j \in 1..Len(Tail(q)) PROVE Below(Append(p, Head(q)), Tail(q)[j]) /\ Below(p, Tail(q)[j])
  <2>1. j + 1 \in 1..Len(q) /\ Tail(q)[j] = q[j + 1] /\ 1 < j + 1 /\ Head(q) = q[1] /\ 1 \in 1..Len(q)
    BY QueueTail
  <2>2. Below(p, Tail(q)[j])
    BY <2>1 DEF Before
  <2>3. Head(q).from = Tail(q)[j].from => Head(q).n < Tail(q)[j].n
    BY <2>1 DEF Rising
  <2>4. Head(q) \in Messages
    BY QueueTail
  <2> QED
    BY <2>2, <2>3, <2>4, QueueAppend DEF Below
<1> QED
  BY <1>1, <1>2 DEF Before

LEMMA QueueOfClients ==
  ASSUME NEW q \in Seq(Client)
  PROVE  /\ \A c \in Client : /\ Append(q, c) \in Seq(Client) /\ Len(Append(q, c)) = Len(q) + 1
                              /\ Append(q, c)[Len(q) + 1] = c
                              /\ \A i \in 1..Len(q) : Append(q, c)[i] = q[i]
         /\ q # <<>> => /\ Tail(q) \in Seq(Client) /\ Len(Tail(q)) = Len(q) - 1
                        /\ Head(q) = q[1] /\ Head(q) \in Client /\ 1 \in 1..Len(q)
                        /\ \A i \in 1..Len(Tail(q)) : i + 1 \in 1..Len(q) /\ Tail(q)[i] = q[i + 1]
         /\ Len(q) \in Nat /\ \A i \in 1..Len(q) : q[i] \in Client
<1>1. \A c \in Client : /\ Append(q, c) \in Seq(Client) /\ Len(Append(q, c)) = Len(q) + 1
                        /\ Append(q, c)[Len(q) + 1] = c
                        /\ \A i \in 1..Len(q) : Append(q, c)[i] = q[i]
  BY AppendProperties
<1>2. q # <<>> => /\ Tail(q) \in Seq(Client) /\ Len(Tail(q)) = Len(q) - 1
                  /\ Head(q) = q[1] /\ Head(q) \in Client /\ 1 \in 1..Len(q)
                  /\ \A i \in 1..Len(Tail(q)) : i + 1 \in 1..Len(q) /\ Tail(q)[i] = q[i + 1]
  BY HeadTailProperties
<1> QED
  BY <1>1, <1>2

LEMMA InitRelayInv == RelayInit => RelayInv
<1> SUFFICES ASSUME RelayInit PROVE RelayInv
  OBVIOUS
<1>1. RelayTypeOK
  <2>1. <<>> \in Seq(Client) /\ <<>> \in Seq(Messages) /\ Len(<<>>) = 0
    OBVIOUS
  <2>2. sent \in [Client -> 0..MaxMessage]
    BY Capacities DEF RelayInit
  <2>3. /\ send \in [Client -> Seq(Messages)] /\ got \in [Client -> Seq(Messages)]
        /\ \A c \in Client : Len(send[c]) = 0
    BY <2>1, Zenon DEF RelayInit
  <2>4. /\ rooms \in [Room -> SUBSET Client] /\ \A r \in Room : rooms[r] = {}
        /\ reader \in [Client -> {"new", "reading", "leaving", "gone"}]
        /\ writer \in [Client -> {"new", "writing", "gone"}]
    BY DEF RelayInit
  <2>5. /\ join \in Seq(Client) /\ Len(join) = 0 /\ leave \in Seq(Client) /\ Len(leave) = 0
        /\ message \in Seq(Messages) /\ Len(message) = 0
    BY <2>1 DEF RelayInit
  <2>6. closed = {} /\ conn = {} /\ panicked = FALSE
    BY DEF RelayInit
  <2>7. /\ Len(join) <= QueueCap /\ Len(leave) <= QueueCap /\ Len(message) <= QueueCap
        /\ \A c \in Client : Len(send[c]) <= SendCap
    BY <2>3, <2>5, Capacities
  <2> QED
    BY <2>2, <2>3, <2>4, <2>5, <2>6, <2>7, Zenon DEF RelayTypeOK
<1>2. InTurn /\ LeavesArrive
  BY DEF RelayInit, InTurn, LeavesArrive
<1>3. Rising(message) /\ Counted(message)
  BY DEF RelayInit, Rising, Counted
<1>4. ASSUME NEW c \in Client PROVE Flows(c)
  BY DEF RelayInit, Flows, Rising, Before, Counted, ForPeer
<1> QED
  BY <1>1, <1>2, <1>3, <1>4 DEF RelayInv

\* Nothing on its way moves.
LEMMA FlowsStay ==
  ASSUME RelayInv, UNCHANGED <<message, send, sent, got>>
  PROVE  (Rising(message) /\ Counted(message) /\ \A c \in Client : Flows(c))'
BY DEF RelayInv, Flows, Counted

\* A connection is made, ends, or is taken notice of by the hub.
LEMMA ConnectKeeps ==
  ASSUME RelayInv, NEW c \in Client, Connect(c) PROVE RelayInv'
<1> USE HubAssumption DEF RelayInv, Connect, hubVars
<1>1. (Rising(message) /\ Counted(message) /\ \A d \in Client : Flows(d))'
  BY FlowsStay
<1>2. RelayTypeOK'
  BY QueueOfClients DEF RelayTypeOK
<1>3. InTurn'
  <2>1. ASSUME NEW i \in 1..Len(join') PROVE reader'[join'[i]] # "new"
    <3> join \in Seq(Client) /\ reader \in [Client -> {"new", "reading", "leaving", "gone"}]
      BY DEF RelayTypeOK
    <3>1. CASE i \in 1..Len(join)
      <4>1. join[i] \in Client /\ join'[i] = join[i] /\ reader[join[i]] # "new"
        BY <3>1, QueueOfClients DEF InTurn
      <4> QED
        BY <4>1
    <3>2. CASE i = Len(join) + 1
      BY <3>2, QueueOfClients
    <3> QED
      BY <3>1, <3>2, QueueOfClients
  <2>2. ASSUME NEW i \in 1..Len(leave') PROVE reader'[leave'[i]] = "gone"
    BY QueueOfClients DEF InTurn, RelayTypeOK
  <2> QED
    BY <2>1, <2>2 DEF InTurn
<1>4. LeavesArrive'
  BY DEF LeavesArrive, RelayTypeOK
<1> QED
  BY <1>1, <1>2, <1>3, <1>4

LEMMA ReadFailsKeeps ==
  ASSUME RelayInv, NEW c \in Client, ReadFails(c) PROVE RelayInv'
<1> USE HubAssumption DEF RelayInv, ReadFails, hubVars
<1>1. (Rising(message) /\ Counted(message) /\ \A d \in Client : Flows(d))'
  BY FlowsStay
<1>2. RelayTypeOK'
  BY DEF RelayTypeOK
<1>3. InTurn'
  BY QueueOfClients DEF InTurn, RelayTypeOK
<1>4. LeavesArrive'
  BY DEF LeavesArrive, RelayTypeOK
<1> QED
  BY <1>1, <1>2, <1>3, <1>4

LEMMA LeaveKeeps ==
  ASSUME RelayInv, NEW c \in Client, Leave(c) PROVE RelayInv'
<1> USE HubAssumption DEF RelayInv, Leave, hubVars
<1>1. (Rising(message) /\ Counted(message) /\ \A d \in Client : Flows(d))'
  BY FlowsStay
<1>2. RelayTypeOK'
  BY QueueOfClients DEF RelayTypeOK
<1>3. InTurn'
  <2>0. /\ \A i \in 1..Len(leave') : leave'[i] = c \/ \E k \in 1..Len(leave) : leave'[i] = leave[k]
        /\ \A d \in Client : reader[d] = "gone" \/ d = c => reader'[d] = "gone"
    <3>1. /\ leave' = Append(leave, c) /\ Len(leave) \in Nat /\ Len(leave') = Len(leave) + 1
          /\ leave'[Len(leave) + 1] = c /\ \A k \in 1..Len(leave) : leave'[k] = leave[k]
      BY QueueOfClients DEF RelayTypeOK
    <3>2. \A i \in 1..Len(leave') : i = Len(leave) + 1 \/ i \in 1..Len(leave)
      BY <3>1
    <3>3. \A d \in Client : reader[d] = "gone" \/ d = c => reader'[d] = "gone"
      BY DEF RelayTypeOK
    <3> HIDE DEF RelayInv, Leave
    <3> QED
      BY <3>1, <3>2, <3>3
  <2>1. ASSUME NEW i \in 1..Len(leave') PROVE reader'[leave'[i]] = "gone"
    <3>1. \A k \in 1..Len(leave) : leave[k] \in Client /\ reader[leave[k]] = "gone"
      BY QueueOfClients DEF InTurn, RelayTypeOK
    <3> HIDE DEF RelayInv, Leave
    <3> QED
      BY <2>0, <3>1
  <2>2. ASSUME NEW i \in 1..Len(join') PROVE reader'[join'[i]] # "new"
    BY QueueOfClients DEF InTurn, RelayTypeOK
  <2> QED
    BY <2>1, <2>2 DEF InTurn
<1>4. LeavesArrive'
  <2> SUFFICES ASSUME NEW d \in Client, reader'[d] = "gone", d \notin closed
               PROVE  \E i \in 1..Len(leave') : leave'[i] = d
    BY DEF LeavesArrive
  <2>1. leave' = Append(leave, c) /\ Len(leave) \in Nat /\ Len(leave') = Len(leave) + 1
        /\ leave'[Len(leave) + 1] = c /\ \A i \in 1..Len(leave) : leave'[i] = leave[i]
    BY QueueOfClients DEF RelayTypeOK
  <2>2. CASE d = c
    BY <2>1, <2>2
  <2>3. CASE d # c
    BY <2>1, <2>3 DEF LeavesArrive, RelayTypeOK
  <2> QED
    BY <2>2, <2>3
<1> QED
  BY <1>1, <1>2, <1>3, <1>4

LEMMA WriteEndsKeeps ==
  ASSUME RelayInv, NEW c \in Client, WriteEnds(c) PROVE RelayInv'
<1> USE HubAssumption DEF RelayInv, WriteEnds, hubVars
<1>1. (Rising(message) /\ Counted(message) /\ \A d \in Client : Flows(d))'
  BY FlowsStay
<1>2. RelayTypeOK' /\ InTurn' /\ LeavesArrive'
  BY DEF RelayTypeOK, InTurn, LeavesArrive
<1> QED
  BY <1>1, <1>2

LEMMA TakeJoinKeeps ==
  ASSUME RelayInv, TakeJoin PROVE RelayInv'
<1> USE HubAssumption DEF RelayInv, TakeJoin, clientVars
<1>1. (Rising(message) /\ Counted(message) /\ \A d \in Client : Flows(d))'
  BY FlowsStay
<1>2. Head(join) \in Client /\ reader[Head(join)] # "new" /\ RoomOf[Head(join)] \in Room
  <2>1. join \in Seq(Client) /\ join # <<>>
    BY DEF RelayTypeOK
  <2>2. Head(join) = join[1] /\ Head(join) \in Client /\ 1 \in 1..Len(join)
    BY <2>1, QueueOfClients
  <2> QED
    BY <2>2 DEF InTurn
<1>3. RelayTypeOK'
  <2>1. join' \in Seq(Client) /\ Len(join') <= QueueCap
    BY QueueOfClients DEF RelayTypeOK
  <2>2. rooms' \in [Room -> SUBSET Client]
    BY <1>2 DEF RelayTypeOK
  <2>3. \A r \in Room : \A d \in rooms'[r] : RoomOf[d] = r /\ reader[d] # "new"
    BY <1>2 DEF RelayTypeOK
  <2> QED
    BY <2>1, <2>2, <2>3 DEF RelayTypeOK
<1>4. InTurn' /\ LeavesArrive'
  BY QueueOfClients DEF InTurn, LeavesArrive, RelayTypeOK
<1> QED
  BY <1>1, <1>3, <1>4

LEMMA TakeLeaveKeeps ==
  ASSUME RelayInv, TakeLeave PROVE RelayInv'
<1> USE HubAssumption DEF RelayInv, TakeLeave, Closed, clientVars
<1>1. (Rising(message) /\ Counted(message) /\ \A d \in Client : Flows(d))'
  BY FlowsStay
<1>2. Head(leave) \in Client /\ reader[Head(leave)] = "gone" /\ RoomOf[Head(leave)] \in Room
  BY QueueOfClients DEF RelayTypeOK, InTurn
<1>3. RelayTypeOK'
  BY <1>2, QueueOfClients DEF RelayTypeOK
<1>4. InTurn'
  BY QueueOfClients DEF InTurn, RelayTypeOK
<1>5. LeavesArrive'
  <2> SUFFICES ASSUME NEW d \in Client, reader[d] = "gone", d \notin closed, d # Head(leave)
               PROVE  \E i \in 1..Len(Tail(leave)) : Tail(leave)[i] = d
    BY DEF LeavesArrive
  <2>1. PICK i \in 1..Len(leave) : leave[i] = d
    BY DEF LeavesArrive
  <2>2. leave \in Seq(Client) /\ leave # <<>> /\ Len(leave) \in Nat
    BY DEF RelayTypeOK
  <2>3. i # 1 /\ i - 1 \in 1..Len(Tail(leave)) /\ Tail(leave)[i - 1] = leave[i]
    BY <2>1, <2>2, QueueOfClients
  <2> QED
    BY <2>1, <2>3
<1> QED
  BY <1>1, <1>3, <1>4, <1>5

\* What is read is numbered after everything its sender wrote before.
LEMMA ReadKeeps ==
  ASSUME RelayInv, NEW c \in Client, Read(c) PROVE RelayInv'
<1> DEFINE m == [from |-> c, n |-> sent[c] + 1]
<1> USE HubAssumption DEF RelayInv, hubVars
<1>1. /\ message \in Seq(Messages) /\ m \in Messages /\ message' = Append(message, m)
      /\ sent' = [sent EXCEPT ![c] = @ + 1] /\ sent \in [Client -> 0..MaxMessage]
      /\ UNCHANGED <<join, leave, rooms, closed, send, reader, writer, conn, got, panicked>>
      /\ Len(message) < QueueCap /\ sent[c] < MaxMessage
  BY DEF Read, RelayTypeOK, Messages
<1>2. RelayTypeOK'
  BY <1>1, QueueAppend DEF RelayTypeOK
<1>3. InTurn' /\ LeavesArrive'
  BY <1>1 DEF InTurn, LeavesArrive
<1>4. ASSUME NEW q \in Seq(Messages), Counted(q) PROVE Counted(q)' /\ Below(q, m)
  <2> SUFFICES ASSUME NEW i \in 1..Len(q)
               PROVE  q[i].n <= sent'[q[i].from] /\ (q[i].from = m.from => q[i].n < m.n)
    BY DEF Counted, Below
  <2>1. q[i].from \in Client /\ q[i].n \in Nat /\ q[i].n <= sent[q[i].from]
    BY <1>4, QueueMember DEF Counted
  <2>2. sent[q[i].from] \in Nat /\ sent[c] \in Nat
    BY <1>1, <2>1, Capacities
  <2> QED
    BY <1>1, <2>1, <2>2
<1>5. Rising(message')
  BY <1>1, <1>4, RisingAppend
<1>6. Counted(message)'
  <2>1. sent'[c] = m.n /\ m.n \in Nat
    BY <1>1, Capacities
  <2>2. Counted(message) /\ \A i \in 1..Len(message) : message[i].n <= sent'[message[i].from]
    BY <1>1, <1>4 DEF Counted
  <2> QED
    BY <1>1, <2>1, <2>2, BothAppend DEF Counted
<1>7. ASSUME NEW d \in Client PROVE Flows(d)'
  <2>1. send[d] \in Seq(Messages) /\ got[d] \in Seq(Messages) /\ Flows(d)
    BY DEF RelayTypeOK
  <2>2. Counted(send[d])' /\ Counted(got[d])'
    BY <1>1, <1>4, <2>1 DEF Flows, Counted
  <2>3. ASSUME NEW q \in Seq(Messages), Before(q, message), Below(q, m)
        PROVE  Before(q, message')
    BY <1>1, <2>3, QueueAppend DEF Before
  <2> QED
    BY <1>1, <1>4, <2>1, <2>2, <2>3 DEF Flows
<1> QED
  BY <1>2, <1>3, <1>5, <1>6, <1>7

\* A message leaves the client's channel, for the peer or for nobody.
LEMMA WriteKeeps ==
  ASSUME RelayInv, NEW c \in Client, Write(c) PROVE RelayInv'
<1> USE HubAssumption DEF RelayInv, hubVars
<1>1. /\ send[c] \in Seq(Messages) /\ got[c] \in Seq(Messages) /\ send[c] # <<>>
      /\ send' = [send EXCEPT ![c] = Tail(send[c])]
      /\ got' = [got EXCEPT ![c] = Append(got[c], Head(send[c]))] \/ got' = got
      /\ UNCHANGED <<join, leave, message, rooms, closed, reader, sent, panicked>>
  BY DEF Write, RelayTypeOK
<1>2. Head(send[c]) \in Messages /\ message \in Seq(Messages)
  BY <1>1, QueueTail DEF RelayTypeOK
<1>6. \A d \in Client : /\ send'[d] = IF d = c THEN Tail(send[c]) ELSE send[d]
                        /\ got'[d] = got[d] \/ (d = c /\ got'[d] = Append(got[c], Head(send[c])))
  BY <1>1 DEF RelayTypeOK
<1>3. RelayTypeOK'
  <2>1. writer' \in [Client -> {"new", "writing", "gone"}] /\ conn' \subseteq Client
    BY DEF Write, RelayTypeOK
  <2>3. DOMAIN send' = Client /\ send' = [d \in Client |-> send'[d]]
        /\ DOMAIN got' = Client /\ got' = [d \in Client |-> got'[d]]
    BY <1>1 DEF RelayTypeOK
  <2>2. ASSUME NEW d \in Client
        PROVE  send'[d] \in Seq(Messages) /\ Len(send'[d]) <= SendCap /\ got'[d] \in Seq(Messages)
    <3>1. /\ send[d] \in Seq(Messages) /\ Len(send[d]) \in Nat /\ Len(send[d]) <= SendCap
          /\ got[d] \in Seq(Messages)
      BY DEF RelayTypeOK
    <3>2. send'[d] = IF d = c THEN Tail(send[c]) ELSE send[d]
      BY <1>6
    <3>3. got'[d] = got[d] \/ (d = c /\ got'[d] = Append(got[c], Head(send[c])))
      BY <1>6
    <3>4. got'[d] \in Seq(Messages)
      <4>1. CASE got'[d] = got[d]
        BY <3>1, <4>1
      <4>2. CASE d = c /\ got'[d] = Append(got[c], Head(send[c]))
        BY <1>1, <1>2, <4>2, QueueAppend
      <4> QED
        BY <3>3, <4>1, <4>2
    <3>5. Tail(send[c]) \in Seq(Messages) /\ Len(Tail(send[c])) = Len(send[c]) - 1
      BY <1>1, QueueTail
    <3> QED
      BY <3>1, <3>2, <3>4, <3>5, Capacities
  <2> QED
    BY <1>1, <2>1, <2>2, <2>3 DEF RelayTypeOK
<1>4. InTurn' /\ LeavesArrive' /\ Rising(message)' /\ Counted(message)'
  BY <1>1 DEF InTurn, LeavesArrive, Counted
<1>5. ASSUME NEW d \in Client PROVE Flows(d)'
  <2>1. CASE d # c
    <3>1. send'[d] = send[d] /\ got'[d] = got[d] /\ Flows(d)
      BY <1>6, <2>1
    <3> QED
      BY <1>1, <3>1 DEF Flows, Counted
  <2>2. CASE d = c
    <3>1. send'[c] = Tail(send[c]) /\ got'[c] \in {got[c], Append(got[c], Head(send[c]))}
      BY <1>6
    <3>2. Flows(c)
      OBVIOUS
    <3>3. Rising(send'[c]) /\ Rising(got'[c]) /\ Before(got'[c], send'[c])
      BY <1>1, <1>2, <3>1, <3>2, RisingTail, RisingAppend, HeadFirst DEF Flows
    <3>4. ASSUME NEW j \in 1..Len(message)
          PROVE  Below(got'[c], message[j]) /\ Below(send'[c], message[j])
      <4>1. Below(got[c], message[j]) /\ Below(send[c], message[j]) /\ message[j] \in Messages
        BY <1>2, <3>2 DEF Flows, Before
      <4>2. Below(send'[c], message[j])
        BY <1>1, <3>1, <4>1, BelowTail
      <4>3. Below(Append(got[c], Head(send[c])), message[j])
        <5>1. Head(send[c]).from = message[j].from => Head(send[c]).n < message[j].n
          BY <1>1, <4>1, QueueTail DEF Below
        <5> QED
          BY <1>1, <1>2, <4>1, <5>1, BelowAppend
      <4> QED
        BY <3>1, <4>1, <4>2, <4>3
    <3>5. Before(got'[c], message) /\ Before(send'[c], message)
      BY <3>4 DEF Before
    <3>6. Counted(send'[c]) /\ ForPeer(c, send'[c])
      <4>1. \A i \in 1..Len(Tail(send[c])) : /\ i + 1 \in 1..Len(send[c])
                                              /\ Tail(send[c])[i] = send[c][i + 1]
        BY <1>1, QueueTail
      <4>2. Counted(send[c]) /\ ForPeer(c, send[c])
        BY <3>2 DEF Flows
      <4> HIDE DEF RelayInv
      <4> QED
        BY <3>1, <4>1, <4>2 DEF Counted, ForPeer
    <3>7. Counted(got'[c]) /\ ForPeer(c, got'[c])
      <4>1. LET h == Head(send[c]) IN h.n <= sent[h.from] /\ h.from # c /\ RoomOf[h.from] = RoomOf[c]
        BY <1>1, <3>2, QueueTail DEF Flows, Counted, ForPeer
      <4> QED
        BY <1>1, <1>2, <3>1, <3>2, <4>1, CountedAppend, ForPeerAppend DEF Flows
    <3> QED
      BY <1>1, <2>2, <3>3, <3>5, <3>6, <3>7 DEF Flows, Counted
  <2> QED
    BY <2>1, <2>2
<1> QED
  BY <1>3, <1>4, <1>5

\* The hub's oldest message goes to the channels of the sender's peers, or is dropped.
LEMMA TakeMessageKeeps ==
  ASSUME RelayInv, TakeMessage PROVE RelayInv'
<1> DEFINE m == Head(message)
<1> USE HubAssumption DEF RelayInv, hubVars, clientVars
<1>1. /\ message \in Seq(Messages) /\ message # <<>> /\ message' = Tail(message)
      /\ m \in Messages /\ m.from \in Client /\ 1 \in 1..Len(message) /\ m = message[1]
      /\ UNCHANGED <<join, leave, rooms, closed, reader, writer, conn, sent, got>>
  BY QueueTail DEF TakeMessage, RelayTypeOK, Messages
<1>2. ASSUME NEW d \in Client
      PROVE  \/ send'[d] = send[d]
             \/ /\ send'[d] = Append(send[d], m) /\ Len(send[d]) < SendCap
                /\ m.from # d /\ RoomOf[m.from] = RoomOf[d]
  <2>1. send'[d] = IF d \in Peers(m) \ closed /\ Fits(d) THEN Append(send[d], m) ELSE send[d]
    BY DEF TakeMessage
  <2>2. d \in Peers(m) => m.from # d /\ RoomOf[m.from] = RoomOf[d]
    BY <1>1 DEF Peers, RelayTypeOK
  <2> QED
    BY <2>1, <2>2 DEF Fits
<1>3. RelayTypeOK'
  <2>1. send' = [d \in Client |-> send'[d]] /\ panicked' \in BOOLEAN
    BY DEF TakeMessage
  <2>2. ASSUME NEW d \in Client
        PROVE  send'[d] \in Seq(Messages) /\ Len(send'[d]) <= SendCap
    <3>1. send[d] \in Seq(Messages) /\ Len(send[d]) \in Nat /\ Len(send[d]) <= SendCap
      BY DEF RelayTypeOK
    <3> QED
      <4>1. CASE send'[d] = send[d]
        BY <3>1, <4>1
      <4>2. CASE send'[d] = Append(send[d], m) /\ Len(send[d]) < SendCap
        BY <1>1, <3>1, <4>2, QueueAppend, Capacities
      <4> QED
        BY <1>2, <4>1, <4>2
  <2>3. message' \in Seq(Messages) /\ Len(message') <= QueueCap
    <3>1. Len(message) \in Nat /\ Len(message) <= QueueCap
      BY <1>1 DEF RelayTypeOK
    <3> QED
      BY <1>1, <3>1, QueueTail, Capacities
  <2> QED
    BY <1>1, <2>1, <2>2, <2>3 DEF RelayTypeOK
<1>4. InTurn' /\ LeavesArrive'
  BY <1>1 DEF InTurn, LeavesArrive
<1>5. Rising(message')
  BY <1>1, RisingTail
<1>6. Counted(message)'
  BY <1>1, QueueTail DEF Counted
<1>7. ASSUME NEW d \in Client PROVE Flows(d)'
  <2>1. send[d] \in Seq(Messages) /\ got[d] \in Seq(Messages) /\ Flows(d)
    BY DEF RelayTypeOK
  <2>2. Below(send[d], m) /\ Below(got[d], m)
    BY <1>1, <2>1, HeadFirst DEF Flows
  <2>3. Rising(send'[d]) /\ Before(send'[d], message')
    BY <1>1, <1>2, <2>1, <2>2, RisingAppend, HeadFirst DEF Flows
  <2>4. Before(got[d], message')
    BY <1>1, <2>1, HeadFirst DEF Flows
  <2>5. Before(got[d], send'[d])
    BY <1>1, <1>2, <2>1, <2>2, BeforeAppend DEF Flows
  <2>6. Counted(send'[d]) /\ ForPeer(d, send'[d])
    <3>1. m.n <= sent[m.from]
      BY <1>1 DEF Counted
    <3> QED
      BY <1>1, <1>2, <2>1, <3>1, CountedAppend, ForPeerAppend DEF Flows
  <2> QED
    BY <1>1, <2>1, <2>3, <2>4, <2>5, <2>6 DEF Flows, Counted
<1> QED
  BY <1>3, <1>4, <1>5, <1>6, <1>7

LEMMA RelayNextKeeps == RelayInv /\ [RelayNext]_relayVars => RelayInv'
<1> SUFFICES ASSUME RelayInv, [RelayNext]_relayVars PROVE RelayInv'
  OBVIOUS
<1>1. CASE Hub
  BY <1>1, TakeJoinKeeps, TakeLeaveKeeps, TakeMessageKeeps DEF Hub
<1>2. ASSUME NEW c \in Client, Connection(c) PROVE RelayInv'
  BY <1>2, ConnectKeeps, ReadKeeps, ReadFailsKeeps, LeaveKeeps, WriteKeeps, WriteEndsKeeps
     DEF Connection
<1>3. CASE UNCHANGED relayVars
  BY <1>3 DEF relayVars, hubVars, clientVars, RelayInv, RelayTypeOK, InTurn, LeavesArrive, Flows, Counted
<1> QED
  BY <1>1, <1>2, <1>3 DEF RelayNext

LEMMA RelayInvHolds == RelaySpec => []RelayInv
BY InitRelayInv, RelayNextKeeps, PTL DEF RelaySpec

\* Every reachable state of the hub is well typed, its channels keep their capacities, and
\* only who connected is in a room (hub.go).
THEOREM RelayTypeCorrect == RelaySpec => []RelayTypeOK
<1>1. RelayInv => RelayTypeOK
  BY DEF RelayInv
<1> QED
  BY <1>1, RelayInvHolds, PTL

\* Whoever joins, leaves, is slow or is cut off in whatever order: what a client is written
\* of another is in the order the other wrote it (Run, writePump).
THEOREM RelayKeepsOrder == RelaySpec => []InOrder
<1>1. RelayInv => InOrder
  <2> SUFFICES ASSUME RelayInv, NEW c \in Client, NEW i \in 1..Len(got[c])
               PROVE  /\ got[c][i].from # c /\ RoomOf[got[c][i].from] = RoomOf[c]
                      /\ \A j \in 1..(i - 1) :
                           got[c][j].from = got[c][i].from => got[c][j].n < got[c][i].n
    BY DEF InOrder
  <2>1. Rising(got[c]) /\ ForPeer(c, got[c]) /\ Len(got[c]) \in Nat
    BY DEF RelayInv, Flows, RelayTypeOK
  <2> QED
    BY <2>1 DEF Rising, ForPeer
<1> QED
  BY <1>1, RelayInvHolds, PTL

\* The hub hears of every reader that ends (readPump): its leave waits in the channel until
\* its client's channel is closed, which is what lets the writer end.
THEOREM RelayLosesNoLeave == RelaySpec => []LeavesArrive
<1>1. RelayInv => LeavesArrive
  BY DEF RelayInv
<1> QED
  BY <1>1, RelayInvHolds, PTL
=============================================================================
