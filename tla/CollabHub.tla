------------------------------ MODULE CollabHub ------------------------------
(***************************************************************************)
(* The message relay of internal/collab/hub.go: one goroutine owns the     *)
(* rooms and serves three channels, join, leave and message, in any order; *)
(* every connection has a reader that feeds them and a writer that drains  *)
(* the connection's own send channel until it is closed.                   *)
(***************************************************************************)
EXTENDS Naturals, Sequences

CONSTANTS
  Client, Room, \* connections, each with one lifetime, and the posts edited
  RoomOf,       \* the room a connection was opened for
  SendCap,      \* capacity of client.send (128)
  QueueCap,     \* capacity of join, leave (64) and message (512)
  MaxMessage    \* bound on the messages a client sends

ASSUME HubAssumption ==
  /\ RoomOf \in [Client -> Room]
  /\ {SendCap, QueueCap} \subseteq Nat \ {0} /\ MaxMessage \in Nat

VARIABLES
  join, leave, message, \* the hub's channels
  rooms,                \* the clients of each room
  closed,               \* clients whose send channel is closed
  send,                 \* what is in it
  reader, writer,       \* the two goroutines of a client
  conn,                 \* connections that are open
  sent, got,            \* messages read from each connection and written to it
  panicked              \* the server is down: a send on a closed channel

hubVars == <<rooms, closed>>
clientVars == <<reader, writer, conn, sent, got>>
relayVars == <<join, leave, message, hubVars, send, clientVars, panicked>>

Messages == [from : Client, n : 1..MaxMessage]

RelayInit ==
  /\ join = <<>> /\ leave = <<>> /\ message = <<>>
  /\ rooms = [r \in Room |-> {}] /\ closed = {}
  /\ send = [c \in Client |-> <<>>]
  /\ reader = [c \in Client |-> "new"] /\ writer = [c \in Client |-> "new"]
  /\ conn = {} /\ sent = [c \in Client |-> 0] /\ got = [c \in Client |-> <<>>]
  /\ panicked = FALSE

------------------------------------------------------------------------------
(* ServeWS, readPump and writePump of one client *)

Connect(c) ==
  /\ ~panicked /\ reader[c] = "new" /\ Len(join) < QueueCap
  /\ join' = Append(join, c)
  /\ reader' = [reader EXCEPT ![c] = "reading"] /\ writer' = [writer EXCEPT ![c] = "writing"]
  /\ conn' = conn \union {c}
  /\ UNCHANGED <<leave, message, hubVars, send, sent, got, panicked>>

Read(c) ==
  /\ ~panicked /\ reader[c] = "reading" /\ c \in conn
  /\ sent[c] < MaxMessage /\ Len(message) < QueueCap
  /\ message' = Append(message, [from |-> c, n |-> sent[c] + 1])
  /\ sent' = [sent EXCEPT ![c] = @ + 1]
  /\ UNCHANGED <<join, leave, hubVars, send, reader, writer, conn, got, panicked>>

\* The peer goes away or the writer closed the connection: ReadMessage fails.
ReadFails(c) ==
  /\ ~panicked /\ reader[c] = "reading"
  /\ reader' = [reader EXCEPT ![c] = "leaving"]
  /\ UNCHANGED <<join, leave, message, hubVars, send, writer, conn, sent, got, panicked>>

Leave(c) ==
  /\ ~panicked /\ reader[c] = "leaving" /\ Len(leave) < QueueCap
  /\ leave' = Append(leave, c)
  /\ reader' = [reader EXCEPT ![c] = "gone"] /\ conn' = conn \ {c}
  /\ UNCHANGED <<join, message, hubVars, send, writer, sent, got, panicked>>

\* A message is written, or the write fails and closes the connection.
Write(c) ==
  /\ ~panicked /\ writer[c] = "writing" /\ send[c] # <<>>
  /\ send' = [send EXCEPT ![c] = Tail(@)]
  /\ \/ got' = [got EXCEPT ![c] = Append(@, Head(send[c]))] /\ c \in conn /\ UNCHANGED <<writer, conn>>
     \/ writer' = [writer EXCEPT ![c] = "gone"] /\ conn' = conn \ {c} /\ UNCHANGED got
  /\ UNCHANGED <<join, leave, message, hubVars, reader, sent, panicked>>

WriteEnds(c) ==
  /\ ~panicked /\ writer[c] = "writing" /\ send[c] = <<>> /\ c \in closed
  /\ writer' = [writer EXCEPT ![c] = "gone"] /\ conn' = conn \ {c}
  /\ UNCHANGED <<join, leave, message, hubVars, send, reader, sent, got, panicked>>

------------------------------------------------------------------------------
(* Hub.run *)

TakeJoin ==
  /\ ~panicked /\ join # <<>> /\ join' = Tail(join)
  /\ LET c == Head(join) IN rooms' = [rooms EXCEPT ![RoomOf[c]] = @ \union {c}]
  /\ UNCHANGED <<leave, message, closed, send, clientVars, panicked>>

\* Fault: the channel of a client that leaves is not closed.
ClosedKept(c) == closed
Closed(c) == closed \union {c}

TakeLeave ==
  /\ ~panicked /\ leave # <<>> /\ leave' = Tail(leave)
  /\ LET c == Head(leave) IN
     /\ rooms' = [rooms EXCEPT ![RoomOf[c]] = @ \ {c}]
     /\ closed' = Closed(c)
  /\ UNCHANGED <<join, message, send, clientVars, panicked>>

\* Fault: the sender's own copy is not left out.
PeersAll(m) == rooms[RoomOf[m.from]]
Peers(m) == rooms[RoomOf[m.from]] \ {m.from}

Fits(c) == Len(send[c]) < SendCap

\* A full channel drops the message; a closed one panics.
TakeMessage ==
  /\ ~panicked /\ message # <<>> /\ message' = Tail(message)
  /\ LET m == Head(message) IN
     /\ panicked' = (Peers(m) \intersect closed # {})
     /\ send' = [c \in Client |-> IF c \in Peers(m) \ closed /\ Fits(c)
                                  THEN Append(send[c], m) ELSE send[c]]
  /\ UNCHANGED <<join, leave, hubVars, clientVars>>

------------------------------------------------------------------------------
Hub == TakeJoin \/ TakeLeave \/ TakeMessage

Connection(c) == Connect(c) \/ Read(c) \/ ReadFails(c) \/ Leave(c) \/ Write(c) \/ WriteEnds(c)

RelayNext == Hub \/ \E c \in Client : Connection(c)

RelaySpec == RelayInit /\ [][RelayNext]_relayVars

\* The runtime schedules every goroutine, and select serves every channel.
RelayFairSpec ==
  /\ RelaySpec
  /\ SF_relayVars(TakeJoin) /\ SF_relayVars(TakeLeave) /\ SF_relayVars(TakeMessage)
  /\ \A c \in Client : WF_relayVars(Leave(c)) /\ WF_relayVars(Write(c))
                    /\ WF_relayVars(WriteEnds(c))

------------------------------------------------------------------------------
(* Properties *)

\* Every variable has its type; nobody joins or leaves who was not connected.
RelayTypeOK ==
  /\ join \in Seq(Client) /\ Len(join) <= QueueCap /\ leave \in Seq(Client) /\ Len(leave) <= QueueCap
  /\ message \in Seq(Messages) /\ Len(message) <= QueueCap
  /\ rooms \in [Room -> SUBSET Client] /\ closed \subseteq Client
  /\ send \in [Client -> Seq(Messages)] /\ \A c \in Client : Len(send[c]) <= SendCap
  /\ got \in [Client -> Seq(Messages)]
  /\ reader \in [Client -> {"new", "reading", "leaving", "gone"}]
  /\ writer \in [Client -> {"new", "writing", "gone"}]
  /\ conn \subseteq Client /\ sent \in [Client -> 0..MaxMessage] /\ panicked \in BOOLEAN
  /\ \A r \in Room : \A c \in rooms[r] : RoomOf[c] = r /\ reader[c] # "new"
  /\ \A c \in closed : reader[c] = "gone"

\* A client gets the messages of the others in its room, never its own, each at
\* most once and those of one sender in the order they were sent, though the hub
\* may drop some.
InOrder ==
  \A c \in Client : \A i \in 1..Len(got[c]) :
    /\ got[c][i].from # c /\ RoomOf[got[c][i].from] = RoomOf[c]
    /\ \A j \in 1..(i - 1) : got[c][j].from = got[c][i].from => got[c][j].n < got[c][i].n

\* The writer of a connection whose reader is gone ends too (unless the server went down).
WritersEnd == \A c \in Client : reader[c] = "gone" ~> writer[c] = "gone" \/ panicked
==============================================================================
