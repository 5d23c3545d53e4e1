-------------------------------- MODULE Relay --------------------------------
(***************************************************************************)
(* The relay (backend/internal/relay): the hub with its rooms under one    *)
(* lock, and the handler goroutine ws of every connection.  A step is a    *)
(* section under the lock of the hub or a write on one websocket (under    *)
(* the writeMutex of its session), so that the handlers interleave between *)
(* joining, being acknowledged, listing the users, telling the room, and   *)
(* between two receivers of a broadcast.                                   *)
(*                                                                         *)
(* Messages are opaque, as they are to the relay: one that is forwarded is *)
(* the connection it was read from and its number.  Snapshots and the      *)
(* store behind them are left out.  The clients are external: they send    *)
(* anything, disconnect at any time, and may stop reading.                 *)
(***************************************************************************)
EXTENDS Naturals, Sequences, FiniteSets

CONSTANTS
  Connection,   \* connections, one handler each
  RoomID, ClientID,
  MaxMessages,  \* bound: messages to forward
  MayStall      \* whether a client may stop reading without closing

ASSUME RelayAssumption ==
  /\ "" \notin RoomID \union ClientID
  /\ MaxMessages \in Nat /\ MayStall \in BOOLEAN

VARIABLES
  rooms,     \* Hub.rooms: per room that exists, per client the connection of its session
  session,   \* roomID and clientID of a connection's session, empty before the join
  pc,        \* where the handler of each connection is
  users,     \* the list of users it has in message
  receivers, \* those it still has to write to
  read,      \* how many messages to forward have been read
  message,   \* the last one read on each connection
  open,      \* connections neither broken nor closed
  stalled,   \* those that are not read at the other end and whose buffers are full
  shown,     \* the last list of users written on it
  got        \* the forwarded messages written on it

hub == <<rooms, session>>
written == <<shown, got>>
vars == <<hub, pc, users, receivers, read, message, open, stalled, written>>

Init ==
  /\ rooms = <<>>
  /\ session = [c \in Connection |-> [room |-> "", client |-> ""]]
  /\ pc = [c \in Connection |-> "join"]
  /\ users = [c \in Connection |-> {}]
  /\ receivers = [c \in Connection |-> {}]
  /\ read = 0
  /\ message = [c \in Connection |-> 0]
  /\ open = Connection /\ stalled = {}
  /\ shown = [c \in Connection |-> {}]
  /\ got = [c \in Connection |-> <<>>]

Goto(c, l) == pc' = [pc EXCEPT ![c] = l]

Exists(r) == r \in DOMAIN rooms

\* the sessions and the client IDs of a room
Sessions(r) == {rooms[r][k] : k \in DOMAIN rooms[r]}
Users(r) == DOMAIN rooms[r]

\* the hub holds the session of c under its room and client
Stored(c) ==
  /\ Exists(session[c].room)
  /\ session[c].client \in DOMAIN rooms[session[c].room]
  /\ rooms[session[c].room][session[c].client] = c

\* a write to d returns: with success, or with an error because d is not open
Returns(d) == d \notin open \/ d \notin stalled

-----------------------------------------------------------------------------
\* Joining.

\* Mutant: a room or a client without an identifier is accepted
JoinUntrimmed(c) ==
  /\ pc[c] = "join"
  /\ \E r \in RoomID \union {""}, k \in ClientID :
       /\ ~(Exists(r) /\ k \in DOMAIN rooms[r])
       /\ rooms' = [q \in DOMAIN rooms \union {r} |->
            IF q # r THEN rooms[q]
            ELSE [l \in (IF Exists(r) THEN DOMAIN rooms[r] ELSE {}) \union {k} |->
                    IF l = k THEN c ELSE rooms[r][l]]]
       /\ session' = [session EXCEPT ![c] = [room |-> r, client |-> k]]
  /\ Goto(c, "ack")
  /\ UNCHANGED <<users, receivers, read, message, open, stalled, written>>

\* Mutant: a client that comes again replaces its session
JoinReplaces(c) ==
  /\ pc[c] = "join"
  /\ \E r \in RoomID, k \in ClientID :
       /\ rooms' = [q \in DOMAIN rooms \union {r} |->
            IF q # r THEN rooms[q]
            ELSE [l \in (IF Exists(r) THEN DOMAIN rooms[r] ELSE {}) \union {k} |->
                    IF l = k THEN c ELSE rooms[r][l]]]
       /\ session' = [session EXCEPT ![c] = [room |-> r, client |-> k]]
  /\ Goto(c, "ack")
  /\ UNCHANGED <<users, receivers, read, message, open, stalled, written>>

\* Hub.Join for the room and client of the first message
Join(c) ==
  /\ pc[c] = "join"
  /\ \E r \in RoomID, k \in ClientID :
       /\ ~(Exists(r) /\ k \in DOMAIN rooms[r])
       /\ rooms' = [q \in DOMAIN rooms \union {r} |->
            IF q # r THEN rooms[q]
            ELSE [l \in (IF Exists(r) THEN DOMAIN rooms[r] ELSE {}) \union {k} |->
                    IF l = k THEN c ELSE rooms[r][l]]]
       /\ session' = [session EXCEPT ![c] = [room |-> r, client |-> k]]
  /\ Goto(c, "ack")
  /\ UNCHANGED <<users, receivers, read, message, open, stalled, written>>

\* the connection breaks before a first message, or that is no valid join, or its client
\* has a session in the room already; but for the first the error is written before the close
RefuseJoin(c) ==
  /\ pc[c] = "join" /\ Returns(c)
  /\ Goto(c, "done")
  /\ open' = open \ {c}
  /\ UNCHANGED <<hub, users, receivers, read, message, stalled, written>>

SendAck(c) ==
  /\ pc[c] = "ack" /\ Returns(c)
  /\ Goto(c, IF c \in open THEN "users" ELSE "leave")
  /\ UNCHANGED <<hub, users, receivers, read, message, open, stalled, written>>

-----------------------------------------------------------------------------
\* Telling the room who is there, after the join and after the leave.

\* Mutant: the handler ends without telling the room
GetActiveUsersOnJoin(c) ==
  /\ pc[c] \in {"users", "leftUsers"}
  /\ IF pc[c] = "users"
     THEN users' = [users EXCEPT ![c] = Users(session[c].room)] /\ Goto(c, "capture")
     ELSE Goto(c, "close") /\ UNCHANGED users
  /\ UNCHANGED <<hub, receivers, read, message, open, stalled, written>>

GetActiveUsers(c) ==
  /\ pc[c] \in {"users", "leftUsers"}
  /\ IF Exists(session[c].room)
     THEN /\ users' = [users EXCEPT ![c] = Users(session[c].room)]
          /\ Goto(c, IF pc[c] = "users" THEN "capture" ELSE "leftCapture")
     ELSE Goto(c, IF pc[c] = "users" THEN "leave" ELSE "close") /\ UNCHANGED users
  /\ UNCHANGED <<hub, receivers, read, message, open, stalled, written>>

\* BroadcastToAllInRoom up to the release of the lock
CaptureRoom(c) ==
  /\ pc[c] \in {"capture", "leftCapture"}
  /\ IF Exists(session[c].room)
     THEN /\ receivers' = [receivers EXCEPT ![c] = Sessions(session[c].room)]
          /\ Goto(c, IF pc[c] = "capture" THEN "announce" ELSE "leftAnnounce")
          /\ UNCHANGED users
     ELSE /\ users' = [users EXCEPT ![c] = {}]
          /\ Goto(c, IF pc[c] = "capture" THEN "leave" ELSE "close")
          /\ UNCHANGED receivers
  /\ UNCHANGED <<hub, read, message, open, stalled, written>>

\* the list goes to d, unless that fails, and after the last receiver the broadcast ends
Announce(c, d) ==
  /\ pc[c] \in {"announce", "leftAnnounce"}
  /\ d \in receivers[c] /\ Returns(d)
  /\ IF d \in open
     THEN shown' = [shown EXCEPT ![d] = users[c]]
     ELSE UNCHANGED shown
  /\ receivers' = [receivers EXCEPT ![c] = @ \ {d}]
  /\ IF receivers'[c] # {}
     THEN UNCHANGED <<pc, users>>
     ELSE /\ users' = [users EXCEPT ![c] = {}]
          /\ Goto(c, IF pc[c] = "announce" THEN "read" ELSE "close")
  /\ UNCHANGED <<hub, read, message, open, stalled, got>>

-----------------------------------------------------------------------------
\* The message loop.

\* Mutant: the sender is not left out
ReceiveEchoes(c) ==
  /\ pc[c] = "read" /\ read < MaxMessages
  /\ read' = read + 1 /\ message' = [message EXCEPT ![c] = read + 1]
  /\ LET others == Sessions(session[c].room)
     IN  /\ receivers' = [receivers EXCEPT ![c] = others]
         /\ Goto(c, "forward")
  /\ UNCHANGED <<hub, users, open, stalled, written>>

\* A message to forward is read, and BroadcastToRoom up to the release of the lock.  With no
\* receivers a sync_step1 is answered from the store, which is a write on c.
Receive(c) ==
  /\ pc[c] = "read" /\ read < MaxMessages
  /\ read' = read + 1 /\ message' = [message EXCEPT ![c] = read + 1]
  /\ LET others == IF Stored(c) THEN Sessions(session[c].room) \ {c} ELSE {}
     IN  /\ receivers' = [receivers EXCEPT ![c] = others]
         /\ \E sync1 \in BOOLEAN :
              Goto(c, IF others # {} THEN "forward"
                      ELSE IF sync1 \/ ~Stored(c) THEN "reply" ELSE "read")
  /\ UNCHANGED <<hub, users, open, stalled, written>>

\* Mutant: the broadcast starts again after a receiver that failed
ForwardAgain(c, d) ==
  /\ pc[c] = "forward" /\ d \in receivers[c] /\ Returns(d)
  /\ IF d \in open
     THEN /\ got' = [got EXCEPT ![d] = Append(@, <<c, message[c]>>)]
          /\ receivers' = [receivers EXCEPT ![c] = @ \ {d}]
          /\ IF receivers'[c] = {} THEN Goto(c, "read") ELSE UNCHANGED pc
     ELSE /\ receivers' = [receivers EXCEPT ![c] = Sessions(session[c].room) \ {c, d}]
          /\ IF receivers'[c] = {} THEN Goto(c, "reply") ELSE UNCHANGED pc
          /\ UNCHANGED got
  /\ UNCHANGED <<hub, users, read, message, open, stalled, shown>>

\* Mutant: a receiver that fails is tried again
ForwardRetries(c, d) ==
  /\ pc[c] = "forward" /\ d \in receivers[c] /\ Returns(d) /\ d \in open
  /\ got' = [got EXCEPT ![d] = Append(@, <<c, message[c]>>)]
  /\ receivers' = [receivers EXCEPT ![c] = @ \ {d}]
  /\ IF receivers'[c] = {} THEN Goto(c, "read") ELSE UNCHANGED pc
  /\ UNCHANGED <<hub, users, read, message, open, stalled, shown>>

\* the next receiver; the first that fails ends the broadcast, and the sender is told
Forward(c, d) ==
  /\ pc[c] = "forward" /\ d \in receivers[c] /\ Returns(d)
  /\ IF d \in open
     THEN /\ got' = [got EXCEPT ![d] = Append(@, <<c, message[c]>>)]
          /\ receivers' = [receivers EXCEPT ![c] = @ \ {d}]
          /\ IF receivers'[c] = {} THEN Goto(c, "read") ELSE UNCHANGED pc
     ELSE /\ receivers' = [receivers EXCEPT ![c] = {}]
          /\ Goto(c, "reply")
          /\ UNCHANGED got
  /\ UNCHANGED <<hub, users, read, message, open, stalled, shown>>

\* a message that is refused, or a snapshot that cannot be saved; one that is not text also
\* ends the loop
ReceiveOther(c) ==
  /\ pc[c] = "read"
  /\ \E l \in {"reply", "lastReply"} : Goto(c, l)
  /\ UNCHANGED <<hub, users, receivers, read, message, open, stalled, written>>

\* an error, or the answer to a sync_step1, is written on c
Reply(c) ==
  /\ pc[c] \in {"reply", "lastReply"} /\ Returns(c)
  /\ Goto(c, IF pc[c] = "reply" /\ c \in open THEN "read" ELSE "leave")
  /\ UNCHANGED <<hub, users, receivers, read, message, open, stalled, written>>

ReadError(c) ==
  /\ pc[c] = "read" /\ c \notin open
  /\ Goto(c, "leave")
  /\ UNCHANGED <<hub, users, receivers, read, message, open, stalled, written>>

-----------------------------------------------------------------------------
\* The deferred calls.

\* Mutant: the room is kept when its last client has gone
LeaveKeepsRoom(c) ==
  /\ pc[c] = "leave"
  /\ LET r == session[c].room
     IN  rooms' = IF ~Stored(c) THEN rooms
                  ELSE [rooms EXCEPT ![r] =
                          [k \in DOMAIN rooms[r] \ {session[c].client} |-> rooms[r][k]]]
  /\ Goto(c, "leftUsers")
  /\ UNCHANGED <<session, users, receivers, read, message, open, stalled, written>>

\* Hub.Leave
Leave(c) ==
  /\ pc[c] = "leave"
  /\ LET r == session[c].room
         rest == DOMAIN rooms[r] \ {session[c].client}
     IN  rooms' = IF ~Stored(c) THEN rooms
                  ELSE [q \in DOMAIN rooms \ (IF rest = {} THEN {r} ELSE {}) |->
                          IF q = r THEN [k \in rest |-> rooms[r][k]] ELSE rooms[q]]
  /\ Goto(c, "leftUsers")
  /\ UNCHANGED <<session, users, receivers, read, message, open, stalled, written>>

\* conn.Close()
CloseConnection(c) ==
  /\ pc[c] = "close"
  /\ open' = open \ {c}
  /\ Goto(c, "done")
  /\ UNCHANGED <<hub, users, receivers, read, message, stalled, written>>

-----------------------------------------------------------------------------
\* The clients (external).

Break(c) ==
  /\ c \in open
  /\ open' = open \ {c}
  /\ UNCHANGED <<hub, pc, users, receivers, read, message, stalled, written>>

Stall(c) ==
  /\ MayStall /\ c \in open /\ c \notin stalled
  /\ stalled' = stalled \union {c}
  /\ UNCHANGED <<hub, pc, users, receivers, read, message, open, written>>

-----------------------------------------------------------------------------

Handler(c) ==
  \/ Join(c) \/ RefuseJoin(c) \/ SendAck(c)
  \/ GetActiveUsers(c) \/ CaptureRoom(c)
  \/ Receive(c) \/ ReceiveOther(c) \/ Reply(c) \/ ReadError(c)
  \/ Leave(c) \/ CloseConnection(c)
  \/ \E d \in Connection : Announce(c, d) \/ Forward(c, d)

Next == \E c \in Connection : Handler(c) \/ Break(c) \/ Stall(c)

Spec == Init /\ [][Next]_vars

\* what a handler does without waiting for its client
Running(c) ==
  \/ SendAck(c) \/ GetActiveUsers(c) \/ CaptureRoom(c)
  \/ Reply(c) \/ ReadError(c) \/ Leave(c) \/ CloseConnection(c)
  \/ \E d \in Connection : Announce(c, d) \/ Forward(c, d)

\* The Go scheduler runs every handler that can run; a read on a broken connection
\* returns.  Nothing makes a client send, break or read.
Fairness ==
  \A c \in Connection : WF_vars(Running(c)) /\ WF_vars(c \notin open /\ RefuseJoin(c))

FairSpec == Spec /\ Fairness

\* One client at a time joins or leaves, up to the end of its announcement.
Changing(c) == pc[c] \notin {"join", "read", "forward", "reply", "lastReply", "done"}
OneAtATime == \A c, d \in Connection : Changing(c) /\ Changing(d) => c = d
OrderlySpec == Init /\ [][Next /\ OneAtATime']_vars

-----------------------------------------------------------------------------

Joined == {"ack", "users", "capture", "announce", "read", "forward", "reply", "lastReply",
           "leave"}
Label == Joined \union {"join", "leftUsers", "leftCapture", "leftAnnounce", "close", "done"}

\* The rooms and what the handlers hold are made of rooms, clients and connections that
\* were named in a join.
TypeOK ==
  /\ DOMAIN rooms \subseteq RoomID
  /\ \A r \in DOMAIN rooms :
       /\ DOMAIN rooms[r] \subseteq ClientID
       /\ rooms[r] \in [DOMAIN rooms[r] -> Connection]
  /\ session \in [Connection -> [room : RoomID \union {""}, client : ClientID \union {""}]]
  /\ pc \in [Connection -> Label]
  /\ users \in [Connection -> SUBSET ClientID]
  /\ receivers \in [Connection -> SUBSET Connection]
  /\ read \in 0..MaxMessages /\ message \in [Connection -> 0..MaxMessages]
  /\ open \subseteq Connection /\ stalled \subseteq Connection
  /\ shown \in [Connection -> SUBSET ClientID]
  /\ got \in [Connection -> Seq(Connection \X (1..MaxMessages))]

\* The hub holds exactly the sessions of the handlers between their join and their leave,
\* each under its own room and client; so no client has two sessions in a room, none is
\* left behind, and BroadcastToRoom never answers ErrNotJoined to a handler in its loop.
SessionsMatch ==
  /\ \A c \in Connection : pc[c] \in Joined => Stored(c)
  /\ \A r \in DOMAIN rooms : \A k \in DOMAIN rooms[r] :
       /\ pc[rooms[r][k]] \in Joined
       /\ session[rooms[r][k]] = [room |-> r, client |-> k]

\* Leave removes a room with its last client, and nothing else creates an empty one.
NoEmptyRoom == \A r \in DOMAIN rooms : DOMAIN rooms[r] # {}

\* A forwarded message stays in its room and is not echoed to its sender, although
\* receivers may leave, and others join, while it is forwarded.
StaysInRoom ==
  \A d \in Connection : \A i \in DOMAIN got[d] :
    got[d][i][1] # d /\ session[got[d][i][1]].room = session[d].room

\* A receiver gets the messages of one sender in the order in which they were sent, none
\* twice.
ForwardedInOrder ==
  \A d \in Connection : \A i, j \in DOMAIN got[d] :
    i < j /\ got[d][i][1] = got[d][j][1] => got[d][i][2] < got[d][j][2]

\* When all joins and leaves have been announced, everybody in a room has been shown
\* exactly the users of that room.
PresenceTrue ==
  (\A c \in Connection : pc[c] \in {"join", "read", "done"}) =>
    \A r \in DOMAIN rooms : \A c \in Sessions(r) \intersect open : shown[c] = Users(r)

\* A broadcast goes on until no receiver is left that could be written to.
BroadcastReachesAll ==
  [][\A c \in Connection :
       pc[c] = "forward" /\ pc'[c] # "forward" => receivers[c] \intersect open = {}]_vars

\* The session of a connection that is gone goes too, however many receivers fail
\* meanwhile; only a client that keeps its connection without reading can hold it up.
Leaves ==
  \A c \in Connection : (c \notin open) ~> (pc[c] = "done" \/ stalled \intersect open # {})

=============================================================================
