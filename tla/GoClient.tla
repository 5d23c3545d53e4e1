------------------------------ MODULE GoClient ------------------------------
(***************************************************************************)
(* The goroutines of CollaborativeClient (backend/internal/client): the    *)
(* user's, which types and finally closes; ReconnectLoop; and one          *)
(* RemoteMessageLoop per connection.  They share the fields of the client  *)
(* under ConnMutex, so a step here is a section of code under that lock, a *)
(* write or read on a websocket, or an operation on a channel.  Every      *)
(* goroutine may be held up between two of its steps.                      *)
(*                                                                         *)
(* The document is left out (DocMutex guards nothing else); a message of   *)
(* the user is its number in the order of typing.  The relay and the       *)
(* network are external: connections break at any time, a write on a       *)
(* broken or closed connection fails, messages of the room come in as long *)
(* as there are any.                                                       *)
(***************************************************************************)
EXTENDS Naturals, Sequences

CONSTANTS
  MaxMessages,     \* bound: operations the user types
  MaxConnections,  \* bound: times the relay accepts the client
  MaxRemote,       \* bound: messages of others forwarded to the client
  RemoteKinds      \* which of "live", "sync1", "sync2" the others send

ASSUME GoClientAssumption ==
  /\ MaxMessages \in Nat /\ MaxConnections \in Nat /\ MaxRemote \in Nat
  /\ RemoteKinds \subseteq {"live", "sync1", "sync2"}

Connection == 1..MaxConnections
None == 0          \* the nil connection, and nobody holding a lock
Loop == MaxConnections + 1
User == MaxConnections + 2
Goroutine == Connection \union {Loop, User}  \* a reader is named by its connection
Message == 1..MaxMessages

VARIABLES
  state, conn,     \* State and Conn
  queue,           \* OfflineQueue
  signal,          \* ReconnectSignal holds its one token
  stopped,         \* StopSignal is closed
  writeMutex,      \* who holds WriteMutex from one step to the next
  flushMutex,      \* who holds FlushMutex
  pc,              \* where each goroutine is
  on,              \* the connection a goroutine has in a local variable, while it needs it
  back,            \* where it goes when MarkDisconnected returns
  hand,            \* the message it is about to write
  typed,           \* how many operations the user has typed
  dialed,          \* how many connections there have been
  alive,           \* those neither broken nor closed
  sent,            \* per connection, the user's messages written on it
  asked,           \* whether a sync_step1 on it awaits its answer
  inbox,           \* per connection, what the reader has still to read
  remote           \* how many messages of others have been forwarded

shared == <<state, conn, queue, signal, stopped>>
mutexes == <<writeMutex, flushMutex>>
locals == <<pc, on, back, hand>>
network == <<dialed, alive, sent, asked, inbox, remote>>
vars == <<shared, mutexes, locals, typed, network>>

Init ==
  /\ state = "Disconnected" /\ conn = None
  /\ queue = <<>>
  /\ signal = FALSE /\ stopped = FALSE
  /\ writeMutex = None /\ flushMutex = None
  /\ pc = [p \in Goroutine |-> IF p = User THEN "start" ELSE "off"]
  /\ on = [p \in Goroutine |-> None]
  /\ back = [p \in Goroutine |-> "off"]
  /\ hand = [p \in Goroutine |-> 0]
  /\ typed = 0
  /\ dialed = 0 /\ alive = {}
  /\ sent = [c \in Connection |-> <<>>]
  /\ asked = [c \in Connection |-> FALSE]
  /\ inbox = [c \in Connection |-> <<>>]
  /\ remote = 0

\* p continues at label l
Goto(p, l) == pc' = [pc EXCEPT ![p] = l]

\* p has no more use for the connection it captured
Forget(p) == on' = [on EXCEPT ![p] = None]

\* p calls MarkDisconnected(c), to continue at l
Disconnect(p, c, l) ==
  /\ pc' = [pc EXCEPT ![p] = "mark"]
  /\ on' = [on EXCEPT ![p] = c]
  /\ back' = [back EXCEPT ![p] = l]

Home(p) == IF p = User THEN "idle" ELSE "read"

-----------------------------------------------------------------------------
\* MarkDisconnected, in whatever goroutine.

\* the section under ConnMutex
MarkDisconnected(p) ==
  /\ pc[p] = "mark"
  /\ IF conn = on[p]
     THEN /\ conn' = None
          /\ state' = IF state = "Closing" THEN state ELSE "Disconnected"
          /\ Goto(p, IF state = "Closing" THEN "close" ELSE "closeAndRequest")
     ELSE Goto(p, "close") /\ UNCHANGED <<state, conn>>
  /\ UNCHANGED <<queue, signal, stopped, mutexes, on, back, hand, typed, network>>

\* conn.Close() and then, if the state was changed, RequestReconnect
CloseMarked(p) ==
  /\ pc[p] \in {"close", "closeAndRequest"}
  /\ alive' = alive \ {on[p]}
  /\ signal' = (signal \/ pc[p] = "closeAndRequest")
  /\ Goto(p, back[p]) /\ back' = [back EXCEPT ![p] = "off"] /\ Forget(p)
  /\ UNCHANGED <<state, conn, queue, stopped, mutexes, hand, typed,
                 dialed, sent, asked, inbox, remote>>

-----------------------------------------------------------------------------
\* SendCurrentSnapshot, in the user's goroutine or a reader.

CaptureConnection(p) ==
  /\ pc[p] = "snapshot"
  /\ IF state = "Online" /\ conn # None
     THEN on' = [on EXCEPT ![p] = conn] /\ Goto(p, "checkSnapshot")
     ELSE Goto(p, Home(p)) /\ UNCHANGED on
  /\ UNCHANGED <<shared, mutexes, back, hand, typed, network>>

\* under WriteMutex, which is kept for the write if the connection is still the same
CheckSnapshot(p) ==
  /\ pc[p] = "checkSnapshot" /\ writeMutex = None
  /\ IF state = "Online" /\ conn = on[p]
     THEN writeMutex' = p /\ Goto(p, "writeSnapshot") /\ UNCHANGED on
     ELSE Goto(p, Home(p)) /\ Forget(p) /\ UNCHANGED writeMutex
  /\ UNCHANGED <<shared, flushMutex, back, hand, typed, network>>

WriteSnapshot(p) ==
  /\ pc[p] = "writeSnapshot"
  /\ writeMutex' = None
  /\ IF on[p] \in alive
     THEN Goto(p, Home(p)) /\ Forget(p) /\ UNCHANGED back
     ELSE Disconnect(p, on[p], Home(p))
  /\ UNCHANGED <<shared, flushMutex, hand, typed, network>>

-----------------------------------------------------------------------------
\* The user: Start, commands of the editor that change the document, Close.

Start ==
  /\ pc[User] = "start"
  /\ pc' = [pc EXCEPT ![User] = "idle", ![Loop] = "select"]
  /\ signal' = TRUE
  /\ UNCHANGED <<state, conn, queue, stopped, mutexes, on, back, hand, typed, network>>

\* Mutant: any connection will do, also one that is syncing
SendOrQueueSyncing ==
  /\ pc[User] = "idle" /\ typed < MaxMessages
  /\ typed' = typed + 1
  /\ IF conn # None
     THEN /\ on' = [on EXCEPT ![User] = conn]
          /\ hand' = [hand EXCEPT ![User] = typed + 1]
          /\ Goto(User, "write")
          /\ UNCHANGED queue
     ELSE /\ queue' = Append(queue, typed + 1)
          /\ Goto(User, "getState")
          /\ UNCHANGED <<on, hand>>
  /\ UNCHANGED <<state, conn, signal, stopped, mutexes, back, network>>

\* SendOrQueue up to the release of ConnMutex
SendOrQueue ==
  /\ pc[User] = "idle" /\ typed < MaxMessages
  /\ typed' = typed + 1
  /\ IF state = "Online" /\ conn # None
     THEN /\ on' = [on EXCEPT ![User] = conn]
          /\ hand' = [hand EXCEPT ![User] = typed + 1]
          /\ Goto(User, "write")
          /\ UNCHANGED queue
     ELSE /\ queue' = Append(queue, typed + 1)
          /\ Goto(User, "getState")
          /\ UNCHANGED <<on, hand>>
  /\ UNCHANGED <<state, conn, signal, stopped, mutexes, back, network>>

WriteMessage ==
  /\ pc[User] = "write" /\ writeMutex = None
  /\ IF on[User] \in alive
     THEN /\ sent' = [sent EXCEPT ![on[User]] = Append(@, hand[User])]
          /\ hand' = [hand EXCEPT ![User] = 0]
          /\ Goto(User, "getState") /\ Forget(User)
     ELSE Goto(User, "enqueue") /\ UNCHANGED <<sent, hand, on>>
  /\ UNCHANGED <<shared, mutexes, back, typed, dialed, alive, asked, inbox, remote>>

\* Mutant: the buffer is reused before EnqueueOffline copies it
EnqueueOfflineReused ==
  /\ pc[User] = "enqueue"
  /\ hand' = [hand EXCEPT ![User] = 0]
  /\ queue' = Append(queue, hand'[User])
  /\ Disconnect(User, on[User], "getState")
  /\ UNCHANGED <<state, conn, signal, stopped, mutexes, typed, network>>

EnqueueOffline ==
  /\ pc[User] = "enqueue"
  /\ queue' = Append(queue, hand[User])
  /\ hand' = [hand EXCEPT ![User] = 0]
  /\ Disconnect(User, on[User], "getState")
  /\ UNCHANGED <<state, conn, signal, stopped, mutexes, typed, network>>

\* after an operation the editor sends a snapshot if it is online
GetState ==
  /\ pc[User] = "getState"
  /\ Goto(User, IF state = "Online" THEN "snapshot" ELSE "idle")
  /\ UNCHANGED <<shared, mutexes, on, back, hand, typed, network>>

\* Mutant: Conn is not cleared
CloseKeepsConnection ==
  /\ pc[User] = "idle"
  /\ on' = [on EXCEPT ![User] = conn]
  /\ state' = "Closing"
  /\ Goto(User, "stop")
  /\ UNCHANGED <<conn, queue, signal, stopped, mutexes, back, hand, typed, network>>

\* Close up to the release of ConnMutex
Close ==
  /\ pc[User] = "idle"
  /\ on' = [on EXCEPT ![User] = conn]
  /\ state' = "Closing" /\ conn' = None
  /\ Goto(User, "stop")
  /\ UNCHANGED <<queue, signal, stopped, mutexes, back, hand, typed, network>>

Stop ==
  /\ pc[User] = "stop"
  /\ stopped' = TRUE
  /\ alive' = alive \ {on[User]}
  /\ Goto(User, "closed") /\ Forget(User)
  /\ UNCHANGED <<state, conn, queue, signal, mutexes, back, hand, typed,
                 dialed, sent, asked, inbox, remote>>

-----------------------------------------------------------------------------
\* ReconnectLoop with ReconnectOnce, DialAndJoin and SendSync1.

\* Mutant: no case for StopSignal
AwaitSignalOnly ==
  /\ pc[Loop] = "select"
  /\ signal /\ signal' = FALSE /\ Goto(Loop, "begin")
  /\ UNCHANGED <<state, conn, queue, stopped, mutexes, on, back, hand, typed, network>>

\* select: a token, or the end
AwaitSignal ==
  /\ pc[Loop] = "select"
  /\ \/ signal /\ signal' = FALSE /\ Goto(Loop, "begin")
     \/ stopped /\ Goto(Loop, "done") /\ UNCHANGED signal
  /\ UNCHANGED <<state, conn, queue, stopped, mutexes, on, back, hand, typed, network>>

BeginReconnect ==
  /\ pc[Loop] = "begin"
  /\ IF state = "Disconnected" /\ conn = None
     THEN state' = "Connecting" /\ Goto(Loop, "dial")
     ELSE Goto(Loop, "select") /\ UNCHANGED state
  /\ UNCHANGED <<conn, queue, signal, stopped, mutexes, on, back, hand, typed, network>>

\* DialAndJoin returns a new connection on which the relay has acknowledged the join
Dial ==
  /\ pc[Loop] = "dial" /\ dialed < MaxConnections
  /\ dialed' = dialed + 1
  /\ alive' = alive \union {dialed'}
  /\ on' = [on EXCEPT ![Loop] = dialed']
  /\ Goto(Loop, "install")
  /\ UNCHANGED <<shared, mutexes, back, hand, typed, sent, asked, inbox, remote>>

\* Mutant: the loop does not try again by itself
DialFailsForGood ==
  /\ pc[Loop] = "dial"
  /\ IF state = "Connecting"
     THEN state' = "Disconnected" /\ conn' = None
     ELSE UNCHANGED <<state, conn>>
  /\ Goto(Loop, "select")
  /\ UNCHANGED <<queue, signal, stopped, mutexes, on, back, hand, typed, network>>

\* it fails, having closed what it had opened, and ReconnectOnce takes the state back
DialFails ==
  /\ pc[Loop] = "dial"
  /\ IF state = "Connecting"
     THEN state' = "Disconnected" /\ conn' = None
     ELSE UNCHANGED <<state, conn>>
  /\ Goto(Loop, "wait")
  /\ UNCHANGED <<queue, signal, stopped, mutexes, on, back, hand, typed, network>>

\* Mutant: the state is not looked at again after the dial
InstallConnectionUnchecked ==
  /\ pc[Loop] = "install"
  /\ state' = "Syncing" /\ conn' = on[Loop]
  /\ pc' = [pc EXCEPT ![Loop] = "sync1", ![on[Loop]] = "read"]
  /\ UNCHANGED <<queue, signal, stopped, mutexes, on, back, hand, typed, network>>

\* Mutant: the connection that came too late is left open
InstallConnectionUnclosed ==
  /\ pc[Loop] = "install"
  /\ IF state = "Connecting"
     THEN /\ state' = "Syncing" /\ conn' = on[Loop]
          /\ pc' = [pc EXCEPT ![Loop] = "sync1", ![on[Loop]] = "read"]
          /\ UNCHANGED on
     ELSE Goto(Loop, "wait") /\ Forget(Loop) /\ UNCHANGED <<state, conn>>
  /\ UNCHANGED <<queue, signal, stopped, mutexes, back, hand, typed, network>>

\* the rest of ReconnectOnce; with the connection in place its reader is started
InstallConnection ==
  /\ pc[Loop] = "install"
  /\ IF state = "Connecting"
     THEN /\ state' = "Syncing" /\ conn' = on[Loop]
          /\ pc' = [pc EXCEPT ![Loop] = "sync1", ![on[Loop]] = "read"]
          /\ UNCHANGED <<alive, on>>
     ELSE /\ alive' = alive \ {on[Loop]}
          /\ Goto(Loop, "wait") /\ Forget(Loop)
          /\ UNCHANGED <<state, conn>>
  /\ UNCHANGED <<queue, signal, stopped, mutexes, back, hand, typed,
                 dialed, sent, asked, inbox, remote>>

\* three seconds pass, or the end
Wait ==
  /\ pc[Loop] = "wait"
  /\ \/ Goto(Loop, "begin")
     \/ stopped /\ Goto(Loop, "done")
  /\ UNCHANGED <<shared, mutexes, on, back, hand, typed, network>>

SendSync1 ==
  /\ pc[Loop] = "sync1" /\ writeMutex = None
  /\ IF on[Loop] \in alive
     THEN /\ asked' = [asked EXCEPT ![on[Loop]] = TRUE]
          /\ Goto(Loop, "select") /\ Forget(Loop)
          /\ UNCHANGED back
     ELSE Disconnect(Loop, on[Loop], "select") /\ UNCHANGED asked
  /\ UNCHANGED <<shared, mutexes, hand, typed, dialed, alive, sent, inbox, remote>>

-----------------------------------------------------------------------------
\* RemoteMessageLoop(c).  Messages that the loop skips with a continue before any
\* effect are as good as never sent.

ReadError(c) ==
  /\ pc[c] = "read" /\ c \notin alive
  /\ Disconnect(c, c, "done")
  /\ UNCHANGED <<shared, mutexes, hand, typed, network>>

\* Mutant: a sync_step2 is integrated and the loop goes on, without the flush
ReadMessageUnflushed(c) ==
  /\ pc[c] = "read" /\ inbox[c] # <<>>
  /\ inbox' = [inbox EXCEPT ![c] = Tail(@)]
  /\ Goto(c, CASE Head(inbox[c]) = "live"  -> "afterApply"
               [] Head(inbox[c]) = "sync1" -> "answer"
               [] Head(inbox[c]) = "sync2" -> "read")
  /\ UNCHANGED <<shared, mutexes, on, back, hand, typed, dialed, alive, sent, asked, remote>>

ReadMessage(c) ==
  /\ pc[c] = "read" /\ inbox[c] # <<>>
  /\ inbox' = [inbox EXCEPT ![c] = Tail(@)]
  /\ Goto(c, CASE Head(inbox[c]) = "live"  -> "afterApply"
               [] Head(inbox[c]) = "sync1" -> "answer"
               [] Head(inbox[c]) = "sync2" -> "flush")
  /\ UNCHANGED <<shared, mutexes, on, back, hand, typed, dialed, alive, sent, asked, remote>>

\* after a live operation, and after the flush: the loop goes on only if online
CheckOnline(c) ==
  /\ pc[c] = "afterApply"
  /\ Goto(c, IF state = "Online" /\ conn = c THEN "snapshot" ELSE "done")
  /\ UNCHANGED <<shared, mutexes, on, back, hand, typed, network>>

\* the sync_step2 for somebody else's sync_step1
Answer(c) ==
  /\ pc[c] = "answer" /\ writeMutex = None
  /\ IF c \in alive
     THEN Goto(c, "read") /\ UNCHANGED <<on, back>>
     ELSE Disconnect(c, c, "done")
  /\ UNCHANGED <<shared, mutexes, hand, typed, network>>

LockFlush(c) ==
  /\ pc[c] = "flush" /\ flushMutex = None
  /\ flushMutex' = c
  /\ Goto(c, "flushNext")
  /\ UNCHANGED <<shared, writeMutex, on, back, hand, typed, network>>

\* Mutant: the message is taken out before it is written
FlushNextTakesOut(c) ==
  /\ pc[c] = "flushNext"
  /\ \/ /\ conn # c \/ state # "Syncing"
        /\ Goto(c, "flushed")
        /\ UNCHANGED <<state, queue, hand>>
     \/ /\ conn = c /\ state = "Syncing" /\ queue = <<>>
        /\ state' = "Online"
        /\ Goto(c, "flushed")
        /\ UNCHANGED <<queue, hand>>
     \/ /\ conn = c /\ state = "Syncing" /\ queue # <<>>
        /\ hand' = [hand EXCEPT ![c] = Head(queue)]
        /\ queue' = Tail(queue)
        /\ Goto(c, "flushWrite")
        /\ UNCHANGED state
  /\ UNCHANGED <<conn, signal, stopped, mutexes, on, back, typed, network>>

\* the head of the loop of FlushOfflineQueue
FlushNext(c) ==
  /\ pc[c] = "flushNext"
  /\ \/ /\ conn # c \/ state # "Syncing"
        /\ Goto(c, "flushed")
        /\ UNCHANGED <<state, hand>>
     \/ /\ conn = c /\ state = "Syncing" /\ queue = <<>>
        /\ state' = "Online"
        /\ Goto(c, "flushed")
        /\ UNCHANGED hand
     \/ /\ conn = c /\ state = "Syncing" /\ queue # <<>>
        /\ hand' = [hand EXCEPT ![c] = Head(queue)]
        /\ Goto(c, "flushWrite")
        /\ UNCHANGED state
  /\ UNCHANGED <<conn, queue, signal, stopped, mutexes, on, back, typed, network>>

FlushWrite(c) ==
  /\ pc[c] = "flushWrite" /\ writeMutex = None
  /\ IF c \in alive
     THEN /\ sent' = [sent EXCEPT ![c] = Append(@, hand[c])]
          /\ Goto(c, "flushPop")
          /\ UNCHANGED <<on, back>>
     ELSE Disconnect(c, c, "flushed") /\ UNCHANGED sent
  /\ hand' = [hand EXCEPT ![c] = 0]
  /\ UNCHANGED <<shared, mutexes, typed, dialed, alive, asked, inbox, remote>>

FlushPop(c) ==
  /\ pc[c] = "flushPop"
  /\ IF conn = c /\ state = "Syncing"
     THEN queue' = Tail(queue) /\ Goto(c, "flushNext")
     ELSE Goto(c, "flushed") /\ UNCHANGED queue
  /\ UNCHANGED <<state, conn, signal, stopped, mutexes, on, back, hand, typed, network>>

\* FlushOfflineQueue returns
UnlockFlush(c) ==
  /\ pc[c] = "flushed"
  /\ flushMutex' = None
  /\ Goto(c, "afterApply")
  /\ UNCHANGED <<shared, writeMutex, on, back, hand, typed, network>>

-----------------------------------------------------------------------------
\* The network and the relay (external).

Break(c) ==
  /\ c \in alive
  /\ alive' = alive \ {c}
  /\ UNCHANGED <<shared, mutexes, locals, typed, dialed, sent, asked, inbox, remote>>

\* some other client of the room sends something
Forward(c) ==
  /\ c \in alive /\ remote < MaxRemote
  /\ remote' = remote + 1
  /\ \E k \in RemoteKinds : inbox' = [inbox EXCEPT ![c] = Append(@, k)]
  /\ UNCHANGED <<shared, mutexes, locals, typed, dialed, alive, sent, asked>>

\* the answer to the sync_step1, by another client or from the snapshot
AnswerSync1(c) ==
  /\ c \in alive /\ asked[c]
  /\ asked' = [asked EXCEPT ![c] = FALSE]
  /\ inbox' = [inbox EXCEPT ![c] = Append(@, "sync2")]
  /\ UNCHANGED <<shared, mutexes, locals, typed, dialed, alive, sent, remote>>

-----------------------------------------------------------------------------

Snapshot(p) == CaptureConnection(p) \/ CheckSnapshot(p) \/ WriteSnapshot(p)
Marking(p) == MarkDisconnected(p) \/ CloseMarked(p)

\* what the user's goroutine does once a command has begun
Command == WriteMessage \/ EnqueueOffline \/ GetState \/ Stop \/ Snapshot(User) \/ Marking(User)

Reconnect ==
  \/ AwaitSignal \/ BeginReconnect \/ Dial \/ DialFails \/ InstallConnection
  \/ Wait \/ SendSync1 \/ Marking(Loop)

Flush(c) ==
  LockFlush(c) \/ FlushNext(c) \/ FlushWrite(c) \/ FlushPop(c) \/ UnlockFlush(c)

Reader(c) ==
  \/ ReadError(c) \/ ReadMessage(c) \/ CheckOnline(c) \/ Answer(c)
  \/ Flush(c) \/ Snapshot(c) \/ Marking(c)

Next ==
  \/ Start \/ SendOrQueue \/ Close \/ Command
  \/ Reconnect
  \/ \E c \in Connection : Reader(c) \/ Break(c) \/ Forward(c) \/ AnswerSync1(c)

Spec == Init /\ [][Next]_vars

\* The Go scheduler runs every goroutine that can run, a command that was begun is
\* brought to its end, and somebody answers a sync_step1.  Nothing makes the user
\* type or close, connections break, a dial succeed, or the others type.
Fairness ==
  /\ WF_vars(Start) /\ WF_vars(Command) /\ WF_vars(Reconnect)
  /\ \A c \in Connection : WF_vars(Reader(c)) /\ WF_vars(AnswerSync1(c))

FairSpec == Spec /\ Fairness

-----------------------------------------------------------------------------

Label == {"off", "start", "idle", "write", "enqueue", "getState", "stop", "closed",
          "snapshot", "checkSnapshot", "writeSnapshot", "mark", "close", "closeAndRequest",
          "select", "begin", "dial", "install", "wait", "sync1", "done",
          "read", "afterApply", "answer", "flush", "flushNext", "flushWrite", "flushPop",
          "flushed"}

SharedTypes ==
  /\ state \in {"Disconnected", "Connecting", "Syncing", "Online", "Closing"}
  /\ conn \in Connection \union {None}
  /\ queue \in Seq(Message)
  /\ signal \in BOOLEAN /\ stopped \in BOOLEAN
  /\ writeMutex \in Goroutine \union {None} /\ flushMutex \in Connection \union {None}

LocalTypes ==
  /\ pc \in [Goroutine -> Label]
  /\ on \in [Goroutine -> Connection \union {None}]
  /\ back \in [Goroutine -> Label]
  /\ hand \in [Goroutine -> Message \union {0}]

NetworkTypes ==
  /\ typed \in 0..MaxMessages /\ dialed \in 0..MaxConnections
  /\ alive \subseteq 1..dialed
  /\ sent \in [Connection -> Seq(Message)]
  /\ asked \in [Connection -> BOOLEAN]
  /\ inbox \in [Connection -> Seq({"live", "sync1", "sync2"})]
  /\ remote \in 0..MaxRemote

\* The fields, the local variables and the connections hold what the code puts there;
\* in particular what is queued or written is always an operation the user typed.
TypeOK == SharedTypes /\ LocalTypes /\ NetworkTypes

Sent(m) == \E c \in Connection : \E i \in DOMAIN sent[c] : sent[c][i] = m
Queued(m) == \E i \in DOMAIN queue : queue[i] = m

\* Nothing the user typed is lost: it was written on some connection, or it is in the
\* queue, or SendOrQueue still has it in hand.  (SendOrQueue hands over the message
\* outside ConnMutex, and FlushOfflineQueue takes it out only after the write.)
NothingLost == \A m \in 1..typed : Sent(m) \/ Queued(m) \/ hand[User] = m

\* On one connection the user's operations go out in the order of typing, none twice,
\* although the user's goroutine and the flush of a reader both write.
SentInOrder ==
  \A c \in Connection : \A i, j \in DOMAIN sent[c] : i < j => sent[c][i] < sent[c][j]

\* p is about to install or to close c
InHand(p, c) == on[p] = c /\ pc[p] \in {"install", "mark", "close", "closeAndRequest", "stop"}

\* A connection is never forgotten: as long as it is open it is Conn, or some
\* goroutine is on its way to install or to close it.
NoConnectionLeaks == \A c \in alive : conn = c \/ \E p \in Goroutine : InHand(p, c)

\* Syncing and Online are the states that have a connection.
ConnectionMatchesState == (state \in {"Syncing", "Online"}) <=> (conn # None)

\* No wake-up is lost: while the client is disconnected a token is in ReconnectSignal,
\* or about to be put there, or the loop is on its way to BeginReconnect.
WakeUpPending ==
  (state = "Disconnected" /\ pc[User] # "start") =>
    \/ signal
    \/ pc[Loop] \in {"begin", "wait"}
    \/ \E p \in Goroutine : pc[p] = "closeAndRequest"

\* Close is final, whatever dial, flush or write was under way.
ClosingIsFinal == [][state = "Closing" => state' = "Closing" /\ conn' = None]_vars

\* A disconnected client tries again (or is closed).
Reconnects ==
  (state = "Disconnected" /\ pc[User] # "start") ~> (state \in {"Connecting", "Closing"})

\* After Close all goroutines end and all connections are closed.
Ends ==
  (state = "Closing") ~>
    (alive = {} /\ pc[Loop] = "done" /\ \A c \in Connection : pc[c] \in {"off", "done"})

\* A client that is syncing gets online, or loses its connection, or is closed, unless the
\* reader of its connection has ended.
ReaderCompletes ==
  (state = "Syncing") ~> (state # "Syncing" \/ (conn \in Connection /\ pc[conn] = "done"))

\* A client that is syncing gets online, or loses its connection, or is closed.
SyncCompletes == (state = "Syncing") ~> (state # "Syncing")

\* What is queued gets sent as long as the client stays online.
OnlineSends ==
  \A m \in Message : (Queued(m) /\ state = "Online") ~> (Sent(m) \/ state # "Online")

=============================================================================
