--------------------------- MODULE GoClientProofs ---------------------------
(***************************************************************************)
(* The safety of the Go client, for every number of connections and        *)
(* messages and whatever the others send.                                  *)
(***************************************************************************)
EXTENDS GoClient, TLAPS

\* Where a call of MarkDisconnected may return to, and that it is known during the
\* call only.
Returns == {"off", "done", "select", "getState", "idle", "read", "flushed"}
BackInv ==
  \A p \in Goroutine :
    /\ back[p] \in Returns
    /\ back[p] # "off" => pc[p] \in {"mark", "close", "closeAndRequest"}

FlushSection == {"flushNext", "flushWrite", "flushPop", "flushed"}

\* A connection that was not dialed yet has no reader; the one that ReconnectOnce is
\* about to install is the last one dialed, and has none either.
DialedInv ==
  /\ \A c \in Connection : c > dialed => pc[c] = "off"
  /\ pc[Loop] = "install" =>
       on[Loop] \in Connection /\ on[Loop] = dialed /\ pc[dialed] = "off"

\* FlushMutex excludes a second flush also while MarkDisconnected runs inside the first.
FlushInv ==
  \A c \in Connection :
    pc[c] \in FlushSection \/ back[c] = "flushed" => flushMutex = c

\* SendOrQueue has a message in hand exactly between its lock sections.
UserHandInv == hand[User] # 0 <=> pc[User] \in {"write", "enqueue"}

\* What a flush writes is the head of the queue, and what it then removes was sent.
FlushHandInv ==
  \A c \in Connection :
    /\ pc[c] = "flushWrite" => queue # <<>> /\ hand[c] = Head(queue)
    /\ pc[c] = "flushPop" => queue # <<>> /\ Sent(Head(queue))

\* The loop does not run before Start, and StopSignal is closed only in Close.
LifeInv ==
  /\ pc[User] = "start" => pc[Loop] = "off"
  /\ stopped \/ pc[User] = "stop" => state = "Closing"

Inv ==
  /\ TypeOK
  /\ BackInv /\ LifeInv /\ DialedInv /\ FlushInv /\ UserHandInv /\ FlushHandInv
  /\ NothingLost /\ NoConnectionLeaks /\ ConnectionMatchesState /\ WakeUpPending

\* SentInOrder needs more about who writes when, kept apart from Inv: it is used nowhere
\* else.

\* Where a reader flushes the queue, and where MarkDisconnected is under way.
Flushing == {"flushWrite", "flushPop"}
Marked == {"mark", "close", "closeAndRequest"}

\* The connection in use has a reader, and a goroutine in MarkDisconnected returns to
\* where it was: no reader starts twice.
ReaderInv ==
  /\ \A p \in Goroutine : pc[p] \in Marked => back[p] # "off"
  /\ \A c \in Connection :
       /\ conn = c => pc[c] # "off"
       /\ pc[c] = "off" => sent[c] = <<>>

\* On one connection the user writes only after the flush has ended for good.
TurnInv ==
  \A c \in Connection :
    /\ conn = c /\ state = "Online" => pc[c] \notin Flushing
    /\ pc[User] = "write" /\ on[User] = c =>
         /\ pc[c] \notin Flushing \union {"off"}
         /\ conn = c => state # "Syncing"

\* The queue is in the order of typing, and what the user has in hand is the last
\* operation typed, neither queued nor sent.
QueueInv ==
  /\ \A i, j \in DOMAIN queue : i < j => queue[i] < queue[j]
  /\ \A i \in DOMAIN queue : queue[i] <= typed
  /\ \A c \in Connection : \A i \in DOMAIN sent[c] : sent[c][i] <= typed
  /\ hand[User] # 0 =>
       /\ hand[User] = typed
       /\ \A i \in DOMAIN queue : queue[i] < typed
       /\ \A c \in Connection : \A i \in DOMAIN sent[c] : sent[c][i] < typed

\* As long as a connection is syncing, what was sent on it was typed before what is
\* queued, but for the head of the queue between its write and its removal.
FlushOrderInv ==
  \A c \in Connection :
    /\ conn = c /\ state = "Syncing" =>
         \A i \in DOMAIN sent[c] : \A j \in DOMAIN queue :
            /\ sent[c][i] <= queue[j]
            /\ pc[c] # "flushPop" \/ j # 1 => sent[c][i] < queue[j]
    /\ pc[c] = "flushWrite" => \A i \in DOMAIN sent[c] : sent[c][i] < hand[c]

OrderInv == ReaderInv /\ TurnInv /\ QueueInv /\ FlushOrderInv /\ SentInOrder

-----------------------------------------------------------------------------

LEMMA MessageSequences ==
  ASSUME NEW s \in Seq(Message)
  PROVE  /\ \A m \in Message : Append(s, m) \in Seq(Message)
         /\ s # <<>> => Head(s) \in Message /\ Tail(s) \in Seq(Message)
OBVIOUS

\* What happens to the messages when one is appended to a sequence or taken from it.
LEMMA QueueGrows ==
  ASSUME queue \in Seq(Message), NEW m \in Message, queue' = Append(queue, m)
  PROVE  /\ Queued(m)' /\ \A x : Queued(x) => Queued(x)'
         /\ queue # <<>> => queue' # <<>> /\ Head(queue') = Head(queue)
<1>1. \A i \in DOMAIN queue : i \in DOMAIN queue' /\ queue'[i] = queue[i]
  OBVIOUS
<1>2. Len(queue) + 1 \in DOMAIN queue' /\ queue'[Len(queue) + 1] = m
  OBVIOUS
<1>3. queue # <<>> => queue' # <<>> /\ Head(queue') = Head(queue)
  OBVIOUS
<1> QED BY <1>1, <1>2, <1>3 DEF Queued

LEMMA QueuePops ==
  ASSUME queue \in Seq(Message), queue # <<>>, queue' = Tail(queue),
         NEW m, Queued(m)
  PROVE  m = Head(queue) \/ Queued(m)'
<1>1. PICK i \in DOMAIN queue : queue[i] = m
  BY DEF Queued
<1>2. CASE i = 1
  BY <1>1, <1>2
<1>3. CASE i # 1
  <2>1. i - 1 \in DOMAIN queue' /\ queue'[i - 1] = m
    BY <1>1, <1>3
  <2> QED BY <2>1 DEF Queued
<1> QED BY <1>2, <1>3

LEMMA SentGrows ==
  ASSUME sent \in [Connection -> Seq(Message)], NEW c \in Connection, NEW m \in Message,
         sent'[c] = Append(sent[c], m), \A d \in Connection \ {c} : sent'[d] = sent[d]
  PROVE  Sent(m)' /\ \A x : Sent(x) => Sent(x)'
<1>1. \A d \in Connection : \A i \in DOMAIN sent[d] :
        i \in DOMAIN sent'[d] /\ sent'[d][i] = sent[d][i]
  OBVIOUS
<1>2. Len(sent[c]) + 1 \in DOMAIN sent'[c] /\ sent'[c][Len(sent[c]) + 1] = m
  OBVIOUS
<1> QED BY <1>1, <1>2 DEF Sent

\* The two writes of the user's messages.
LEMMA WriteSends ==
  ASSUME WriteMessage, UserHandInv, hand \in [Goroutine -> Message \union {0}],
         sent \in [Connection -> Seq(Message)], alive \subseteq Connection
  PROVE  /\ \A m : Sent(m) => Sent(m)'
         /\ on[User] \in alive => \A m : m = hand[User] => Sent(m)'
<1>1. hand[User] \in Message
  BY DEF WriteMessage, UserHandInv, Goroutine
<1>2. ASSUME NEW c \in Connection, c = on[User], c \in alive, NEW n \in Message, n = hand[User]
      PROVE  Sent(n)' /\ \A m : Sent(m) => Sent(m)'
  <2>1. /\ sent'[c] = Append(sent[c], n)
        /\ \A d \in Connection \ {c} : sent'[d] = sent[d]
    BY <1>2 DEF WriteMessage
  <2> QED BY <2>1, SentGrows
<1>3. CASE on[User] \notin alive
  BY <1>3 DEF WriteMessage, Sent
<1> QED BY <1>1, <1>2, <1>3

LEMMA FlushSends ==
  ASSUME NEW c \in Connection, FlushWrite(c), FlushHandInv, queue \in Seq(Message),
         sent \in [Connection -> Seq(Message)]
  PROVE  /\ \A m : Sent(m) => Sent(m)'
         /\ c \in alive => \A m : m = hand[c] => Sent(m)'
<1>1. hand[c] \in Message
  BY MessageSequences DEF FlushWrite, FlushHandInv
<1>2. ASSUME c \in alive, NEW n \in Message, n = hand[c]
      PROVE  Sent(n)' /\ \A m : Sent(m) => Sent(m)'
  <2>1. /\ sent'[c] = Append(sent[c], n)
        /\ \A d \in Connection \ {c} : sent'[d] = sent[d]
    BY <1>2 DEF FlushWrite
  <2> QED BY <2>1, SentGrows
<1>3. CASE c \notin alive
  BY <1>3 DEF FlushWrite, Sent
<1> QED BY <1>1, <1>2, <1>3

\* The actions, one by one.
LEMMA Steps ==
  ASSUME [Next]_vars
  PROVE  \/ UNCHANGED vars
         \/ Start \/ SendOrQueue \/ Close \/ WriteMessage \/ EnqueueOffline \/ GetState \/ Stop
         \/ AwaitSignal \/ BeginReconnect \/ Dial \/ DialFails \/ InstallConnection
         \/ Wait \/ SendSync1
         \/ \E p \in Goroutine : \/ CaptureConnection(p) \/ CheckSnapshot(p) \/ WriteSnapshot(p)
                                 \/ MarkDisconnected(p) \/ CloseMarked(p)
         \/ \E c \in Connection : \/ ReadError(c) \/ ReadMessage(c) \/ CheckOnline(c) \/ Answer(c)
                                  \/ LockFlush(c) \/ FlushNext(c) \/ FlushWrite(c)
                                  \/ FlushPop(c) \/ UnlockFlush(c)
                                  \/ Break(c) \/ Forward(c) \/ AnswerSync1(c)
BY DEF Next, Command, Reconnect, Reader, Flush, Snapshot, Marking, Goroutine

-----------------------------------------------------------------------------
\* Types.  What is written or queued is a message because of UserHandInv and FlushHandInv.

LEMMA SharedStep ==
  ASSUME Inv, [Next]_vars
  PROVE  SharedTypes'
<1> USE DEF Goroutine, Connection, Loop, User, None, SharedTypes, UserHandInv,
     FlushHandInv
<1>1. /\ pc \in [Goroutine -> Label]
      /\ on \in [Goroutine -> Connection \union {None}]
      /\ hand \in [Goroutine -> Message \union {0}]
      /\ state \in {"Disconnected", "Connecting", "Syncing", "Online", "Closing"}
      /\ conn \in Connection \union {None}
      /\ queue \in Seq(Message)
      /\ signal \in BOOLEAN
      /\ stopped \in BOOLEAN
      /\ writeMutex \in Goroutine \union {None}
      /\ flushMutex \in Connection \union {None}
      /\ typed \in 0..MaxMessages
      /\ MaxConnections \in Nat
      /\ MaxMessages \in Nat
  BY GoClientAssumption DEF Inv, TypeOK, SharedTypes, LocalTypes, NetworkTypes
<1>2. UserHandInv /\ FlushHandInv
  BY DEF Inv
<1>3. CASE SendOrQueue
  <2>1. queue' = queue \/ queue' = Append(queue, typed + 1)
    BY <1>3 DEF SendOrQueue
  <2>2. typed + 1 \in Message
    BY <1>1, <1>3 DEF SendOrQueue, Message
  <2>3. queue' \in Seq(Message)
    BY <1>1, <2>1, <2>2, MessageSequences
  <2> QED BY <1>1, <1>3, <2>3 DEF SendOrQueue, mutexes
<1>4. CASE EnqueueOffline
  BY <1>1, <1>2, <1>4 DEF EnqueueOffline, Disconnect, mutexes, network
<1>5. CASE Start \/ Close \/ WriteMessage \/ GetState \/ Stop
  BY <1>1, <1>2, <1>5 DEF Start, mutexes, network, Close, Goto, WriteMessage, Forget,
       shared, GetState, Stop
<1>6. CASE AwaitSignal \/ BeginReconnect \/ Dial \/ DialFails \/ InstallConnection \/ Wait
     \/ SendSync1
  BY <1>1, <1>2, <1>6 DEF AwaitSignal, Goto, mutexes, network, BeginReconnect, Dial,
       shared, DialFails, InstallConnection, Forget, Wait, SendSync1, Disconnect
<1>7. ASSUME NEW p \in Goroutine, CaptureConnection(p) \/ CheckSnapshot(p) \/
     WriteSnapshot(p)
      PROVE  SharedTypes'
  BY <1>1, <1>2, <1>7 DEF CaptureConnection, Goto, Home, shared, mutexes, network,
       CheckSnapshot, Forget, WriteSnapshot, Disconnect
<1>8. ASSUME NEW p \in Goroutine, MarkDisconnected(p) \/ CloseMarked(p)
      PROVE  SharedTypes'
  BY <1>1, <1>2, <1>8 DEF MarkDisconnected, Goto, mutexes, network, CloseMarked, Forget
<1>9. ASSUME NEW c \in Connection, ReadError(c) \/ ReadMessage(c) \/ CheckOnline(c) \/
     Answer(c)
      PROVE  SharedTypes'
  BY <1>1, <1>2, <1>9 DEF ReadError, Disconnect, shared, mutexes, network, ReadMessage,
       Goto, CheckOnline, Answer
<1>10. ASSUME NEW c \in Connection, FlushNext(c)
      PROVE  SharedTypes'
  BY <1>1, <1>2, <1>10 DEF FlushNext, Goto, mutexes, network
<1>11. ASSUME NEW c \in Connection, FlushPop(c)
      PROVE  SharedTypes'
  <2>1. queue' = queue \/ (queue # <<>> /\ queue' = Tail(queue))
    BY <1>2, <1>11 DEF FlushPop
  <2>2. queue' \in Seq(Message)
    BY <1>1, <2>1, MessageSequences
  <2> QED BY <1>1, <1>11, <2>2 DEF FlushPop, mutexes
<1>12. ASSUME NEW c \in Connection, LockFlush(c) \/ FlushWrite(c) \/ UnlockFlush(c)
      PROVE  SharedTypes'
  BY <1>1, <1>2, <1>12 DEF LockFlush, Goto, shared, network, FlushWrite, Disconnect,
       mutexes, UnlockFlush
<1>13. ASSUME NEW c \in Connection, Break(c) \/ Forward(c) \/ AnswerSync1(c)
      PROVE  SharedTypes'
  BY <1>1, <1>2, <1>13 DEF Break, shared, mutexes, locals, Forward, AnswerSync1
<1>14. CASE UNCHANGED vars
  BY <1>1, <1>2, <1>14 DEF vars, shared, mutexes, locals, network
<1> QED BY <1>3, <1>4, <1>5, <1>6, <1>7, <1>8, <1>9, <1>10, <1>11, <1>12, <1>13, <1>14,
     Steps

LEMMA LocalStep ==
  ASSUME Inv, [Next]_vars
  PROVE  LocalTypes'
<1> USE DEF Goroutine, Connection, Loop, User, None, Label, LocalTypes, Message, BackInv,
     Returns
<1>1. /\ pc \in [Goroutine -> Label]
      /\ on \in [Goroutine -> Connection \union {None}]
      /\ back \in [Goroutine -> Label]
      /\ hand \in [Goroutine -> Message \union {0}]
      /\ conn \in Connection \union {None}
      /\ queue \in Seq(Message)
      /\ inbox \in [Connection -> Seq({"live", "sync1", "sync2"})]
      /\ typed \in 0..MaxMessages
      /\ dialed \in 0..MaxConnections
      /\ MaxConnections \in Nat
      /\ MaxMessages \in Nat
  BY GoClientAssumption DEF Inv, TypeOK, SharedTypes, LocalTypes, NetworkTypes
<1>2. BackInv
  BY DEF Inv
<1>3. CASE Start
  BY <1>1, <1>2, <1>3 DEF Start, mutexes, network
<1>4. CASE SendOrQueue
  BY <1>1, <1>2, <1>4 DEF SendOrQueue, Goto, mutexes, network
<1>5. CASE Close
  BY <1>1, <1>2, <1>5 DEF Close, Goto, mutexes, network
<1>6. CASE WriteMessage
  BY <1>1, <1>2, <1>6 DEF WriteMessage, Goto, Forget, shared, mutexes
<1>7. CASE EnqueueOffline
  BY <1>1, <1>2, <1>7 DEF EnqueueOffline, Disconnect, mutexes, network
<1>8. CASE GetState
  BY <1>1, <1>2, <1>8 DEF GetState, Goto
<1>9. CASE Stop
  BY <1>1, <1>2, <1>9 DEF Stop, Goto, Forget, mutexes
<1>10. CASE BeginReconnect
  BY <1>1, <1>2, <1>10 DEF BeginReconnect, Goto, mutexes, network
<1>11. CASE Dial
  BY <1>1, <1>2, <1>11 DEF Dial, Goto, shared, mutexes
<1>12. CASE InstallConnection
  BY <1>1, <1>2, <1>12, ZenonT(60) DEF InstallConnection, Goto, Forget, mutexes
<1>13. CASE SendSync1
  BY <1>1, <1>2, <1>13 DEF SendSync1, Goto, Disconnect, Forget, shared, mutexes
<1>14. CASE AwaitSignal \/ DialFails \/ Wait
  BY <1>1, <1>2, <1>14 DEF AwaitSignal, Goto, mutexes, network, DialFails, Wait, shared
<1>15. ASSUME NEW p \in Goroutine, CaptureConnection(p) \/ CheckSnapshot(p) \/
     WriteSnapshot(p)
      PROVE  LocalTypes'
  BY <1>1, <1>2, <1>15, SMTT(60) DEF CaptureConnection, Goto, Home, shared, mutexes, network,
       CheckSnapshot, Forget, WriteSnapshot, Disconnect
<1>16. ASSUME NEW p \in Goroutine, MarkDisconnected(p) \/ CloseMarked(p)
      PROVE  LocalTypes'
  BY <1>1, <1>2, <1>16, ZenonT(60) DEF MarkDisconnected, Goto, mutexes, network, CloseMarked, Forget
<1>17. ASSUME NEW c \in Connection, ReadError(c)
      PROVE  LocalTypes'
  BY <1>1, <1>2, <1>17 DEF ReadError, Disconnect, shared, mutexes, network
<1>18. ASSUME NEW c \in Connection, ReadMessage(c)
      PROVE  LocalTypes'
  BY <1>1, <1>2, <1>18, SMTT(60) DEF ReadMessage, Goto, shared, mutexes
<1>19. ASSUME NEW c \in Connection, Answer(c)
      PROVE  LocalTypes'
  BY <1>1, <1>2, <1>19 DEF Answer, Goto, Disconnect, shared, mutexes, network
<1>20. ASSUME NEW c \in Connection, CheckOnline(c)
      PROVE  LocalTypes'
  BY <1>1, <1>2, <1>20 DEF CheckOnline, Goto, shared, mutexes, network
<1>21. ASSUME NEW c \in Connection, FlushNext(c)
      PROVE  LocalTypes'
  <2>1. queue # <<>> => Head(queue) \in Message
    BY <1>1
  <2> QED BY <1>1, <1>21, <2>1, ZenonT(60) DEF FlushNext, Goto
<1>22. ASSUME NEW c \in Connection, FlushWrite(c)
      PROVE  LocalTypes'
  <2>1. hand' \in [Goroutine -> Message \union {0}]
    BY <1>1, <1>22 DEF FlushWrite
  <2> QED BY <1>1, <1>22, <2>1 DEF FlushWrite, Goto, Disconnect
<1>23. ASSUME NEW c \in Connection, LockFlush(c) \/ FlushPop(c) \/ UnlockFlush(c)
      PROVE  LocalTypes'
  BY <1>1, <1>2, <1>23, SMTT(60) DEF LockFlush, Goto, shared, network, FlushPop, mutexes,
       UnlockFlush
<1>24. ASSUME NEW c \in Connection, Break(c) \/ Forward(c) \/ AnswerSync1(c)
      PROVE  LocalTypes'
  BY <1>1, <1>2, <1>24, SMTT(60) DEF Break, shared, mutexes, locals, Forward, AnswerSync1
<1>25. CASE UNCHANGED vars
  BY <1>1, <1>2, <1>25 DEF vars, shared, mutexes, locals, network
<1> QED BY <1>3, <1>4, <1>5, <1>6, <1>7, <1>8, <1>9, <1>10, <1>11, <1>12, <1>13, <1>14,
     <1>15, <1>16, <1>17, <1>18, <1>19, <1>20, <1>21, <1>22, <1>23, <1>24, <1>25, Steps

LEMMA NetworkStep ==
  ASSUME Inv, [Next]_vars
  PROVE  NetworkTypes'
<1> USE DEF Goroutine, Connection, Loop, User, None, NetworkTypes, UserHandInv
<1>1. /\ pc \in [Goroutine -> Label]
      /\ on \in [Goroutine -> Connection \union {None}]
      /\ hand \in [Goroutine -> Message \union {0}]
      /\ queue \in Seq(Message)
      /\ alive \subseteq 1..dialed
      /\ sent \in [Connection -> Seq(Message)]
      /\ typed \in 0..MaxMessages
      /\ dialed \in 0..MaxConnections
      /\ asked \in [Connection -> BOOLEAN]
      /\ inbox \in [Connection -> Seq({"live", "sync1", "sync2"})]
      /\ remote \in 0..MaxRemote
      /\ MaxConnections \in Nat
      /\ MaxMessages \in Nat
      /\ MaxRemote \in Nat
      /\ RemoteKinds \subseteq {"live", "sync1", "sync2"}
  BY GoClientAssumption DEF Inv, TypeOK, SharedTypes, LocalTypes, NetworkTypes
<1>2. UserHandInv /\ FlushHandInv
  BY DEF Inv
<1>3. CASE SendOrQueue
  BY <1>1, <1>2, <1>3 DEF SendOrQueue, Goto, mutexes, network
<1>4. CASE WriteMessage
  <2>1. sent' \in [Connection -> Seq(Message)]
    <3>1. hand[User] \in Message
      BY <1>1, <1>2, <1>4 DEF WriteMessage
    <3>2. CASE on[User] \in alive
      <4>1. on[User] \in Connection /\ Append(sent[on[User]], hand[User]) \in Seq(Message)
        BY <1>1, <3>1, <3>2, MessageSequences
      <4>2. sent' = [sent EXCEPT ![on[User]] = Append(sent[on[User]], hand[User])]
        BY <3>2, <1>4 DEF WriteMessage
      <4> QED BY <1>1, <4>1, <4>2
    <3>3. CASE on[User] \notin alive
      BY <1>1, <3>3, <1>4 DEF WriteMessage
    <3> QED BY <3>2, <3>3
  <2> QED BY <1>1, <1>4, <2>1 DEF WriteMessage
<1>5. CASE Stop
  BY <1>1, <1>2, <1>5 DEF Stop, Goto, Forget, mutexes
<1>6. CASE Start \/ Close \/ EnqueueOffline \/ GetState
  BY <1>1, <1>2, <1>6 DEF Start, mutexes, network, Close, Goto, EnqueueOffline,
       Disconnect, GetState, shared
<1>7. CASE Dial
  BY <1>1, <1>2, <1>7 DEF Dial, Goto, shared, mutexes
<1>8. CASE InstallConnection
  BY <1>1, <1>2, <1>8 DEF InstallConnection, Goto, Forget, mutexes
<1>9. CASE SendSync1
  BY <1>1, <1>2, <1>9 DEF SendSync1, Goto, Disconnect, Forget, shared, mutexes
<1>10. CASE AwaitSignal \/ BeginReconnect \/ DialFails \/ Wait
  BY <1>1, <1>2, <1>10 DEF AwaitSignal, Goto, mutexes, network, BeginReconnect, DialFails,
       Wait, shared
<1>11. ASSUME NEW p \in Goroutine, CaptureConnection(p) \/ CheckSnapshot(p) \/
     WriteSnapshot(p)
      PROVE  NetworkTypes'
  BY <1>1, <1>2, <1>11 DEF CaptureConnection, Goto, Home, shared, mutexes, network,
       CheckSnapshot, Forget, WriteSnapshot, Disconnect
<1>12. ASSUME NEW p \in Goroutine, MarkDisconnected(p) \/ CloseMarked(p)
      PROVE  NetworkTypes'
  BY <1>1, <1>2, <1>12 DEF MarkDisconnected, Goto, mutexes, network, CloseMarked, Forget
<1>13. ASSUME NEW c \in Connection, ReadMessage(c)
      PROVE  NetworkTypes'
  BY <1>1, <1>2, <1>13 DEF ReadMessage, Goto, shared, mutexes
<1>14. ASSUME NEW c \in Connection, ReadError(c) \/ CheckOnline(c) \/ Answer(c)
      PROVE  NetworkTypes'
  BY <1>1, <1>2, <1>14 DEF ReadError, Disconnect, shared, mutexes, network, CheckOnline,
       Goto, Answer
<1>15. ASSUME NEW c \in Connection, FlushWrite(c)
      PROVE  NetworkTypes'
  <2>1. sent' \in [Connection -> Seq(Message)]
    <3>1. hand[c] \in Message
      BY <1>1, <1>2, <1>15, MessageSequences DEF FlushWrite, FlushHandInv
    <3>2. Append(sent[c], hand[c]) \in Seq(Message)
      BY <1>1, <3>1, MessageSequences
    <3>3. sent' = sent \/ sent' = [sent EXCEPT ![c] = Append(sent[c], hand[c])]
      BY <1>15 DEF FlushWrite
    <3> QED BY <1>1, <3>2, <3>3
  <2> QED BY <1>1, <1>15, <2>1 DEF FlushWrite
<1>16. ASSUME NEW c \in Connection, LockFlush(c) \/ FlushNext(c) \/ FlushPop(c) \/
     UnlockFlush(c)
      PROVE  NetworkTypes'
  BY <1>1, <1>2, <1>16 DEF LockFlush, Goto, shared, network, FlushNext, mutexes, FlushPop,
       UnlockFlush
<1>17. ASSUME NEW c \in Connection, Break(c)
      PROVE  NetworkTypes'
  BY <1>1, <1>2, <1>17 DEF Break, shared, mutexes, locals
<1>18. ASSUME NEW c \in Connection, Forward(c)
      PROVE  NetworkTypes'
  BY <1>1, <1>2, <1>18 DEF Forward, shared, mutexes, locals
<1>19. ASSUME NEW c \in Connection, AnswerSync1(c)
      PROVE  NetworkTypes'
  BY <1>1, <1>2, <1>19 DEF AnswerSync1, shared, mutexes, locals
<1>20. CASE UNCHANGED vars
  BY <1>1, <1>2, <1>20 DEF vars, shared, mutexes, locals, network
<1> QED BY <1>3, <1>4, <1>5, <1>6, <1>7, <1>8, <1>9, <1>10, <1>11, <1>12, <1>13, <1>14,
     <1>15, <1>16, <1>17, <1>18, <1>19, <1>20, Steps

-----------------------------------------------------------------------------
\* Where the goroutines are, and what follows from it for the state of the client.

LEMMA BackStep ==
  ASSUME Inv, [Next]_vars
  PROVE  BackInv'
<1> USE DEF Goroutine, Connection, Loop, User, None, Label, Returns, BackInv, DialedInv,
     LifeInv
<1>1. /\ pc \in [Goroutine -> Label]
      /\ on \in [Goroutine -> Connection \union {None}]
      /\ back \in [Goroutine -> Label]
      /\ MaxConnections \in Nat
      /\ MaxMessages \in Nat
  BY GoClientAssumption DEF Inv, TypeOK, SharedTypes, LocalTypes, NetworkTypes
<1>2. BackInv /\ DialedInv /\ LifeInv
  BY DEF Inv
<1>3. CASE Start \/ SendOrQueue \/ Close \/ WriteMessage \/ EnqueueOffline \/ GetState \/
     Stop
  BY <1>1, <1>2, <1>3 DEF Start, mutexes, network, SendOrQueue, Goto, Close, WriteMessage,
       Forget, shared, EnqueueOffline, Disconnect, GetState, Stop
<1>4. CASE AwaitSignal \/ BeginReconnect \/ Dial \/ DialFails \/ InstallConnection \/ Wait
     \/ SendSync1
  BY <1>1, <1>2, <1>4 DEF AwaitSignal, Goto, mutexes, network, BeginReconnect, Dial,
       shared, DialFails, InstallConnection, Forget, Wait, SendSync1, Disconnect
<1>5. ASSUME NEW p \in Goroutine, CaptureConnection(p) \/ CheckSnapshot(p) \/
     WriteSnapshot(p)
      PROVE  BackInv'
  BY <1>1, <1>2, <1>5 DEF CaptureConnection, Goto, Home, shared, mutexes, network,
       CheckSnapshot, Forget, WriteSnapshot, Disconnect
<1>6. ASSUME NEW p \in Goroutine, MarkDisconnected(p) \/ CloseMarked(p)
      PROVE  BackInv'
  BY <1>1, <1>2, <1>6 DEF MarkDisconnected, Goto, mutexes, network, CloseMarked, Forget
<1>7. ASSUME NEW c \in Connection, ReadError(c) \/ ReadMessage(c) \/ CheckOnline(c) \/
     Answer(c)
      PROVE  BackInv'
  BY <1>1, <1>2, <1>7, SMTT(60) DEF ReadError, Disconnect, shared, mutexes, network, ReadMessage,
       Goto, CheckOnline, Answer
<1>8. ASSUME NEW c \in Connection, LockFlush(c) \/ FlushNext(c) \/ FlushWrite(c) \/
     FlushPop(c) \/ UnlockFlush(c)
      PROVE  BackInv'
  BY <1>1, <1>2, <1>8, SMTT(60) DEF LockFlush, Goto, shared, network, FlushNext, mutexes,
       FlushWrite, Disconnect, FlushPop, UnlockFlush
<1>9. ASSUME NEW c \in Connection, Break(c) \/ Forward(c) \/ AnswerSync1(c)
      PROVE  BackInv'
  BY <1>1, <1>2, <1>9 DEF Break, shared, mutexes, locals, Forward, AnswerSync1
<1>10. CASE UNCHANGED vars
  BY <1>1, <1>2, <1>10 DEF vars, shared, mutexes, locals, network
<1> QED BY <1>3, <1>4, <1>5, <1>6, <1>7, <1>8, <1>9, <1>10, Steps

LEMMA LifeStep ==
  ASSUME Inv, [Next]_vars
  PROVE  LifeInv'
<1> USE DEF Goroutine, Connection, Loop, User, None, Returns, BackInv, LifeInv
<1>1. /\ pc \in [Goroutine -> Label]
      /\ back \in [Goroutine -> Label]
      /\ MaxConnections \in Nat
      /\ MaxMessages \in Nat
  BY GoClientAssumption DEF Inv, TypeOK, SharedTypes, LocalTypes, NetworkTypes
<1>2. BackInv /\ LifeInv
  BY DEF Inv
<1>3. CASE Start \/ SendOrQueue \/ Close \/ WriteMessage \/ EnqueueOffline \/ GetState \/
     Stop
  BY <1>1, <1>2, <1>3 DEF Start, mutexes, network, SendOrQueue, Goto, Close, WriteMessage,
       Forget, shared, EnqueueOffline, Disconnect, GetState, Stop
<1>4. CASE AwaitSignal \/ BeginReconnect \/ Dial \/ DialFails \/ InstallConnection \/ Wait
     \/ SendSync1
  BY <1>1, <1>2, <1>4 DEF AwaitSignal, Goto, mutexes, network, BeginReconnect, Dial,
       shared, DialFails, InstallConnection, Forget, Wait, SendSync1, Disconnect
<1>5. ASSUME NEW p \in Goroutine, CaptureConnection(p) \/ CheckSnapshot(p) \/
     WriteSnapshot(p)
      PROVE  LifeInv'
  BY <1>1, <1>2, <1>5 DEF CaptureConnection, Goto, Home, shared, mutexes, network,
       CheckSnapshot, Forget, WriteSnapshot, Disconnect
<1>6. ASSUME NEW p \in Goroutine, MarkDisconnected(p) \/ CloseMarked(p)
      PROVE  LifeInv'
  BY <1>1, <1>2, <1>6 DEF MarkDisconnected, Goto, mutexes, network, CloseMarked, Forget
<1>7. ASSUME NEW c \in Connection, ReadError(c) \/ ReadMessage(c) \/ CheckOnline(c) \/
     Answer(c)
      PROVE  LifeInv'
  BY <1>1, <1>2, <1>7 DEF ReadError, Disconnect, shared, mutexes, network, ReadMessage,
       Goto, CheckOnline, Answer
<1>8. ASSUME NEW c \in Connection, LockFlush(c) \/ FlushNext(c) \/ FlushWrite(c) \/
     FlushPop(c) \/ UnlockFlush(c)
      PROVE  LifeInv'
  BY <1>1, <1>2, <1>8 DEF LockFlush, Goto, shared, network, FlushNext, mutexes,
       FlushWrite, Disconnect, FlushPop, UnlockFlush
<1>9. ASSUME NEW c \in Connection, Break(c) \/ Forward(c) \/ AnswerSync1(c)
      PROVE  LifeInv'
  BY <1>1, <1>2, <1>9 DEF Break, shared, mutexes, locals, Forward, AnswerSync1
<1>10. CASE UNCHANGED vars
  BY <1>1, <1>2, <1>10 DEF vars, shared, mutexes, locals, network
<1> QED BY <1>3, <1>4, <1>5, <1>6, <1>7, <1>8, <1>9, <1>10, Steps

LEMMA DialedStep ==
  ASSUME Inv, [Next]_vars
  PROVE  DialedInv'
<1> USE DEF Goroutine, Connection, Loop, User, None, Returns, Label, DialedInv, BackInv
<1>1. /\ pc \in [Goroutine -> Label]
      /\ on \in [Goroutine -> Connection \union {None}]
      /\ back \in [Goroutine -> Label]
      /\ dialed \in 0..MaxConnections
      /\ MaxConnections \in Nat
      /\ MaxMessages \in Nat
  BY GoClientAssumption DEF Inv, TypeOK, SharedTypes, LocalTypes, NetworkTypes
<1>2. DialedInv /\ BackInv
  BY DEF Inv
<1>3. CASE Start \/ SendOrQueue \/ Close \/ WriteMessage \/ EnqueueOffline \/ GetState \/
     Stop
  BY <1>1, <1>2, <1>3 DEF Start, mutexes, network, SendOrQueue, Goto, Close, WriteMessage,
       Forget, shared, EnqueueOffline, Disconnect, GetState, Stop
<1>4. CASE AwaitSignal \/ BeginReconnect \/ Dial \/ DialFails \/ InstallConnection \/ Wait
     \/ SendSync1
  BY <1>1, <1>2, <1>4 DEF AwaitSignal, Goto, mutexes, network, BeginReconnect, Dial,
       shared, DialFails, InstallConnection, Forget, Wait, SendSync1, Disconnect
<1>5. ASSUME NEW p \in Goroutine, CaptureConnection(p) \/ CheckSnapshot(p) \/
     WriteSnapshot(p)
      PROVE  DialedInv'
  BY <1>1, <1>2, <1>5 DEF CaptureConnection, Goto, Home, shared, mutexes, network,
       CheckSnapshot, Forget, WriteSnapshot, Disconnect
<1>6. ASSUME NEW p \in Goroutine, MarkDisconnected(p) \/ CloseMarked(p)
      PROVE  DialedInv'
  BY <1>1, <1>2, <1>6 DEF MarkDisconnected, Goto, mutexes, network, CloseMarked, Forget
<1>7. ASSUME NEW c \in Connection, ReadError(c) \/ ReadMessage(c) \/ CheckOnline(c) \/
     Answer(c)
      PROVE  DialedInv'
  BY <1>1, <1>2, <1>7 DEF ReadError, Disconnect, shared, mutexes, network, ReadMessage,
       Goto, CheckOnline, Answer
<1>8. ASSUME NEW c \in Connection, LockFlush(c) \/ FlushNext(c) \/ FlushWrite(c) \/
     FlushPop(c) \/ UnlockFlush(c)
      PROVE  DialedInv'
  BY <1>1, <1>2, <1>8 DEF LockFlush, Goto, shared, network, FlushNext, mutexes,
       FlushWrite, Disconnect, FlushPop, UnlockFlush
<1>9. ASSUME NEW c \in Connection, Break(c) \/ Forward(c) \/ AnswerSync1(c)
      PROVE  DialedInv'
  BY <1>1, <1>2, <1>9 DEF Break, shared, mutexes, locals, Forward, AnswerSync1
<1>10. CASE UNCHANGED vars
  BY <1>1, <1>2, <1>10 DEF vars, shared, mutexes, locals, network
<1> QED BY <1>3, <1>4, <1>5, <1>6, <1>7, <1>8, <1>9, <1>10, Steps

LEMMA FlushStep ==
  ASSUME Inv, [Next]_vars
  PROVE  FlushInv'
<1> USE DEF Goroutine, Connection, Loop, User, None, Returns, BackInv, Label, FlushInv,
     FlushSection
<1>1. /\ pc \in [Goroutine -> Label]
      /\ back \in [Goroutine -> Label]
      /\ inbox \in [Connection -> Seq({"live", "sync1", "sync2"})]
      /\ MaxConnections \in Nat
      /\ MaxMessages \in Nat
  BY GoClientAssumption DEF Inv, TypeOK, SharedTypes, LocalTypes, NetworkTypes
<1>2. FlushInv /\ BackInv
  BY DEF Inv
<1>3. CASE Start \/ SendOrQueue \/ Close \/ WriteMessage \/ EnqueueOffline \/ GetState \/
     Stop
  BY <1>1, <1>2, <1>3 DEF Start, mutexes, network, SendOrQueue, Goto, Close, WriteMessage,
       Forget, shared, EnqueueOffline, Disconnect, GetState, Stop
<1>4. CASE AwaitSignal \/ BeginReconnect \/ Dial \/ DialFails \/ InstallConnection \/ Wait
     \/ SendSync1
  BY <1>1, <1>2, <1>4 DEF AwaitSignal, Goto, mutexes, network, BeginReconnect, Dial,
       shared, DialFails, InstallConnection, Forget, Wait, SendSync1, Disconnect
<1>5. ASSUME NEW p \in Goroutine, CaptureConnection(p) \/ CheckSnapshot(p) \/
     WriteSnapshot(p)
      PROVE  FlushInv'
  BY <1>1, <1>2, <1>5 DEF CaptureConnection, Goto, Home, shared, mutexes, network,
       CheckSnapshot, Forget, WriteSnapshot, Disconnect
<1>6. ASSUME NEW p \in Goroutine, MarkDisconnected(p) \/ CloseMarked(p)
      PROVE  FlushInv'
  BY <1>1, <1>2, <1>6, ZenonT(60) DEF MarkDisconnected, Goto, mutexes, network, CloseMarked, Forget
<1>7. ASSUME NEW c \in Connection, ReadError(c) \/ ReadMessage(c) \/ CheckOnline(c) \/
     Answer(c)
      PROVE  FlushInv'
  BY <1>1, <1>2, <1>7 DEF ReadError, Disconnect, shared, mutexes, network, ReadMessage,
       Goto, CheckOnline, Answer
<1>8. ASSUME NEW c \in Connection, LockFlush(c)
      PROVE  FlushInv'
  BY <1>1, <1>2, <1>8 DEF LockFlush, Goto, shared, network
<1>9. ASSUME NEW c \in Connection, FlushNext(c)
      PROVE  FlushInv'
  BY <1>1, <1>2, <1>9 DEF FlushNext, Goto, mutexes, network
<1>10. ASSUME NEW c \in Connection, FlushWrite(c)
      PROVE  FlushInv'
  BY <1>1, <1>2, <1>10 DEF FlushWrite, Goto, Disconnect, shared, mutexes
<1>11. ASSUME NEW c \in Connection, FlushPop(c)
      PROVE  FlushInv'
  BY <1>1, <1>2, <1>11 DEF FlushPop, Goto, mutexes, network
<1>12. ASSUME NEW c \in Connection, UnlockFlush(c)
      PROVE  FlushInv'
  BY <1>1, <1>2, <1>12 DEF UnlockFlush, Goto, shared, network
<1>13. ASSUME NEW c \in Connection, Break(c) \/ Forward(c) \/ AnswerSync1(c)
      PROVE  FlushInv'
  BY <1>1, <1>2, <1>13 DEF Break, shared, mutexes, locals, Forward, AnswerSync1
<1>14. CASE UNCHANGED vars
  BY <1>1, <1>2, <1>14 DEF vars, shared, mutexes, locals, network
<1> QED BY <1>3, <1>4, <1>5, <1>6, <1>7, <1>8, <1>9, <1>10, <1>11, <1>12, <1>13, <1>14,
     Steps

LEMMA MatchStep ==
  ASSUME Inv, [Next]_vars
  PROVE  ConnectionMatchesState'
<1> USE DEF Goroutine, Connection, Loop, User, None, ConnectionMatchesState, DialedInv,
     LifeInv
<1>1. /\ pc \in [Goroutine -> Label]
      /\ on \in [Goroutine -> Connection \union {None}]
      /\ conn \in Connection \union {None}
      /\ MaxConnections \in Nat
      /\ MaxMessages \in Nat
  BY GoClientAssumption DEF Inv, TypeOK, SharedTypes, LocalTypes, NetworkTypes
<1>2. ConnectionMatchesState /\ DialedInv /\ LifeInv
  BY DEF Inv
<1>3. CASE Start \/ SendOrQueue \/ Close \/ WriteMessage \/ EnqueueOffline \/ GetState \/
     Stop
  BY <1>1, <1>2, <1>3 DEF Start, mutexes, network, SendOrQueue, Goto, Close, WriteMessage,
       Forget, shared, EnqueueOffline, Disconnect, GetState, Stop
<1>4. CASE AwaitSignal \/ BeginReconnect \/ Dial \/ DialFails \/ InstallConnection \/ Wait
     \/ SendSync1
  BY <1>1, <1>2, <1>4 DEF AwaitSignal, Goto, mutexes, network, BeginReconnect, Dial,
       shared, DialFails, InstallConnection, Forget, Wait, SendSync1, Disconnect
<1>5. ASSUME NEW p \in Goroutine, CaptureConnection(p) \/ CheckSnapshot(p) \/
     WriteSnapshot(p)
      PROVE  ConnectionMatchesState'
  BY <1>1, <1>2, <1>5 DEF CaptureConnection, Goto, Home, shared, mutexes, network,
       CheckSnapshot, Forget, WriteSnapshot, Disconnect
<1>6. ASSUME NEW p \in Goroutine, MarkDisconnected(p) \/ CloseMarked(p)
      PROVE  ConnectionMatchesState'
  BY <1>1, <1>2, <1>6 DEF MarkDisconnected, Goto, mutexes, network, CloseMarked, Forget
<1>7. ASSUME NEW c \in Connection, ReadError(c) \/ ReadMessage(c) \/ CheckOnline(c) \/
     Answer(c)
      PROVE  ConnectionMatchesState'
  BY <1>1, <1>2, <1>7 DEF ReadError, Disconnect, shared, mutexes, network, ReadMessage,
       Goto, CheckOnline, Answer
<1>8. ASSUME NEW c \in Connection, LockFlush(c) \/ FlushNext(c) \/ FlushWrite(c) \/
     FlushPop(c) \/ UnlockFlush(c)
      PROVE  ConnectionMatchesState'
  BY <1>1, <1>2, <1>8 DEF LockFlush, Goto, shared, network, FlushNext, mutexes,
       FlushWrite, Disconnect, FlushPop, UnlockFlush
<1>9. ASSUME NEW c \in Connection, Break(c) \/ Forward(c) \/ AnswerSync1(c)
      PROVE  ConnectionMatchesState'
  BY <1>1, <1>2, <1>9 DEF Break, shared, mutexes, locals, Forward, AnswerSync1
<1>10. CASE UNCHANGED vars
  BY <1>1, <1>2, <1>10 DEF vars, shared, mutexes, locals, network
<1> QED BY <1>3, <1>4, <1>5, <1>6, <1>7, <1>8, <1>9, <1>10, Steps

LEMMA WakeStep ==
  ASSUME Inv, [Next]_vars
  PROVE  WakeUpPending'
<1> USE DEF Goroutine, Connection, Loop, User, None, Returns, BackInv, WakeUpPending,
     ConnectionMatchesState, LifeInv
<1>1. /\ pc \in [Goroutine -> Label]
      /\ back \in [Goroutine -> Label]
      /\ MaxConnections \in Nat
      /\ MaxMessages \in Nat
  BY GoClientAssumption DEF Inv, TypeOK, SharedTypes, LocalTypes, NetworkTypes
<1>2. WakeUpPending /\ ConnectionMatchesState /\ LifeInv /\ BackInv
  BY DEF Inv
<1>3. CASE Start \/ SendOrQueue \/ Close \/ WriteMessage \/ EnqueueOffline \/ GetState \/
     Stop
  BY <1>1, <1>2, <1>3 DEF Start, mutexes, network, SendOrQueue, Goto, Close, WriteMessage,
       Forget, shared, EnqueueOffline, Disconnect, GetState, Stop
<1>4. CASE AwaitSignal \/ BeginReconnect \/ Dial \/ DialFails \/ InstallConnection \/ Wait
     \/ SendSync1
  BY <1>1, <1>2, <1>4 DEF AwaitSignal, Goto, mutexes, network, BeginReconnect, Dial,
       shared, DialFails, InstallConnection, Forget, Wait, SendSync1, Disconnect
<1>5. ASSUME NEW p \in Goroutine, CaptureConnection(p) \/ CheckSnapshot(p) \/
     WriteSnapshot(p)
      PROVE  WakeUpPending'
  BY <1>1, <1>2, <1>5 DEF CaptureConnection, Goto, Home, shared, mutexes, network,
       CheckSnapshot, Forget, WriteSnapshot, Disconnect
<1>6. ASSUME NEW p \in Goroutine, MarkDisconnected(p) \/ CloseMarked(p)
      PROVE  WakeUpPending'
  BY <1>1, <1>2, <1>6 DEF MarkDisconnected, Goto, mutexes, network, CloseMarked, Forget
<1>7. ASSUME NEW c \in Connection, ReadError(c) \/ ReadMessage(c) \/ CheckOnline(c) \/
     Answer(c)
      PROVE  WakeUpPending'
  BY <1>1, <1>2, <1>7 DEF ReadError, Disconnect, shared, mutexes, network, ReadMessage,
       Goto, CheckOnline, Answer
<1>8. ASSUME NEW c \in Connection, LockFlush(c) \/ FlushNext(c) \/ FlushWrite(c) \/
     FlushPop(c) \/ UnlockFlush(c)
      PROVE  WakeUpPending'
  BY <1>1, <1>2, <1>8 DEF LockFlush, Goto, shared, network, FlushNext, mutexes,
       FlushWrite, Disconnect, FlushPop, UnlockFlush
<1>9. ASSUME NEW c \in Connection, Break(c) \/ Forward(c) \/ AnswerSync1(c)
      PROVE  WakeUpPending'
  BY <1>1, <1>2, <1>9 DEF Break, shared, mutexes, locals, Forward, AnswerSync1
<1>10. CASE UNCHANGED vars
  BY <1>1, <1>2, <1>10 DEF vars, shared, mutexes, locals, network
<1> QED BY <1>3, <1>4, <1>5, <1>6, <1>7, <1>8, <1>9, <1>10, Steps

-----------------------------------------------------------------------------
\* Connections: one that is in somebody's hands or is Conn stays so until it is closed.

Kept ==
  \A d \in alive' :
    /\ d \in alive
    /\ conn = d => conn' = d \/ \E q \in Goroutine : InHand(q, d)'
    /\ \A q \in Goroutine : InHand(q, d) => InHand(q, d)' \/ conn' = d

LEMMA KeptStep ==
  ASSUME Inv, [Next]_vars
  PROVE  Dial \/ Kept
<1> USE DEF Goroutine, Connection, Loop, User, None, ConnectionMatchesState, DialedInv,
     LifeInv, BackInv, Returns, Kept, InHand
<1>1. /\ pc \in [Goroutine -> Label]
      /\ on \in [Goroutine -> Connection \union {None}]
      /\ conn \in Connection \union {None}
      /\ back \in [Goroutine -> Label]
      /\ dialed \in 0..MaxConnections
      /\ alive \subseteq 1..dialed
      /\ MaxConnections \in Nat
      /\ MaxMessages \in Nat
  BY GoClientAssumption DEF Inv, TypeOK, SharedTypes, LocalTypes, NetworkTypes
<1>2. ConnectionMatchesState /\ DialedInv /\ LifeInv /\ BackInv
  BY DEF Inv
<1>3. CASE Start
  BY <1>1, <1>2, <1>3 DEF Start, mutexes, network
<1>4. CASE Close
  BY <1>1, <1>2, <1>4 DEF Close, Goto, mutexes, network
<1>5. CASE WriteMessage
  BY <1>1, <1>2, <1>5 DEF WriteMessage, Goto, Forget, shared, mutexes
<1>6. CASE EnqueueOffline
  BY <1>1, <1>2, <1>6 DEF EnqueueOffline, Disconnect, mutexes, network
<1>7. CASE Stop
  BY <1>1, <1>2, <1>7 DEF Stop, Goto, Forget, mutexes
<1>8. CASE SendOrQueue \/ GetState
  BY <1>1, <1>2, <1>8 DEF SendOrQueue, Goto, mutexes, network, GetState, shared
<1>9. CASE AwaitSignal \/ BeginReconnect \/ DialFails \/ InstallConnection \/ Wait \/
     SendSync1
  BY <1>1, <1>2, <1>9 DEF AwaitSignal, Goto, mutexes, network, BeginReconnect, DialFails,
       InstallConnection, Forget, Wait, shared, SendSync1, Disconnect
<1>10. ASSUME NEW p \in Goroutine, CaptureConnection(p) \/ CheckSnapshot(p) \/
     WriteSnapshot(p)
      PROVE  Kept
  BY <1>1, <1>2, <1>10 DEF CaptureConnection, Goto, Home, shared, mutexes, network,
       CheckSnapshot, Forget, WriteSnapshot, Disconnect
<1>11. ASSUME NEW p \in Goroutine, MarkDisconnected(p) \/ CloseMarked(p)
      PROVE  Kept
  BY <1>1, <1>2, <1>11 DEF MarkDisconnected, Goto, mutexes, network, CloseMarked, Forget
<1>12. ASSUME NEW c \in Connection, ReadError(c) \/ ReadMessage(c) \/ CheckOnline(c) \/
     Answer(c)
      PROVE  Kept
  BY <1>1, <1>2, <1>12 DEF ReadError, Disconnect, shared, mutexes, network, ReadMessage,
       Goto, CheckOnline, Answer
<1>13. ASSUME NEW c \in Connection, LockFlush(c) \/ FlushNext(c) \/ FlushWrite(c) \/
     FlushPop(c) \/ UnlockFlush(c)
      PROVE  Kept
  BY <1>1, <1>2, <1>13 DEF LockFlush, Goto, shared, network, FlushNext, mutexes,
       FlushWrite, Disconnect, FlushPop, UnlockFlush
<1>14. ASSUME NEW c \in Connection, Break(c) \/ Forward(c) \/ AnswerSync1(c)
      PROVE  Kept
  BY <1>1, <1>2, <1>14 DEF Break, shared, mutexes, locals, Forward, AnswerSync1
<1>15. CASE UNCHANGED vars
  BY <1>1, <1>2, <1>15 DEF vars, shared, mutexes, locals, network
<1> QED BY <1>3, <1>4, <1>5, <1>6, <1>7, <1>8, <1>9, <1>10, <1>11, <1>12, <1>13, <1>14,
     <1>15, Steps

LEMMA LeakStep ==
  ASSUME Inv, [Next]_vars
  PROVE  NoConnectionLeaks'
<1>1. NoConnectionLeaks
  BY DEF Inv
<1>2. CASE Kept
  BY <1>1, <1>2 DEF Kept, NoConnectionLeaks
<1>3. CASE Dial
  <2>1. /\ pc \in [Goroutine -> Label]
        /\ on \in [Goroutine -> Connection \union {None}]
        /\ Loop \in Goroutine
    BY DEF Inv, TypeOK, LocalTypes, Goroutine
  <2>2. \A d : d = dialed' => InHand(Loop, d)'
    BY <1>3, <2>1 DEF Dial, Goto, InHand
  <2>3. \A d \in alive, q \in Goroutine : InHand(q, d) => InHand(q, d)'
    BY <1>3, <2>1 DEF Dial, Goto, InHand
  <2>4. alive' = alive \union {dialed'} /\ conn' = conn
    BY <1>3 DEF Dial, shared
  <2> QED BY <1>1, <2>1, <2>2, <2>3, <2>4 DEF NoConnectionLeaks
<1> QED BY <1>2, <1>3, KeptStep

-----------------------------------------------------------------------------
\* Messages.

\* Only six actions have to do with the messages.
MessagesKept ==
  /\ UNCHANGED <<queue, sent, typed, hand>>
  /\ \A d \in Connection : pc[d] \in Flushing \/ pc'[d] \in Flushing => pc'[d] = pc[d]

LEMMA MessageSteps ==
  ASSUME Inv, [Next]_vars
  PROVE  \/ MessagesKept \/ SendOrQueue \/ WriteMessage \/ EnqueueOffline
         \/ \E c \in Connection : FlushNext(c) \/ FlushWrite(c) \/ FlushPop(c)
<1> USE DEF Goroutine, Connection, Loop, User, None, Returns, BackInv, MessagesKept, Flushing
<1>1. /\ pc \in [Goroutine -> Label]
      /\ back \in [Goroutine -> Label]
      /\ inbox \in [Connection -> Seq({"live", "sync1", "sync2"})]
      /\ MaxConnections \in Nat
      /\ MaxMessages \in Nat
  BY GoClientAssumption DEF Inv, TypeOK, SharedTypes, LocalTypes, NetworkTypes
<1>2. BackInv
  BY DEF Inv
<1>3. CASE Start \/ Close \/ GetState \/ Stop
  <2>1. UNCHANGED <<queue, sent, typed, hand>>
    BY <1>3 DEF Start, network, Close, GetState, shared, Stop
  <2>2. User \notin Connection /\ Loop \notin Connection /\ Connection \subseteq Goroutine
    BY <1>1
  <2> HIDE DEF Connection, Goroutine, User, Loop, None
  <2>3. \A d \in Connection : pc'[d] = pc[d]
    BY <1>1, <2>2, <1>3 DEF Start, Close, Goto, GetState, Stop
  <2> QED BY <2>1, <2>3
<1>4. CASE AwaitSignal \/ BeginReconnect \/ Dial \/ DialFails \/ InstallConnection \/ Wait
     \/ SendSync1
  <2>1. UNCHANGED <<queue, sent, typed, hand>>
    BY <1>4 DEF AwaitSignal, network, BeginReconnect, Dial, shared, DialFails,
       InstallConnection, Wait, SendSync1
  <2>2. Loop \notin Connection /\ Loop \in Goroutine /\ Connection \subseteq Goroutine
    BY <1>1
  <2>3. pc[Loop] = "install" => on[Loop] \in Connection /\ pc[on[Loop]] = "off"
    BY DEF Inv, DialedInv
  <2> HIDE DEF Connection, Goroutine, User, Loop, None
  <2>4. \A d \in Connection : pc'[d] = pc[d] \/ (pc[d] = "off" /\ pc'[d] = "read")
    <3>1. CASE InstallConnection
      BY <1>1, <2>2, <2>3, <3>1 DEF InstallConnection, Goto
    <3>2. CASE SendSync1
      BY <1>1, <2>2, <3>2 DEF SendSync1, Goto, Disconnect
    <3> QED BY <1>1, <2>2, <1>4, <3>1, <3>2 DEF AwaitSignal, Goto, BeginReconnect,
       Dial, DialFails, Wait
  <2> QED BY <2>1, <2>4
<1>5. ASSUME NEW p \in Goroutine, CaptureConnection(p) \/ CheckSnapshot(p) \/
     WriteSnapshot(p)
      PROVE  MessagesKept
  BY <1>1, <1>2, <1>5 DEF CaptureConnection, Goto, Home, shared, mutexes, network,
       CheckSnapshot, Forget, WriteSnapshot, Disconnect
<1>6. ASSUME NEW p \in Goroutine, MarkDisconnected(p) \/ CloseMarked(p)
      PROVE  MessagesKept
  BY <1>1, <1>2, <1>6 DEF MarkDisconnected, Goto, mutexes, network, CloseMarked, Forget
<1>7. ASSUME NEW c \in Connection, ReadError(c) \/ ReadMessage(c) \/ CheckOnline(c) \/
     Answer(c)
      PROVE  MessagesKept
  BY <1>1, <1>2, <1>7 DEF ReadError, Disconnect, shared, mutexes, network, ReadMessage,
       Goto, CheckOnline, Answer
<1>8. ASSUME NEW c \in Connection, LockFlush(c) \/ UnlockFlush(c)
      PROVE  MessagesKept
  BY <1>1, <1>2, <1>8 DEF LockFlush, Goto, shared, network, UnlockFlush
<1>9. ASSUME NEW c \in Connection, Break(c) \/ Forward(c) \/ AnswerSync1(c)
      PROVE  MessagesKept
  BY <1>1, <1>2, <1>9 DEF Break, shared, mutexes, locals, Forward, AnswerSync1
<1>10. CASE UNCHANGED vars
  BY <1>1, <1>2, <1>10 DEF vars, shared, mutexes, locals, network
<1> QED BY <1>3, <1>4, <1>5, <1>6, <1>7, <1>8, <1>9, <1>10, Steps

LEMMA UserHandStep ==
  ASSUME Inv, [Next]_vars
  PROVE  UserHandInv'
<1> USE DEF Goroutine, Connection, Loop, User, None, Returns, BackInv, DialedInv,
     UserHandInv, Message
<1>1. /\ pc \in [Goroutine -> Label]
      /\ hand \in [Goroutine -> Message \union {0}]
      /\ typed \in 0..MaxMessages
      /\ MaxConnections \in Nat
      /\ MaxMessages \in Nat
  BY GoClientAssumption DEF Inv, TypeOK, SharedTypes, LocalTypes, NetworkTypes
<1>2. UserHandInv /\ BackInv /\ DialedInv
  BY DEF Inv
<1>3. CASE Start \/ SendOrQueue \/ Close \/ WriteMessage \/ EnqueueOffline \/ GetState \/
     Stop
  BY <1>1, <1>2, <1>3 DEF Start, mutexes, network, SendOrQueue, Goto, Close, WriteMessage,
       Forget, shared, EnqueueOffline, Disconnect, GetState, Stop
<1>4. CASE InstallConnection
  BY <1>1, <1>2, <1>4 DEF InstallConnection, Goto, Forget, mutexes
<1>5. CASE AwaitSignal \/ BeginReconnect \/ Dial \/ DialFails \/ Wait \/ SendSync1
  BY <1>1, <1>2, <1>5 DEF AwaitSignal, Goto, mutexes, network, BeginReconnect, Dial,
       shared, DialFails, Wait, SendSync1, Disconnect, Forget
<1>6. ASSUME NEW p \in Goroutine, CaptureConnection(p) \/ CheckSnapshot(p) \/
     WriteSnapshot(p)
      PROVE  UserHandInv'
  BY <1>1, <1>2, <1>6 DEF CaptureConnection, Goto, Home, shared, mutexes, network,
       CheckSnapshot, Forget, WriteSnapshot, Disconnect
<1>7. ASSUME NEW p \in Goroutine, MarkDisconnected(p) \/ CloseMarked(p)
      PROVE  UserHandInv'
  BY <1>1, <1>2, <1>7 DEF MarkDisconnected, Goto, mutexes, network, CloseMarked, Forget
<1>8. ASSUME NEW c \in Connection, ReadError(c) \/ ReadMessage(c) \/ CheckOnline(c) \/
     Answer(c)
      PROVE  UserHandInv'
  BY <1>1, <1>2, <1>8 DEF ReadError, Disconnect, shared, mutexes, network, ReadMessage,
       Goto, CheckOnline, Answer
<1>9. ASSUME NEW c \in Connection, LockFlush(c) \/ FlushNext(c) \/ FlushWrite(c) \/
     FlushPop(c) \/ UnlockFlush(c)
      PROVE  UserHandInv'
  BY <1>1, <1>2, <1>9 DEF LockFlush, Goto, shared, network, FlushNext, mutexes,
       FlushWrite, Disconnect, FlushPop, UnlockFlush
<1>10. ASSUME NEW c \in Connection, Break(c) \/ Forward(c) \/ AnswerSync1(c)
      PROVE  UserHandInv'
  BY <1>1, <1>2, <1>10 DEF Break, shared, mutexes, locals, Forward, AnswerSync1
<1>11. CASE UNCHANGED vars
  BY <1>1, <1>2, <1>11 DEF vars, shared, mutexes, locals, network
<1> QED BY <1>3, <1>4, <1>5, <1>6, <1>7, <1>8, <1>9, <1>10, <1>11, Steps

LEMMA FlushHandStep ==
  ASSUME Inv, [Next]_vars
  PROVE  FlushHandInv'
<1> USE DEF Goroutine, Connection, Loop, User, None
<1>1. /\ pc \in [Goroutine -> Label]
      /\ hand \in [Goroutine -> Message \union {0}]
      /\ queue \in Seq(Message)
      /\ sent \in [Connection -> Seq(Message)]
      /\ on \in [Goroutine -> Connection \union {None}] /\ alive \subseteq Connection
      /\ typed \in Nat /\ MaxConnections \in Nat /\ MaxMessages \in Nat
  BY GoClientAssumption DEF Inv, TypeOK, SharedTypes, LocalTypes, NetworkTypes
<1>2. UserHandInv /\ FlushHandInv /\ FlushInv
  BY DEF Inv
<1>3. CASE MessagesKept
  BY <1>2, <1>3 DEF MessagesKept, Flushing, FlushHandInv, Sent
<1>4. ASSUME \A d \in Connection : pc'[d] = pc[d] /\ hand'[d] = hand[d],
             queue # <<>> => queue' # <<>> /\ Head(queue') = Head(queue),
             \A m : Sent(m) => Sent(m)'
      PROVE  FlushHandInv'
  BY <1>2, <1>4 DEF FlushHandInv
<1>5. ASSUME SendOrQueue \/ EnqueueOffline
      PROVE  FlushHandInv'
  <2>1. \A d \in Connection : pc'[d] = pc[d] /\ hand'[d] = hand[d]
    <3>1. CASE SendOrQueue
      <4>1. \A d \in Connection : d # User
        BY <1>1
      <4> QED BY <1>1, <3>1, <4>1 DEF SendOrQueue, Goto
    <3>2. CASE EnqueueOffline
      BY <1>1, <3>2 DEF EnqueueOffline, Disconnect
    <3> QED BY <1>5, <3>1, <3>2
  <2>2. queue' = queue \/ \E m \in Message : queue' = Append(queue, m)
    <3>1. CASE SendOrQueue
      <4>1. typed + 1 \in Message
        BY <1>1, <3>1 DEF SendOrQueue, Message
      <4> QED BY <3>1, <4>1 DEF SendOrQueue
    <3>2. CASE EnqueueOffline
      BY <1>1, <1>2, <3>2 DEF EnqueueOffline, UserHandInv
    <3> QED BY <1>5, <3>1, <3>2
  <2>3. queue # <<>> => queue' # <<>> /\ Head(queue') = Head(queue)
    BY <1>1, <2>2, QueueGrows
  <2>4. \A m : Sent(m) => Sent(m)'
    BY <1>5 DEF SendOrQueue, EnqueueOffline, network, Sent
  <2> QED BY <1>4, <2>1, <2>3, <2>4
<1>6. CASE WriteMessage
  <2>1. \A d \in Connection : d # User
    BY <1>1
  <2>4. \A d \in Connection : pc'[d] = pc[d] /\ hand'[d] = hand[d]
    BY <1>1, <1>6, <2>1 DEF WriteMessage, Goto
  <2>2. queue' = queue
    BY <1>6 DEF WriteMessage, shared
  <2>3. \A m : Sent(m) => Sent(m)'
    BY <1>1, <1>2, <1>6, WriteSends
  <2> QED BY <1>4, <2>2, <2>3, <2>4
<1>7. ASSUME NEW c \in Connection, FlushNext(c)
      PROVE  FlushHandInv'
  <2>1. \A m : Sent(m)' = Sent(m)
    BY <1>7 DEF FlushNext, network, Sent
  <2> QED BY <1>1, <1>2, <1>7, <2>1 DEF FlushNext, Goto, FlushHandInv
<1>8. ASSUME NEW c \in Connection, FlushWrite(c)
      PROVE  FlushHandInv'
  <2>1. queue' = queue /\ queue # <<>> /\ hand[c] = Head(queue)
    BY <1>2, <1>8 DEF FlushWrite, shared, FlushHandInv
  <2>2. /\ \A m : Sent(m) => Sent(m)'
        /\ c \in alive => Sent(Head(queue))'
    BY <1>1, <1>2, <1>8, <2>1, FlushSends
  <2>3. pc'[c] = "flushPop" => c \in alive
    BY <1>1, <1>8 DEF FlushWrite, Disconnect
  <2>4. pc'[c] # "flushWrite"
    BY <1>1, <1>8 DEF FlushWrite, Goto, Disconnect
  <2>5. \A d \in Connection \ {c} : pc'[d] = pc[d] /\ hand'[d] = hand[d]
    BY <1>1, <1>8 DEF FlushWrite, Goto, Disconnect
  <2> QED BY <1>2, <2>1, <2>2, <2>3, <2>4, <2>5 DEF FlushHandInv
<1>9. ASSUME NEW c \in Connection, FlushPop(c)
      PROVE  FlushHandInv'
  <2>1. \A d \in Connection \ {c} : pc[d] \notin FlushSection
    BY <1>2, <1>9 DEF FlushPop, FlushInv, FlushSection
  <2>2. \A d \in Connection : pc'[d] \notin {"flushWrite", "flushPop"}
    BY <1>1, <1>9, <2>1 DEF FlushPop, Goto, FlushSection
  <2> QED BY <2>2 DEF FlushHandInv
<1> QED BY <1>3, <1>5, <1>6, <1>7, <1>8, <1>9, MessageSteps

LEMMA NothingLostStep ==
  ASSUME Inv, [Next]_vars
  PROVE  NothingLost'
<1> USE DEF Goroutine, Connection, Loop, User, None
<1>1. /\ pc \in [Goroutine -> Label]
      /\ hand \in [Goroutine -> Message \union {0}]
      /\ queue \in Seq(Message)
      /\ sent \in [Connection -> Seq(Message)]
      /\ on \in [Goroutine -> Connection \union {None}] /\ alive \subseteq Connection
      /\ typed \in Nat /\ MaxConnections \in Nat /\ MaxMessages \in Nat
  BY GoClientAssumption DEF Inv, TypeOK, SharedTypes, LocalTypes, NetworkTypes
<1>2. NothingLost /\ UserHandInv /\ FlushHandInv
  BY DEF Inv
<1>3. CASE MessagesKept
  BY <1>2, <1>3 DEF MessagesKept, NothingLost, Sent, Queued
<1>4. CASE SendOrQueue
  <2>1. typed' = typed + 1 /\ typed + 1 \in Message /\ hand[User] = 0
    <3>1. typed + 1 \in Message
      BY <1>1, <1>4 DEF SendOrQueue, Message
    <3> QED BY <1>2, <1>4, <3>1 DEF SendOrQueue, UserHandInv
  <2>2. \A m : Sent(m)' = Sent(m)
    BY <1>4 DEF SendOrQueue, network, Sent
  <2>3. \A m : Queued(m) => Queued(m)'
    <3>1. CASE queue' = queue
      BY <3>1 DEF Queued
    <3>2. CASE queue' = Append(queue, typed + 1)
      BY <1>1, <2>1, <3>2, QueueGrows
    <3> QED BY <1>4, <3>1, <3>2 DEF SendOrQueue
  <2>4. ASSUME NEW n, n = typed + 1
        PROVE  Queued(n)' \/ hand'[User] = n
    <3>1. CASE queue' = Append(queue, typed + 1)
      BY <1>1, <2>1, <2>4, <3>1, QueueGrows
    <3>2. CASE hand' = [hand EXCEPT ![User] = typed + 1]
      BY <1>1, <2>4, <3>2
    <3> QED BY <1>4, <3>1, <3>2 DEF SendOrQueue
  <2>5. \A m \in 1..typed' : m \in 1..typed \/ m = typed + 1
    BY <1>1, <2>1
  <2>6. \A m \in 1..typed : hand[User] # m
    BY <2>1
  <2> QED BY <1>2, <2>1, <2>2, <2>3, <2>4, <2>5, <2>6 DEF NothingLost
<1>5. CASE WriteMessage
  <2>1. typed' = typed /\ queue' = queue
    BY <1>5 DEF WriteMessage, shared
  <2>2. \A m : Sent(m) => Sent(m)'
    BY <1>1, <1>2, <1>5, WriteSends
  <2>3. (\A m : m = hand[User] => Sent(m)') \/ hand'[User] = hand[User]
    BY <1>1, <1>2, <1>5, WriteSends DEF WriteMessage
  <2> QED BY <1>2, <2>1, <2>2, <2>3 DEF NothingLost, Queued
<1>6. CASE EnqueueOffline
  <2>1. typed' = typed /\ hand[User] \in Message /\ queue' = Append(queue, hand[User])
    BY <1>1, <1>2, <1>6 DEF EnqueueOffline, UserHandInv
  <2>2. \A m : Queued(m) \/ m = hand[User] => Queued(m)'
    <3>1. ASSUME NEW n \in Message, n = hand[User]
          PROVE  Queued(n)' /\ \A m : Queued(m) => Queued(m)'
      <4>1. queue' = Append(queue, n)
        BY <2>1, <3>1
      <4> QED BY <1>1, <4>1, QueueGrows
    <3> QED BY <2>1, <3>1
  <2>3. \A m : Sent(m)' = Sent(m)
    BY <1>6 DEF EnqueueOffline, network, Sent
  <2> QED BY <1>2, <2>1, <2>2, <2>3 DEF NothingLost
<1>7. ASSUME NEW c \in Connection, FlushNext(c)
      PROVE  NothingLost'
  <2>1. typed' = typed /\ queue' = queue /\ sent' = sent /\ hand'[User] = hand[User]
    BY <1>1, <1>7 DEF FlushNext, network
  <2> QED BY <1>2, <2>1 DEF NothingLost, Sent, Queued
<1>8. ASSUME NEW c \in Connection, FlushWrite(c)
      PROVE  NothingLost'
  <2>1. typed' = typed /\ queue' = queue /\ hand'[User] = hand[User]
    BY <1>1, <1>8 DEF FlushWrite, shared
  <2>2. \A m : Sent(m) => Sent(m)'
    BY <1>1, <1>2, <1>8, FlushSends
  <2> QED BY <1>2, <2>1, <2>2 DEF NothingLost, Queued
<1>9. ASSUME NEW c \in Connection, FlushPop(c)
      PROVE  NothingLost'
  <2>1. typed' = typed /\ hand' = hand
    BY <1>9 DEF FlushPop
  <2>2. \A m : Sent(m)' = Sent(m)
    BY <1>9 DEF FlushPop, network, Sent
  <2>3. queue # <<>> /\ Sent(Head(queue))
    BY <1>2, <1>9 DEF FlushPop, FlushHandInv
  <2>4. ASSUME NEW m, Queued(m)
        PROVE  Sent(m)' \/ Queued(m)'
    <3>1. CASE queue' = queue
      BY <2>4, <3>1 DEF Queued
    <3>2. CASE queue' = Tail(queue)
      BY <1>1, <2>2, <2>3, <2>4, <3>2, QueuePops
    <3> QED BY <1>9, <3>1, <3>2 DEF FlushPop
  <2> QED BY <1>2, <2>1, <2>2, <2>4 DEF NothingLost
<1> QED BY <1>3, <1>4, <1>5, <1>6, <1>7, <1>8, <1>9, MessageSteps

-----------------------------------------------------------------------------
\* The order on one connection.

LEMMA ReaderStep ==
  ASSUME Inv, ReaderInv, TurnInv, [Next]_vars
  PROVE  ReaderInv'
<1> USE DEF Goroutine, Connection, Loop, User, None, ReaderInv, Marked
<1>1. /\ pc \in [Goroutine -> Label]
      /\ on \in [Goroutine -> Connection \union {None}]
      /\ back \in [Goroutine -> Label]
      /\ sent \in [Connection -> Seq(Message)]
      /\ alive \subseteq Connection
      /\ MaxConnections \in Nat
  BY GoClientAssumption DEF Inv, TypeOK, SharedTypes, LocalTypes, NetworkTypes
<1>2. BackInv /\ DialedInv
  BY DEF Inv
<1>3. CASE Start \/ SendOrQueue \/ Close \/ EnqueueOffline \/ GetState \/ Stop
  <2>1. CASE EnqueueOffline
    BY <1>1, <2>1 DEF EnqueueOffline, Disconnect, network
  <2>2. CASE Start
    BY <1>1, <2>2 DEF Start, network
  <2>3. CASE SendOrQueue \/ Close \/ GetState \/ Stop
    <3>1. UNCHANGED <<sent, back>> /\ conn' \in {conn, None}
      BY <2>3 DEF SendOrQueue, Close, GetState, Stop, network, shared
    <3>2. pc' = [pc EXCEPT ![User] = pc'[User]] /\ pc'[User] \notin Marked
      BY <1>1, <2>3 DEF SendOrQueue, Close, GetState, Stop, Goto
    <3>3. None \notin Connection /\ User \notin Connection /\ Connection \subseteq Goroutine
      BY <1>1
    <3> HIDE DEF Connection, Goroutine, User, Loop, None
    <3> QED BY <1>1, <3>1, <3>2, <3>3
  <2> QED BY <1>3, <2>1, <2>2, <2>3
<1>4. CASE WriteMessage
  BY <1>1, <1>4 DEF WriteMessage, Goto, Forget, shared, TurnInv
<1>5. CASE AwaitSignal \/ BeginReconnect \/ Dial \/ DialFails \/ Wait
     \/ SendSync1
  <2>1. /\ pc' = [pc EXCEPT ![Loop] = pc'[Loop]] /\ pc'[Loop] \notin {"close", "closeAndRequest"}
        /\ \/ back' = back /\ pc'[Loop] # "mark"
           \/ back' = [back EXCEPT ![Loop] = "select"]
    <3>1. CASE SendSync1
      BY <1>1, <3>1 DEF SendSync1, Goto, Disconnect
    <3> QED BY <1>1, <1>5, <3>1 DEF AwaitSignal, Goto, BeginReconnect, Dial, DialFails, Wait
  <2>2. sent' = sent /\ conn' \in {conn, None}
    BY <1>5 DEF AwaitSignal, BeginReconnect, Dial, DialFails, Wait, SendSync1, network, shared
  <2>3. None \notin Connection /\ Loop \notin Connection /\ Connection \subseteq Goroutine
    BY <1>1
  <2> HIDE DEF Connection, Goroutine, User, Loop, None
  <2> QED BY <1>1, <2>1, <2>2, <2>3
<1>6. CASE InstallConnection
  BY <1>1, <1>2, <1>6 DEF InstallConnection, Goto, Forget, DialedInv
<1>7. ASSUME NEW p \in Goroutine, CaptureConnection(p) \/ CheckSnapshot(p) \/
     WriteSnapshot(p)
      PROVE  ReaderInv'
  BY <1>1, <1>7 DEF CaptureConnection, Goto, Home, shared, mutexes, network,
       CheckSnapshot, Forget, WriteSnapshot, Disconnect
<1>8. ASSUME NEW p \in Goroutine, MarkDisconnected(p) \/ CloseMarked(p)
      PROVE  ReaderInv'
  <2>1. CASE MarkDisconnected(p)
    <3>1. pc' = [pc EXCEPT ![p] = pc'[p]] /\ pc'[p] \in Marked /\ pc[p] \in Marked
      BY <1>1, <2>1 DEF MarkDisconnected, Goto
    <3>2. UNCHANGED <<sent, back>> /\ (conn' = conn \/ conn' = None)
      BY <2>1 DEF MarkDisconnected, network
    <3>3. \A q \in Goroutine : pc'[q] = pc[q] \/ (q = p /\ pc'[q] # "off")
      BY <1>1, <3>1
    <3>4. \A d \in Connection : d \in Goroutine /\ d # None
      BY <1>1
    <3>5. \A q \in Goroutine : pc'[q] \in Marked => back'[q] # "off"
      BY <3>1, <3>2, <3>3
    <3>6. \A d \in Connection : conn' = d => pc'[d] # "off"
      BY <3>2, <3>3, <3>4
    <3>7. \A d \in Connection : pc'[d] = "off" => sent'[d] = <<>>
      BY <3>1, <3>2, <3>3, <3>4
    <3> QED BY <3>5, <3>6, <3>7
  <2>2. CASE CloseMarked(p)
    <3>1. /\ pc' = [pc EXCEPT ![p] = back[p]] /\ back' = [back EXCEPT ![p] = "off"]
          /\ UNCHANGED <<conn, sent>>
      BY <2>2 DEF CloseMarked, Goto
    <3>2. back[p] # "off" /\ back[p] \in Returns
      BY <1>2, <2>2 DEF CloseMarked, BackInv
    <3> QED BY <1>1, <3>1, <3>2 DEF Returns
  <2> QED BY <1>8, <2>1, <2>2
<1>9. ASSUME NEW c \in Connection, ReadError(c) \/ ReadMessage(c) \/ CheckOnline(c) \/
     Answer(c)
      PROVE  ReaderInv'
  <2>1. pc' = [pc EXCEPT ![c] = pc'[c]] /\ pc'[c] \notin {"off", "close", "closeAndRequest"}
    <3>1. inbox[c] # <<>> => Head(inbox[c]) \in {"live", "sync1", "sync2"}
      BY DEF Inv, TypeOK, NetworkTypes
    <3>2. CASE ReadMessage(c)
      BY <1>1, <3>1, <3>2 DEF ReadMessage, Goto
    <3> QED BY <1>1, <1>9, <3>2 DEF ReadError, Disconnect, Goto, CheckOnline, Answer
  <2>2. UNCHANGED <<conn, sent>> /\ (back' = back \/ back' = [back EXCEPT ![c] = "done"])
    BY <1>9 DEF ReadError, Disconnect, ReadMessage, CheckOnline, Answer, shared, network
  <2>3. pc'[c] = "mark" => back'[c] # "off"
    <3>1. inbox[c] # <<>> => Head(inbox[c]) \in {"live", "sync1", "sync2"}
      BY DEF Inv, TypeOK, NetworkTypes
    <3>2. CASE ReadMessage(c)
      BY <1>1, <3>1, <3>2 DEF ReadMessage, Goto
    <3> QED BY <1>1, <1>9, <3>2 DEF ReadError, Disconnect, Goto, CheckOnline, Answer
  <2> QED BY <1>1, <2>1, <2>2, <2>3
<1>10. ASSUME NEW c \in Connection, LockFlush(c) \/ FlushNext(c) \/ FlushWrite(c) \/
     FlushPop(c) \/ UnlockFlush(c)
      PROVE  ReaderInv'
  <2>1. pc' = [pc EXCEPT ![c] = pc'[c]] /\ pc'[c] \notin {"off", "close", "closeAndRequest"}
    BY <1>1, <1>10 DEF LockFlush, Goto, FlushNext, FlushWrite, Disconnect, FlushPop, UnlockFlush
  <2>2. pc'[c] = "mark" => back' = [back EXCEPT ![c] = "flushed"]
    BY <1>1, <1>10 DEF LockFlush, Goto, FlushNext, FlushWrite, Disconnect, FlushPop, UnlockFlush
  <2>3. conn' = conn /\ \A d \in Connection \ {c} : sent'[d] = sent[d]
    BY <1>1, <1>10 DEF LockFlush, shared, network, FlushNext, FlushWrite, FlushPop, UnlockFlush
  <2>4. back' = back \/ back' = [back EXCEPT ![c] = "flushed"]
    BY <1>10 DEF LockFlush, FlushNext, FlushWrite, FlushPop, UnlockFlush, Disconnect
  <2> QED BY <1>1, <2>1, <2>2, <2>3, <2>4
<1>11. ASSUME NEW c \in Connection, Break(c) \/ Forward(c) \/ AnswerSync1(c)
      PROVE  ReaderInv'
  BY <1>1, <1>11 DEF Break, shared, mutexes, locals, Forward, AnswerSync1
<1>12. CASE UNCHANGED vars
  BY <1>1, <1>12 DEF vars, shared, mutexes, locals, network
<1> QED BY <1>3, <1>4, <1>5, <1>6, <1>7, <1>8, <1>9, <1>10, <1>11, <1>12, Steps

LEMMA TurnStep ==
  ASSUME Inv, ReaderInv, TurnInv, [Next]_vars
  PROVE  TurnInv'
<1> USE DEF Goroutine, Connection, Loop, User, None, TurnInv, Flushing
<1>1. /\ pc \in [Goroutine -> Label]
      /\ on \in [Goroutine -> Connection \union {None}]
      /\ back \in [Goroutine -> Label]
      /\ MaxConnections \in Nat
  BY GoClientAssumption DEF Inv, TypeOK, SharedTypes, LocalTypes, NetworkTypes
<1>2. BackInv /\ DialedInv
  BY DEF Inv
<1>3. CASE Start \/ SendOrQueue \/ Close \/ WriteMessage \/ EnqueueOffline \/ GetState \/ Stop
  BY <1>1, <1>3, SMTT(60) DEF Start, mutexes, network, SendOrQueue, Goto, Close,
       Forget, shared, EnqueueOffline, Disconnect, GetState, Stop, WriteMessage, ReaderInv
<1>5. CASE AwaitSignal \/ BeginReconnect \/ Dial \/ DialFails \/ Wait
     \/ SendSync1
  BY <1>1, <1>5 DEF AwaitSignal, Goto, mutexes, network, BeginReconnect, Dial,
       shared, DialFails, Forget, Wait, SendSync1, Disconnect
<1>6. CASE InstallConnection
  BY <1>1, <1>2, <1>6 DEF InstallConnection, Goto, Forget, DialedInv
<1>7. ASSUME NEW p \in Goroutine, CaptureConnection(p) \/ CheckSnapshot(p) \/
     WriteSnapshot(p)
      PROVE  TurnInv'
  BY <1>1, <1>7, SMTT(60) DEF CaptureConnection, Goto, Home, shared, mutexes, network,
       CheckSnapshot, Forget, WriteSnapshot, Disconnect
<1>8. ASSUME NEW p \in Goroutine, MarkDisconnected(p) \/ CloseMarked(p)
      PROVE  TurnInv'
  <2>1. pc' = [pc EXCEPT ![p] = pc'[p]] /\ pc'[p] \notin Flushing \union {"write"}
    BY <1>1, <1>2, <1>8 DEF MarkDisconnected, CloseMarked, Goto, BackInv, Returns
  <2>2. pc'[p] # "off"
    BY <1>1, <1>8 DEF MarkDisconnected, CloseMarked, Goto, ReaderInv, Marked
  <2>3. \A c \in Connection : conn' = c => conn = c /\ state' = state
    BY <1>1, <1>8 DEF MarkDisconnected, CloseMarked
  <2>4. \A q \in Goroutine : q # p => on'[q] = on[q]
    BY <1>1, <1>8 DEF MarkDisconnected, CloseMarked, Forget
  <2> QED BY <1>1, <2>1, <2>2, <2>3, <2>4
<1>9. ASSUME NEW c \in Connection, ReadError(c) \/ ReadMessage(c) \/ CheckOnline(c) \/
     Answer(c)
      PROVE  TurnInv'
  <2>1. pc' = [pc EXCEPT ![c] = pc'[c]] /\ pc'[c] \notin Flushing \union {"off"}
    BY <1>1, <1>9 DEF Inv, TypeOK, NetworkTypes, ReadError, Disconnect, ReadMessage, Goto,
       CheckOnline, Answer
  <2>2. UNCHANGED <<conn, state>> /\ (on' = on \/ on' = [on EXCEPT ![c] = c])
    BY <1>9 DEF ReadError, Disconnect, ReadMessage, CheckOnline, Answer, shared
  <2> QED BY <1>1, <2>1, <2>2
<1>10. ASSUME NEW c \in Connection, LockFlush(c) \/ FlushNext(c) \/ FlushWrite(c) \/
     FlushPop(c) \/ UnlockFlush(c)
      PROVE  TurnInv'
  BY <1>1, <1>10, SMTT(60) DEF LockFlush, Goto, shared, network, FlushNext, mutexes,
       FlushWrite, Disconnect, FlushPop, UnlockFlush
<1>11. ASSUME NEW c \in Connection, Break(c) \/ Forward(c) \/ AnswerSync1(c)
      PROVE  TurnInv'
  BY <1>1, <1>11 DEF Break, shared, mutexes, locals, Forward, AnswerSync1
<1>12. CASE UNCHANGED vars
  BY <1>1, <1>12 DEF vars, shared, mutexes, locals, network
<1> QED BY <1>3, <1>5, <1>6, <1>7, <1>8, <1>9, <1>10, <1>11, <1>12, Steps

\* The elements of a sequence that has got one more, or lost its head.
LEMMA AppendElements ==
  ASSUME NEW s \in Seq(Message), NEW m \in Message
  PROVE  \A i \in DOMAIN Append(s, m) :
           \/ i \in DOMAIN s /\ Append(s, m)[i] = s[i]
           \/ Append(s, m)[i] = m /\ i \in Nat /\ \A j \in DOMAIN s : j < i
OBVIOUS

LEMMA TailElements ==
  ASSUME NEW s \in Seq(Message), s # <<>>
  PROVE  \A i \in DOMAIN Tail(s) : i \in Nat \ {0} /\ i + 1 \in DOMAIN s /\ Tail(s)[i] = s[i + 1]
OBVIOUS

\* What QueueInv and SentInOrder say of the numbers they compare.
OrderTypes ==
  /\ queue \in Seq(Message) /\ sent \in [Connection -> Seq(Message)]
  /\ typed \in Nat /\ Message \subseteq Nat /\ MaxConnections \in Nat
  /\ hand \in [Goroutine -> Message \union {0}] /\ pc \in [Goroutine -> Label]
  /\ alive \subseteq Connection /\ on \in [Goroutine -> Connection \union {None}]

LEMMA OrderTyped ==
  ASSUME Inv
  PROVE  /\ OrderTypes
         /\ \A i \in DOMAIN queue : i \in Nat \ {0} /\ queue[i] \in Nat
         /\ \A c \in Connection : \A i \in DOMAIN sent[c] :
              i \in Nat \ {0} /\ sent[c][i] \in Nat
<1>1. OrderTypes
  BY GoClientAssumption DEF Inv, TypeOK, SharedTypes, LocalTypes, NetworkTypes, OrderTypes,
     Connection, Message
<1>2. \A i \in DOMAIN queue : i \in Nat \ {0} /\ queue[i] \in Message
  BY <1>1 DEF OrderTypes
<1>3. \A c \in Connection : \A i \in DOMAIN sent[c] : i \in Nat \ {0} /\ sent[c][i] \in Message
  BY <1>1 DEF OrderTypes
<1> QED BY <1>1, <1>2, <1>3 DEF OrderTypes

\* The two actions that queue something, the two that write and the one that takes out.
LEMMA QueueingSteps ==
  ASSUME Inv, QueueInv, SendOrQueue \/ EnqueueOffline
  PROVE  /\ sent' = sent /\ typed' \in Nat /\ typed <= typed'
         /\ conn' = conn /\ state' = state
         /\ \A d \in Connection : pc'[d] = pc[d] /\ hand'[d] = hand[d]
         /\ hand'[User] # 0 => hand'[User] = typed' /\ typed < typed'
         /\ \/ queue' = queue
            \/ /\ typed' \in Message /\ queue' = Append(queue, typed') /\ hand'[User] = 0
               /\ \A i \in DOMAIN queue : queue[i] < typed'
               /\ \A c \in Connection : \A i \in DOMAIN sent[c] : sent[c][i] < typed'
<1>1. OrderTypes /\ UserHandInv
  BY OrderTyped DEF Inv
<1>2. typed \in 0..MaxMessages /\ MaxMessages \in Nat
  BY GoClientAssumption DEF Inv, TypeOK, NetworkTypes
<1>3. User \notin Connection /\ User \in Goroutine /\ Connection \subseteq Goroutine
  BY <1>1 DEF OrderTypes, User, Connection, Goroutine
<1> USE DEF OrderTypes, QueueInv
<1>4. CASE SendOrQueue
  <2>1. hand[User] = 0
    BY <1>1, <1>4 DEF SendOrQueue, UserHandInv
  <2>2. typed' = typed + 1 /\ typed + 1 \in Message
    BY <1>2, <1>4 DEF SendOrQueue, Message
  <2>3. UNCHANGED <<sent, conn, state>>
    BY <1>4 DEF SendOrQueue, network
  <2>4. \A d \in Connection : pc'[d] = pc[d] /\ hand'[d] = hand[d]
    BY <1>1, <1>3, <1>4 DEF SendOrQueue, Goto
  <2>5. \/ queue' = queue /\ hand'[User] = typed + 1
        \/ queue' = Append(queue, typed + 1) /\ hand' = hand
    BY <1>1, <1>3, <1>4 DEF SendOrQueue
  <2>6. /\ \A i \in DOMAIN queue : queue[i] < typed + 1
        /\ \A c \in Connection : \A i \in DOMAIN sent[c] : sent[c][i] < typed + 1
    BY <1>2, OrderTyped
  <2> QED BY <1>1, <2>1, <2>2, <2>3, <2>4, <2>5, <2>6
<1>5. CASE EnqueueOffline
  <2>1. hand[User] # 0 /\ hand[User] = typed /\ hand[User] \in Message
    BY <1>1, <1>3, <1>5 DEF EnqueueOffline, UserHandInv
  <2>2. UNCHANGED <<sent, conn, state, typed>>
    BY <1>5 DEF EnqueueOffline, network
  <2>3. \A d \in Connection : pc'[d] = pc[d] /\ hand'[d] = hand[d]
    BY <1>1, <1>3, <1>5 DEF EnqueueOffline, Disconnect
  <2>4. queue' = Append(queue, typed) /\ hand'[User] = 0
    BY <1>1, <1>3, <1>5, <2>1 DEF EnqueueOffline
  <2> QED BY <1>1, <2>1, <2>2, <2>3, <2>4
<1> QED BY <1>4, <1>5

LEMMA UserWriteStep ==
  ASSUME Inv, TurnInv, QueueInv, WriteMessage
  PROVE  /\ UNCHANGED <<queue, typed, conn, state>>
         /\ \A d \in Connection : pc'[d] = pc[d] /\ hand'[d] = hand[d]
         /\ \/ sent' = sent /\ hand' = hand
            \/ /\ hand'[User] = 0 /\ typed \in Message
               /\ \E c \in Connection :
                    /\ sent' = [sent EXCEPT ![c] = Append(sent[c], typed)]
                    /\ \A i \in DOMAIN sent[c] : sent[c][i] < typed
                    /\ pc[c] \notin Flushing /\ (conn = c => state # "Syncing")
<1>1. OrderTypes /\ UserHandInv
  BY OrderTyped DEF Inv
<1>2. User \notin Connection /\ User \in Goroutine /\ Connection \subseteq Goroutine
  BY <1>1 DEF OrderTypes, User, Connection, Goroutine
<1>3. UNCHANGED <<queue, typed, conn, state>>
  BY DEF WriteMessage, shared
<1>4. \A d \in Connection : pc'[d] = pc[d] /\ hand'[d] = hand[d]
  BY <1>1, <1>2 DEF WriteMessage, Goto, OrderTypes
<1>5. CASE on[User] \in alive
  <2>1. hand[User] = typed /\ typed \in Message /\ on[User] \in Connection
    BY <1>1, <1>2, <1>5 DEF WriteMessage, OrderTypes, QueueInv, UserHandInv
  <2>2. hand'[User] = 0 /\ sent' = [sent EXCEPT ![on[User]] = Append(sent[on[User]], typed)]
    BY <1>1, <1>2, <1>5, <2>1 DEF WriteMessage, OrderTypes
  <2>3. \A i \in DOMAIN sent[on[User]] : sent[on[User]][i] < typed
    BY <1>1, <2>1 DEF QueueInv, OrderTypes, WriteMessage, UserHandInv
  <2>4. pc[on[User]] \notin Flushing /\ (conn = on[User] => state # "Syncing")
    BY <2>1 DEF TurnInv, WriteMessage
  <2> QED BY <1>3, <1>4, <2>1, <2>2, <2>3, <2>4
<1>6. CASE on[User] \notin alive
  BY <1>3, <1>4, <1>6 DEF WriteMessage
<1> QED BY <1>5, <1>6

LEMMA FlushWriteStep ==
  ASSUME Inv, NEW c \in Connection, FlushWrite(c)
  PROVE  /\ UNCHANGED <<queue, typed, conn, state>> /\ hand'[User] = hand[User]
         /\ \A d \in Connection \ {c} : pc'[d] = pc[d] /\ hand'[d] = hand[d]
         /\ pc'[c] # "flushWrite"
         /\ pc[c] = "flushWrite" /\ hand[c] \in Message
         /\ 1 \in DOMAIN queue /\ hand[c] = queue[1]
         /\ \/ sent' = sent /\ pc'[c] = "mark"
            \/ /\ sent' = [sent EXCEPT ![c] = Append(sent[c], hand[c])]
               /\ pc'[c] = "flushPop"
<1>1. OrderTypes /\ FlushHandInv
  BY OrderTyped DEF Inv
<1>2. User \notin Connection /\ User \in Goroutine /\ Connection \subseteq Goroutine
  BY <1>1 DEF OrderTypes, User, Connection, Goroutine
<1>3. queue # <<>> /\ hand[c] = Head(queue)
  BY <1>1 DEF FlushHandInv, FlushWrite
<1>4. 1 \in DOMAIN queue /\ hand[c] = queue[1] /\ hand[c] \in Message
  BY <1>1, <1>3 DEF OrderTypes
<1>5. UNCHANGED <<queue, typed, conn, state>> /\ hand'[User] = hand[User]
  BY <1>1, <1>2 DEF FlushWrite, shared, OrderTypes
<1>6. \A d \in Connection \ {c} : pc'[d] = pc[d] /\ hand'[d] = hand[d]
  BY <1>1, <1>2 DEF FlushWrite, Goto, Disconnect, OrderTypes
<1>7. \/ sent' = sent /\ pc'[c] = "mark"
      \/ sent' = [sent EXCEPT ![c] = Append(sent[c], hand[c])] /\ pc'[c] = "flushPop"
  BY <1>1, <1>2 DEF FlushWrite, Goto, Disconnect, OrderTypes
<1> QED BY <1>4, <1>5, <1>6, <1>7 DEF FlushWrite

LEMMA FlushPopStep ==
  ASSUME Inv, NEW c \in Connection, FlushPop(c)
  PROVE  /\ UNCHANGED <<sent, typed, conn, state, hand>>
         /\ \A d \in Connection \ {c} : pc'[d] = pc[d]
         /\ pc'[c] \notin Flushing
         /\ \/ queue' = queue /\ (conn = c => state # "Syncing")
            \/ queue # <<>> /\ queue' = Tail(queue) /\ conn = c
<1>1. OrderTypes /\ FlushHandInv
  BY OrderTyped DEF Inv
<1>2. Connection \subseteq Goroutine
  BY <1>1 DEF OrderTypes, Connection, Goroutine
<1>3. \/ queue' = queue /\ (conn = c => state # "Syncing")
      \/ queue # <<>> /\ queue' = Tail(queue) /\ conn = c
  BY <1>1 DEF FlushPop, FlushHandInv
<1>4. pc'[c] \notin Flushing /\ \A d \in Connection \ {c} : pc'[d] = pc[d]
  BY <1>1, <1>2 DEF FlushPop, Goto, OrderTypes, Flushing
<1> QED BY <1>3, <1>4 DEF FlushPop, network

LEMMA FlushNextStep ==
  ASSUME Inv, NEW c \in Connection, FlushNext(c)
  PROVE  /\ UNCHANGED <<queue, sent, typed, conn>> /\ hand'[User] = hand[User]
         /\ \A d \in Connection \ {c} : pc'[d] = pc[d] /\ hand'[d] = hand[d]
         /\ pc[c] = "flushNext"
         /\ \/ pc'[c] = "flushed" /\ (state' = "Syncing" => state = "Syncing")
            \/ /\ conn = c /\ state = "Syncing" /\ state' = state
               /\ 1 \in DOMAIN queue /\ pc'[c] = "flushWrite" /\ hand'[c] = queue[1]
<1>1. OrderTypes
  BY OrderTyped
<1>2. User \notin Connection /\ User \in Goroutine /\ Connection \subseteq Goroutine
  BY <1>1 DEF OrderTypes, User, Connection, Goroutine
<1>3. queue # <<>> => 1 \in DOMAIN queue /\ Head(queue) = queue[1]
  BY <1>1 DEF OrderTypes
<1>4. /\ \A d \in Connection \ {c} : pc'[d] = pc[d] /\ hand'[d] = hand[d]
      /\ hand'[User] = hand[User]
  BY <1>1, <1>2 DEF FlushNext, Goto, OrderTypes
<1>5. \/ pc'[c] = "flushed" /\ (state' = "Syncing" => state = "Syncing")
      \/ /\ conn = c /\ state = "Syncing" /\ state' = state
         /\ queue # <<>> /\ pc'[c] = "flushWrite" /\ hand'[c] = Head(queue)
  BY <1>1, <1>2 DEF FlushNext, Goto, OrderTypes
<1> QED BY <1>3, <1>4, <1>5 DEF FlushNext, network

LEMMA QueueStep ==
  ASSUME Inv, TurnInv, QueueInv, [Next]_vars
  PROVE  QueueInv'
<1>1. /\ \A i \in DOMAIN queue : i \in Nat \ {0} /\ queue[i] \in Nat
      /\ \A c \in Connection : \A i \in DOMAIN sent[c] : i \in Nat \ {0} /\ sent[c][i] \in Nat
      /\ typed \in Nat /\ Message \subseteq Nat
  BY OrderTyped DEF OrderTypes
<1>2. OrderTypes
  BY OrderTyped
<1> USE <1>1 DEF QueueInv
<1>3. CASE MessagesKept
  BY <1>3 DEF MessagesKept
<1>4. CASE SendOrQueue \/ EnqueueOffline
  <2>1. CASE queue' = queue
    BY <1>4, <2>1, QueueingSteps
  <2>2. CASE queue' # queue
    <3>1. queue' = Append(queue, typed') /\ typed' \in Message /\ hand'[User] = 0
      BY <1>4, <2>2, QueueingSteps
    <3>2. /\ \A i \in DOMAIN queue : queue[i] < typed'
          /\ \A c \in Connection : \A i \in DOMAIN sent[c] : sent[c][i] < typed'
          /\ sent' = sent
      BY <1>4, <2>2, QueueingSteps
    <3>3. \A i \in DOMAIN queue' :
            \/ i \in DOMAIN queue /\ queue'[i] = queue[i]
            \/ queue'[i] = typed' /\ i \in Nat /\ \A j \in DOMAIN queue : j < i
      BY <1>2, <3>1, AppendElements DEF OrderTypes
    <3>4. \A i, j \in DOMAIN queue' : i < j => queue'[i] < queue'[j]
      <4> SUFFICES ASSUME NEW i \in DOMAIN queue', NEW j \in DOMAIN queue', i < j
                   PROVE  queue'[i] < queue'[j]
        OBVIOUS
      <4>1. i \in DOMAIN queue /\ queue'[i] = queue[i]
        BY <1>2, <3>1 DEF OrderTypes
      <4> QED BY <3>2, <3>3, <4>1
    <3>5. typed <= typed' /\ typed' \in Nat
      BY <1>4, QueueingSteps
    <3>6. \A i \in DOMAIN queue' : queue'[i] <= typed'
      BY <3>2, <3>3, <3>5
    <3>7. \A c \in Connection : \A i \in DOMAIN sent'[c] : sent'[c][i] <= typed'
      BY <3>2, <3>5
    <3> QED BY <3>1, <3>4, <3>6, <3>7
  <2> QED BY <2>1, <2>2
<1>5. CASE WriteMessage
  <2>1. CASE sent' = sent
    BY <1>5, <2>1, UserWriteStep
  <2>2. CASE sent' # sent
    <3>1. PICK c \in Connection : sent' = [sent EXCEPT ![c] = Append(sent[c], typed)]
      BY <1>5, <2>2, UserWriteStep
    <3>2. typed \in Message /\ hand'[User] = 0 /\ UNCHANGED <<queue, typed>>
      BY <1>5, <2>2, UserWriteStep
    <3>3. \A d \in Connection : \A i \in DOMAIN sent'[d] : sent'[d][i] <= typed
      <4>1. \A i \in DOMAIN sent'[c] :
              (i \in DOMAIN sent[c] /\ sent'[c][i] = sent[c][i]) \/ sent'[c][i] = typed
        BY <1>2, <3>1, <3>2, AppendElements DEF OrderTypes
      <4> QED BY <3>1, <3>2, <4>1
    <3> QED BY <3>2, <3>3
  <2> QED BY <2>1, <2>2
<1>6. ASSUME NEW c \in Connection, FlushNext(c)
      PROVE  QueueInv'
  BY <1>6, FlushNextStep
<1>7. ASSUME NEW c \in Connection, FlushWrite(c)
      PROVE  QueueInv'
  <2>1. CASE sent' = sent
    BY <1>7, <2>1, FlushWriteStep
  <2>2. CASE sent' # sent
    <3>1. /\ sent' = [sent EXCEPT ![c] = Append(sent[c], hand[c])]
          /\ UNCHANGED <<queue, typed>> /\ hand'[User] = hand[User]
          /\ hand[c] \in Message /\ 1 \in DOMAIN queue /\ hand[c] = queue[1]
      BY <1>7, <2>2, FlushWriteStep
    <3>2. \A i \in DOMAIN sent'[c] :
            (i \in DOMAIN sent[c] /\ sent'[c][i] = sent[c][i]) \/ sent'[c][i] = queue[1]
      BY <1>2, <3>1, AppendElements DEF OrderTypes
    <3>3. queue[1] <= typed /\ (hand[User] # 0 => queue[1] < typed)
      BY <3>1
    <3>4. \A d \in Connection \ {c} : sent'[d] = sent[d]
      BY <1>2, <3>1 DEF OrderTypes
    <3> QED BY <3>1, <3>2, <3>3, <3>4
  <2> QED BY <2>1, <2>2
<1>8. ASSUME NEW c \in Connection, FlushPop(c)
      PROVE  QueueInv'
  <2>1. CASE queue' = queue
    BY <1>8, <2>1, FlushPopStep
  <2>2. CASE queue # <<>> /\ queue' = Tail(queue)
    <3>1. \A i \in DOMAIN queue' : i \in Nat /\ i + 1 \in DOMAIN queue /\ queue'[i] = queue[i + 1]
      BY <1>2, <2>2, TailElements DEF OrderTypes
    <3>2. \A i, j \in DOMAIN queue' : i < j => queue'[i] < queue'[j]
      BY <3>1
    <3>3. UNCHANGED <<sent, typed, hand>>
      BY <1>8, FlushPopStep
    <3> QED BY <3>1, <3>2, <3>3
  <2> QED BY <1>8, <2>1, <2>2, FlushPopStep
<1> QED BY <1>3, <1>4, <1>5, <1>6, <1>7, <1>8, MessageSteps

\* A connection that starts to sync has not been written on.
LEMMA SyncStarts ==
  ASSUME Inv, ReaderInv, [Next]_vars, NEW c \in Connection, conn' = c, state' = "Syncing"
  PROVE  (conn = c /\ state = "Syncing") \/ sent[c] = <<>>
<1>1. CASE InstallConnection
  BY <1>1 DEF InstallConnection, DialedInv, ReaderInv, Inv
<1>2. CASE Start \/ SendOrQueue \/ Close \/ WriteMessage \/ EnqueueOffline \/ GetState \/ Stop
  BY <1>2 DEF Start, SendOrQueue, Close, WriteMessage, EnqueueOffline, GetState, Stop, shared
<1>3. CASE AwaitSignal \/ BeginReconnect \/ Dial \/ DialFails \/ Wait \/ SendSync1
  BY <1>3 DEF AwaitSignal, BeginReconnect, Dial, DialFails, Wait, SendSync1, shared
<1>4. ASSUME NEW p \in Goroutine, \/ CaptureConnection(p) \/ CheckSnapshot(p) \/ WriteSnapshot(p)
                                  \/ MarkDisconnected(p) \/ CloseMarked(p)
      PROVE  conn = c /\ state = "Syncing"
  BY <1>4 DEF CaptureConnection, CheckSnapshot, WriteSnapshot, MarkDisconnected, CloseMarked,
     shared, None, Connection
<1>5. ASSUME NEW d \in Connection, 
             \/ ReadError(d) \/ ReadMessage(d) \/ CheckOnline(d) \/ Answer(d)
             \/ LockFlush(d) \/ FlushNext(d) \/ FlushWrite(d) \/ FlushPop(d) \/ UnlockFlush(d)
             \/ Break(d) \/ Forward(d) \/ AnswerSync1(d)
      PROVE  conn = c /\ state = "Syncing"
  BY <1>5 DEF ReadError, ReadMessage, CheckOnline, Answer, LockFlush, FlushNext, FlushWrite,
     FlushPop, UnlockFlush, Break, Forward, AnswerSync1, shared
<1>6. CASE UNCHANGED vars
  BY <1>6 DEF vars, shared
<1> QED BY <1>1, <1>2, <1>3, <1>4, <1>5, <1>6, Steps

LEMMA FlushOrderStep ==
  ASSUME Inv, ReaderInv, TurnInv, QueueInv, FlushOrderInv, [Next]_vars
  PROVE  FlushOrderInv'
<1>1. /\ \A i \in DOMAIN queue : i \in Nat \ {0} /\ queue[i] \in Nat
      /\ \A c \in Connection : \A i \in DOMAIN sent[c] : i \in Nat \ {0} /\ sent[c][i] \in Nat
      /\ typed \in Nat /\ Message \subseteq Nat
  BY OrderTyped DEF OrderTypes
<1>2. OrderTypes
  BY OrderTyped
<1> USE <1>1 DEF FlushOrderInv
<1>3. CASE MessagesKept
  BY <1>3, SyncStarts DEF MessagesKept, Flushing
<1>4. CASE SendOrQueue \/ EnqueueOffline
  <2>1. CASE queue' = queue
    BY <1>4, <2>1, QueueingSteps
  <2>2. CASE queue' # queue
    <3>1. /\ queue' = Append(queue, typed') /\ typed' \in Message
          /\ UNCHANGED <<sent, conn, state>>
          /\ \A d \in Connection : pc'[d] = pc[d] /\ hand'[d] = hand[d]
          /\ \A c \in Connection : \A i \in DOMAIN sent[c] : sent[c][i] < typed'
      BY <1>4, <2>2, QueueingSteps
    <3>2. \A j \in DOMAIN queue' : (j \in DOMAIN queue /\ queue'[j] = queue[j]) \/ queue'[j] = typed'
      BY <1>2, <3>1, AppendElements DEF OrderTypes
    <3>3. ASSUME NEW c \in Connection, conn = c, state = "Syncing",
                 NEW i \in DOMAIN sent[c], NEW j \in DOMAIN queue'
          PROVE  sent[c][i] <= queue'[j] /\ (pc[c] # "flushPop" \/ j # 1 => sent[c][i] < queue'[j])
      <4>1. CASE j \in DOMAIN queue /\ queue'[j] = queue[j]
        BY <3>3, <4>1
      <4>2. CASE queue'[j] = typed'
        <5>1. sent[c][i] \in Nat /\ sent[c][i] < typed' /\ typed' \in Nat
          BY <3>1, <3>3
        <5> QED BY <4>2, <5>1
      <4> QED BY <3>2, <4>1, <4>2
    <3> QED BY <3>1, <3>3
  <2> QED BY <2>1, <2>2
<1>5. CASE WriteMessage
  <2>1. CASE sent' = sent
    BY <1>5, <2>1, UserWriteStep
  <2>2. CASE sent' # sent
    <3>1. PICK c \in Connection : /\ sent' = [sent EXCEPT ![c] = Append(sent[c], typed)]
                                  /\ pc[c] \notin Flushing /\ (conn = c => state # "Syncing")
      BY <1>5, <2>2, UserWriteStep
    <3>2. /\ UNCHANGED <<queue, conn, state>>
          /\ \A d \in Connection : pc'[d] = pc[d] /\ hand'[d] = hand[d]
      BY <1>5, UserWriteStep
    <3>3. \A d \in Connection \ {c} : sent'[d] = sent[d]
      BY <1>2, <3>1 DEF OrderTypes
    <3> QED BY <3>1, <3>2, <3>3 DEF Flushing
  <2> QED BY <2>1, <2>2
<1>6. ASSUME NEW c \in Connection, FlushNext(c)
      PROVE  FlushOrderInv'
  BY <1>6, FlushNextStep
<1>7. ASSUME NEW c \in Connection, FlushWrite(c)
      PROVE  FlushOrderInv'
  <2>1. CASE sent' = sent
    BY <1>7, <2>1, FlushWriteStep
  <2>2. CASE sent' # sent
    <3>1. /\ sent' = [sent EXCEPT ![c] = Append(sent[c], hand[c])]
          /\ UNCHANGED <<queue, conn, state>>
          /\ \A d \in Connection \ {c} : pc'[d] = pc[d] /\ hand'[d] = hand[d]
          /\ hand[c] \in Message /\ 1 \in DOMAIN queue /\ hand[c] = queue[1]
          /\ pc[c] = "flushWrite" /\ pc'[c] = "flushPop"
      BY <1>7, <2>2, FlushWriteStep
    <3>2. \A i \in DOMAIN sent'[c] :
            (i \in DOMAIN sent[c] /\ sent'[c][i] = sent[c][i]) \/ sent'[c][i] = queue[1]
      BY <1>2, <3>1, AppendElements DEF OrderTypes
    <3>3. \A d \in Connection \ {c} : sent'[d] = sent[d]
      BY <1>2, <3>1 DEF OrderTypes
    <3>4. \A i, j \in DOMAIN queue : i < j => queue[i] < queue[j]
      BY DEF QueueInv
    <3>5. \A j \in DOMAIN queue : queue[1] <= queue[j] /\ (j # 1 => queue[1] < queue[j])
      <4> SUFFICES ASSUME NEW j \in DOMAIN queue, j # 1 PROVE queue[1] < queue[j]
        BY <3>1
      <4>1. j \in Nat /\ 1 < j
        OBVIOUS
      <4> QED BY <3>1, <3>4, <4>1
    <3>6. \A i \in DOMAIN sent'[c] : \A j \in DOMAIN queue :
            sent'[c][i] <= queue[j] /\ (j # 1 => sent'[c][i] < queue[j])
      <4> SUFFICES ASSUME NEW i \in DOMAIN sent'[c], NEW j \in DOMAIN queue
                   PROVE  sent'[c][i] <= queue[j] /\ (j # 1 => sent'[c][i] < queue[j])
        OBVIOUS
      <4>1. sent'[c][i] \in Nat /\ sent'[c][i] <= queue[1]
        BY <3>1, <3>2
      <4>2. queue[1] \in Nat /\ queue[j] \in Nat
        BY <3>1
      <4> QED BY <3>5, <4>1, <4>2
    <3> QED BY <3>1, <3>3, <3>6
  <2> QED BY <2>1, <2>2
<1>8. ASSUME NEW c \in Connection, FlushPop(c)
      PROVE  FlushOrderInv'
  <2>1. CASE queue' = queue
    BY <1>8, <2>1, FlushPopStep DEF Flushing
  <2>2. CASE queue # <<>> /\ queue' = Tail(queue) /\ conn = c
    <3>1. \A j \in DOMAIN queue' :
            j \in Nat \ {0} /\ j + 1 \in DOMAIN queue /\ queue'[j] = queue[j + 1]
      BY <1>2, <2>2, TailElements DEF OrderTypes
    <3>2. /\ UNCHANGED <<sent, conn, state, hand>>
          /\ \A d \in Connection \ {c} : pc'[d] = pc[d]
          /\ pc'[c] \notin Flushing
      BY <1>8, FlushPopStep
    <3>3. state = "Syncing" =>
            \A i \in DOMAIN sent[c] : \A j \in DOMAIN queue' : sent[c][i] < queue'[j]
      BY <2>2, <3>1
    <3>4. ASSUME NEW d \in Connection, d # c
          PROVE  conn # d /\ pc'[d] = pc[d] /\ hand'[d] = hand[d] /\ sent'[d] = sent[d]
      BY <2>2, <3>2, <3>4
    <3>5. ASSUME NEW d \in Connection, conn = d, state = "Syncing",
                 NEW i \in DOMAIN sent[d], NEW j \in DOMAIN queue'
          PROVE  sent[d][i] <= queue'[j] /\ sent[d][i] < queue'[j]
      BY <2>2, <3>1, <3>3, <3>5
    <3>6. ASSUME NEW d \in Connection, pc'[d] = "flushWrite", NEW i \in DOMAIN sent[d]
          PROVE  sent[d][i] < hand[d]
      BY <3>2, <3>4, <3>6 DEF Flushing
    <3> QED BY <3>2, <3>5, <3>6
  <2> QED BY <1>8, <2>1, <2>2, FlushPopStep
<1> QED BY <1>3, <1>4, <1>5, <1>6, <1>7, <1>8, MessageSteps

LEMMA SentInOrderStep ==
  ASSUME Inv, TurnInv, QueueInv, FlushOrderInv, SentInOrder, [Next]_vars
  PROVE  SentInOrder'
<1>1. OrderTypes
  BY OrderTyped
<1>2. ASSUME sent' = sent
      PROVE  SentInOrder'
  BY <1>2 DEF SentInOrder
<1>3. ASSUME NEW c \in Connection, NEW m \in Message,
             sent' = [sent EXCEPT ![c] = Append(sent[c], m)],
             \A i \in DOMAIN sent[c] : sent[c][i] < m
      PROVE  SentInOrder'
  <2>1. sent'[c] = Append(sent[c], m) /\ \A d \in Connection \ {c} : sent'[d] = sent[d]
    BY <1>1, <1>3 DEF OrderTypes
  <2>2. ASSUME NEW i \in DOMAIN sent'[c], NEW j \in DOMAIN sent'[c], i < j
        PROVE  sent'[c][i] < sent'[c][j]
    <3>1. i \in DOMAIN sent[c] /\ sent'[c][i] = sent[c][i]
      <4>1. sent[c] \in Seq(Message)
        BY <1>1 DEF OrderTypes
      <4>2. i \in Nat /\ j \in Nat /\ 1 <= i /\ j <= Len(sent[c]) + 1
        BY <2>1, <4>1
      <4> QED BY <2>1, <2>2, <4>1, <4>2
    <3>2. (j \in DOMAIN sent[c] /\ sent'[c][j] = sent[c][j]) \/ sent'[c][j] = m
      BY <1>1, <2>1, AppendElements DEF OrderTypes
    <3> QED BY <1>3, <2>2, <3>1, <3>2 DEF SentInOrder
  <2> QED BY <2>1, <2>2 DEF SentInOrder
<1>4. CASE MessagesKept \/ SendOrQueue \/ EnqueueOffline
  BY <1>2, <1>4, QueueingSteps DEF MessagesKept
<1>5. CASE WriteMessage
  <2>1. CASE sent' = sent
    BY <1>2, <2>1
  <2>2. CASE sent' # sent
    <3>1. PICK c \in Connection : /\ sent' = [sent EXCEPT ![c] = Append(sent[c], typed)]
                                  /\ \A i \in DOMAIN sent[c] : sent[c][i] < typed
      BY <1>5, <2>2, UserWriteStep
    <3>2. typed \in Message
      BY <1>5, <2>2, UserWriteStep
    <3> QED BY <1>3, <3>1, <3>2
  <2> QED BY <2>1, <2>2
<1>6. ASSUME NEW c \in Connection, FlushNext(c) \/ FlushPop(c)
      PROVE  SentInOrder'
  BY <1>2, <1>6, FlushNextStep, FlushPopStep
<1>7. ASSUME NEW c \in Connection, FlushWrite(c)
      PROVE  SentInOrder'
  <2>1. CASE sent' = sent
    BY <1>2, <2>1
  <2>2. CASE sent' # sent
    <3>1. sent' = [sent EXCEPT ![c] = Append(sent[c], hand[c])] /\ hand[c] \in Message
      BY <1>7, <2>2, FlushWriteStep
    <3>2. \A i \in DOMAIN sent[c] : sent[c][i] < hand[c]
      BY <1>7 DEF FlushWrite, FlushOrderInv
    <3> QED BY <1>3, <3>1, <3>2
  <2> QED BY <2>1, <2>2
<1> QED BY <1>4, <1>5, <1>6, <1>7, MessageSteps

-----------------------------------------------------------------------------
\* The theorems.

\* Inv is inductive: whatever the goroutines of client.go do next, it goes on to hold.
THEOREM ClientInvariance == Spec => []Inv
<1>1. Init => Inv
  <2> SUFFICES ASSUME Init PROVE Inv
    OBVIOUS
  <2> USE GoClientAssumption DEF Init, Connection, Goroutine, Loop, User, None
  <2>1. TypeOK
    <3>1. SharedTypes
      <4>1. queue \in Seq(Message)
        OBVIOUS
      <4> QED BY <4>1 DEF SharedTypes
    <3>2. LocalTypes
      BY DEF LocalTypes, Label
    <3>3. NetworkTypes
      BY DEF NetworkTypes
    <3> QED BY <3>1, <3>2, <3>3 DEF TypeOK
  <2>2. BackInv /\ LifeInv /\ DialedInv /\ FlushInv
    BY DEF BackInv, Returns, LifeInv, DialedInv, FlushInv, FlushSection
  <2>3. UserHandInv /\ FlushHandInv
    BY DEF UserHandInv, FlushHandInv
  <2>4. NothingLost /\ NoConnectionLeaks /\ ConnectionMatchesState /\ WakeUpPending
    BY DEF NothingLost, NoConnectionLeaks, ConnectionMatchesState, WakeUpPending
  <2> QED BY <2>1, <2>2, <2>3, <2>4 DEF Inv
<1>2. Inv /\ [Next]_vars => Inv'
  <2> SUFFICES ASSUME Inv, [Next]_vars PROVE Inv'
    OBVIOUS
  <2>1. TypeOK'
    BY SharedStep, LocalStep, NetworkStep DEF TypeOK
  <2> QED
    BY <2>1, BackStep, LifeStep, DialedStep, FlushStep, MatchStep, WakeStep, LeakStep,
       UserHandStep, FlushHandStep, NothingLostStep DEF Inv
<1> QED BY <1>1, <1>2, PTL DEF Spec

\* The fields and local variables of client.go hold what they are meant to hold.
THEOREM ClientTypeCorrect == Spec => []TypeOK
<1>1. Inv => TypeOK
  BY DEF Inv
<1> QED BY <1>1, ClientInvariance, PTL

\* The code sets State and Conn together, so that Syncing and Online mean a connection.
THEOREM StatesHaveConnections == Spec => []ConnectionMatchesState
<1>1. Inv => ConnectionMatchesState
  BY DEF Inv
<1> QED BY <1>1, ClientInvariance, PTL

\* SendOrQueue, EnqueueOffline and FlushOfflineQueue lose no operation of the user.
THEOREM NothingIsLost == Spec => []NothingLost
<1>1. Inv => NothingLost
  BY DEF Inv
<1> QED BY <1>1, ClientInvariance, PTL

\* SendOrQueue and FlushOfflineQueue take turns on a connection: what the user typed goes
\* out on it in the order of typing, nothing twice.
THEOREM ClientSendsInOrder == Spec => []SentInOrder
<1>1. Init => OrderInv
  <2> SUFFICES ASSUME Init PROVE OrderInv
    OBVIOUS
  <2> USE GoClientAssumption DEF Init, Connection, Goroutine, Loop, User, None
  <2>1. ReaderInv /\ TurnInv
    BY DEF ReaderInv, TurnInv, Marked, Flushing
  <2>2. QueueInv /\ FlushOrderInv /\ SentInOrder
    BY DEF QueueInv, FlushOrderInv, SentInOrder
  <2> QED BY <2>1, <2>2 DEF OrderInv
<1>2. Inv /\ OrderInv /\ [Next]_vars => OrderInv'
  BY ReaderStep, TurnStep, QueueStep, FlushOrderStep, SentInOrderStep DEF OrderInv
<1>3. OrderInv => SentInOrder
  BY DEF OrderInv
<1> QED BY <1>1, <1>2, <1>3, ClientInvariance, PTL DEF Spec

\* ReconnectOnce, MarkDisconnected and Close leave no connection open and forgotten.
THEOREM ConnectionsAreKept == Spec => []NoConnectionLeaks
<1>1. Inv => NoConnectionLeaks
  BY DEF Inv
<1> QED BY <1>1, ClientInvariance, PTL

\* MarkDisconnected and ReconnectLoop never leave a disconnected client asleep.
THEOREM WakeUpsAreKept == Spec => []WakeUpPending
<1>1. Inv => WakeUpPending
  BY DEF Inv
<1> QED BY <1>1, ClientInvariance, PTL

\* After Close no dial, flush or write brings the client back.
THEOREM CloseIsFinal == Spec => ClosingIsFinal
<1>1. Inv /\ [Next]_vars => [state = "Closing" => state' = "Closing" /\ conn' = None]_vars
  <2> SUFFICES ASSUME Inv, [Next]_vars, state = "Closing"
               PROVE  state' = "Closing" /\ conn' = None
    OBVIOUS
  <2>1. conn = None
    BY DEF Inv, ConnectionMatchesState
  <2>2. ASSUME NEW p \in Goroutine, MarkDisconnected(p)
        PROVE  state' = "Closing" /\ conn' = None
    BY <2>1, <2>2 DEF MarkDisconnected
  <2>3. CASE Start \/ SendOrQueue \/ Close \/ WriteMessage \/ EnqueueOffline \/ GetState \/ Stop
    BY <2>1, <2>3 DEF Start, SendOrQueue, Close, WriteMessage, EnqueueOffline, GetState, Stop, shared
  <2>4. CASE AwaitSignal \/ BeginReconnect \/ Dial \/ DialFails \/ InstallConnection \/ Wait \/ SendSync1
    BY <2>1, <2>4 DEF AwaitSignal, BeginReconnect, Dial, DialFails, InstallConnection, Wait,
       SendSync1, shared
  <2>5. ASSUME NEW p \in Goroutine,
               CaptureConnection(p) \/ CheckSnapshot(p) \/ WriteSnapshot(p) \/ CloseMarked(p)
        PROVE  state' = "Closing" /\ conn' = None
    BY <2>1, <2>5 DEF CaptureConnection, CheckSnapshot, WriteSnapshot, CloseMarked, shared
  <2>6. ASSUME NEW c \in Connection,
               \/ ReadError(c) \/ ReadMessage(c) \/ CheckOnline(c) \/ Answer(c)
               \/ LockFlush(c) \/ FlushNext(c) \/ FlushWrite(c) \/ FlushPop(c) \/ UnlockFlush(c)
               \/ Break(c) \/ Forward(c) \/ AnswerSync1(c)
        PROVE  state' = "Closing" /\ conn' = None
    BY <2>1, <2>6 DEF ReadError, ReadMessage, CheckOnline, Answer, LockFlush, FlushNext,
       FlushWrite, FlushPop, UnlockFlush, Break, Forward, AnswerSync1, shared
  <2>7. CASE UNCHANGED vars
    BY <2>1, <2>7 DEF vars, shared
  <2> QED BY <2>2, <2>3, <2>4, <2>5, <2>6, <2>7, Steps
<1> QED BY <1>1, ClientInvariance, PTL DEF Spec, ClosingIsFinal

=============================================================================
