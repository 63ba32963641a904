----------------------------- MODULE BufClient ------------------------------
(***************************************************************************)
(* NLNET::CBufClient (nel/src/net/buf_client.cpp), the client side of      *)
(* layer 1, as built on Unix: the user's main thread connects, sends,      *)
(* updates, disconnects and connects again; each connection gets a receive *)
(* thread, which is cancelled, not joined, when the next one is made.      *)
(* Cancellation is asynchronous: it stops the thread at any instruction,   *)
(* some time after it was asked for.                                       *)
(*                                                                         *)
(* One CNonBlockingBufSock serves all the connections of a client.  A      *)
(* message on the wire has two halves, the length prefix and the payload,  *)
(* and receivePart reads the socket half by half; flush sends messages in  *)
(* the same halves.  The messages the user sends are numbered: message m   *)
(* has the halves 2m - 1 and 2m.                                           *)
(***************************************************************************)
EXTENDS Naturals, FiniteSets, Sequences

CONSTANTS
  NbConnections,   \* the largest of the bounds on the calls of connect
  Loads,           \* bounds on the calls of connect, on the messages that a
                   \* connection brings and on the messages sent
  MaxPacket,       \* MaxTCPPacketSize, in halves
  BigBuffer        \* size from which sent data is removed (20480), in halves

ASSUME ClientAssumption ==
  /\ NbConnections \in Nat \ {0}
  /\ Loads \subseteq [connections : 1 .. NbConnections, received : Nat, sent : Nat]
  /\ MaxPacket \in Nat
  /\ BigBuffer \in Nat

Connection == 1 .. NbConnections

VARIABLES
  load,        \* what is exchanged, a member of Loads
  peer,        \* the remote end of a connection: "none", "here", "gone"
  halves,      \* number of halves of messages read from a connection
  conn,        \* the connection of Sock, 0 before the first
  up,          \* Sock->_Connected
  state,       \* _ConnectedState
  know,        \* _KnowConnected
  reading,     \* connection of the prefix that is read (_NowReadingBuffer), or 0
  queue,       \* _RecvFifo, of events
  available,   \* _DataAvailable
  holder,      \* the receive thread that has the mutex of _RecvFifo, or 0
  pipe,        \* number of bytes in the data available pipe
  recv,        \* receive threads, one for each connection: [pc, from, of]
  sendFifo,    \* SendFifo, of message numbers
  ready,       \* _ReadyToSendBuffer, of halves
  index,       \* _RTSBIndex
  flow,        \* the halves that the system took for a connection
  pushed,      \* number of messages that were sent so far
  failed,      \* the connections to which the system has failed to send
  main,        \* main thread: [pc, event, back, call]
  told,        \* history: number of disconnection callbacks of a connection
  quit,        \* history: how the socket was when the user called disconnect
  cut,         \* history: a thread was cancelled from its critical section to write
  dropped      \* history: connections of the events extracted instead of others

vars == << load, peer, halves, conn, up, state, know, reading, queue, available, holder,
           pipe, recv, sendFifo, ready, index, flow, pushed, failed, main, told, quit, cut,
           dropped >>

link == << conn, up, state, know >>
mail == << queue, available, holder, pipe >>
buffer == << sendFifo, ready, index >>
sending == << load, buffer, flow, pushed, failed >>
history == << told, quit, cut, dropped >>

(* from is the connection the length prefix of a message came from, of the *)
(* one its payload came from.                                              *)
Event == [type : {"Disconnection", "User"}, from : Connection, of : Connection]
NoEvent == [type |-> "none", from |-> 0, of |-> 0]
Disconnection == [type |-> "Disconnection", from |-> conn, of |-> conn]

Init ==
  /\ load \in Loads
  /\ peer = [c \in Connection |-> "none"]
  /\ halves = [c \in Connection |-> 0]
  /\ conn = 0
  /\ up = FALSE
  /\ state = FALSE
  /\ know = FALSE
  /\ reading = 0
  /\ queue = << >>
  /\ available = FALSE
  /\ holder = 0
  /\ pipe = 0
  /\ recv = [c \in Connection |-> [pc |-> "off", from |-> 0, of |-> 0]]
  /\ sendFifo = << >>
  /\ ready = << >>
  /\ index = 0
  /\ flow = [c \in Connection |-> << >>]
  /\ pushed = 0
  /\ failed = {}
  /\ main = [pc |-> "user", event |-> NoEvent, back |-> "user", call |-> "none"]
  /\ told = [c \in Connection |-> 0]
  /\ quit = [c \in Connection |-> "never"]
  /\ cut = FALSE
  /\ dropped = {}

-----------------------------------------------------------------------------
PeerLeaves(c) ==
  /\ peer[c] = "here"
  /\ peer' = [peer EXCEPT ![c] = "gone"]
  /\ UNCHANGED << sending, halves, link, reading, mail, recv, main, history >>

(* Reading or writing Sock fails.                                          *)
Broken == ~up \/ peer[conn] = "gone"

-----------------------------------------------------------------------------
(* pushMessageIntoReceiveQueue: first the queue and its flag, under the    *)
(* mutex of the queue, then the pipe.  The main thread is never cancelled: *)
(* its critical sections are one step each, when no thread has the mutex.  *)
PushMessage(e) == holder = 0 /\ queue' = Append(queue, e) /\ available' = TRUE
WritePipe == pipe' = pipe + 1
ReadPipe == pipe > 0 /\ pipe' = pipe - 1

Front == IF queue = << >> THEN {} ELSE {Head(queue)}

(* CBufFIFO::pop does nothing to an empty queue.                           *)
PopMessage ==
  /\ holder = 0
  /\ queue' = IF queue = << >> THEN << >> ELSE Tail(queue)
  /\ available' = (queue' # << >>)

-----------------------------------------------------------------------------
(* Receive threads, CClientReceiveTask::run.  Whatever connection it was   *)
(* started for, a thread reads Sock, that is connection conn.              *)
GoTo(r, pc) == recv' = [recv EXCEPT ![r].pc = pc]

MaySpeak == halves[conn] < 2 * load.received

(* The conditions of the loops of run: select finds something to read, or  *)
(* the socket is no longer connected.  If that is seen after a select, it  *)
(* is read once more.                                                      *)
RecvSelect(r) ==
  /\ recv[r].pc = "loop"
  /\ up => Broken \/ MaySpeak
  /\ \E pc \in (IF up THEN {"read"} ELSE {"read", "ended"}) : GoTo(r, pc)
  /\ UNCHANGED << sending, peer, halves, link, reading, mail, main, history >>

(* receivePart reads a length prefix ...                                   *)
RecvPrefix(r) ==
  /\ recv[r].pc = "read"
  /\ MaySpeak
  /\ reading = 0
  /\ halves' = [halves EXCEPT ![conn] = @ + 1]
  /\ reading' = conn
  /\ GoTo(r, "loop")
  /\ UNCHANGED << sending, peer, link, mail, main, history >>

BadRecvPayload(r) ==
  /\ recv[r].pc = "read"
  /\ MaySpeak
  /\ halves' = [halves EXCEPT ![conn] = @ + 1]
  /\ reading' = 0
  /\ recv' = [recv EXCEPT ![r] = [pc |-> "push", from |-> reading, of |-> conn]]
  /\ UNCHANGED << sending, peer, link, mail, main, history >>

(* ... or a payload: the message is complete.                              *)
RecvPayload(r) ==
  /\ recv[r].pc = "read"
  /\ MaySpeak
  /\ reading # 0
  /\ halves' = [halves EXCEPT ![conn] = @ + 1]
  /\ reading' = 0
  /\ recv' = [recv EXCEPT ![r] = [pc |-> "push", from |-> reading, of |-> conn]]
  /\ UNCHANGED << sending, peer, link, mail, main, history >>

BadRecvBroken(r) ==
  /\ recv[r].pc = "read"
  /\ Broken
  /\ GoTo(r, "ended")
  /\ UNCHANGED << sending, peer, halves, link, reading, mail, main, history >>

(* receivePart throws, or finds that the connection is closed.             *)
RecvBroken(r) ==
  /\ recv[r].pc = "read"
  /\ Broken
  /\ up' = FALSE
  /\ GoTo(r, "ended")
  /\ UNCHANGED << sending, peer, halves, conn, state, know, reading, mail, main, history >>

(* The message is complete: pushMessageIntoReceiveQueue, under the mutex.  *)
RecvPush(r) ==
  /\ recv[r].pc = "push"
  /\ holder = 0
  /\ holder' = r
  /\ queue' = Append(queue, [type |-> "User", from |-> recv[r].from, of |-> recv[r].of])
  /\ recv' = [recv EXCEPT ![r] = [pc |-> "flag", from |-> 0, of |-> 0]]
  /\ UNCHANGED << sending, peer, halves, link, reading, available, pipe, main, history >>

(* The end of the critical section.                                        *)
RecvFlag(r) ==
  /\ recv[r].pc = "flag"
  /\ holder' = 0
  /\ available' = TRUE
  /\ GoTo(r, "write")
  /\ UNCHANGED << sending, peer, halves, link, reading, queue, pipe, main, history >>

BadRecvWrite(r) ==
  /\ recv[r].pc = "write"
  /\ GoTo(r, "loop")
  /\ UNCHANGED << sending, peer, halves, link, reading, mail, main, history >>

RecvWrite(r) ==
  /\ recv[r].pc = "write"
  /\ WritePipe
  /\ GoTo(r, "loop")
  /\ UNCHANGED << sending, peer, halves, link, reading, queue, available, holder, main,
                  history >>

(* connect has asked for the end of the thread.                            *)
Cancelled(r) == r < conn /\ ~(main.pc = "connecting" /\ r + 1 = conn)

(* It ends, wherever it is.  What receivePart has read meanwhile may be    *)
(* lost.  In the critical section the queue and the flag may be changed or *)
(* not yet, and the mutex stays taken, unless the stack is unwound.        *)
RecvCancelled(r) ==
  /\ recv[r].pc \notin {"off", "ended"}
  /\ Cancelled(r)
  /\ recv' = [recv EXCEPT ![r] = [pc |-> "ended", from |-> 0, of |-> 0]]
  /\ \/ UNCHANGED << halves, available, holder >>
     \/ /\ recv[r].pc = "read"
        /\ MaySpeak
        /\ halves' = [halves EXCEPT ![conn] = @ + 1]
        /\ UNCHANGED << available, holder >>
     \/ /\ recv[r].pc = "push"
        /\ holder = 0
        /\ holder' = r
        /\ UNCHANGED << halves, available >>
     \/ /\ recv[r].pc = "flag"
        /\ available' \in {available, TRUE}
        /\ holder' \in {r, 0}
        /\ UNCHANGED halves
  /\ cut' = (cut \/ recv[r].pc \in {"flag", "write"} \/ holder' # holder)
  /\ UNCHANGED << sending, peer, link, reading, queue, pipe, main, told, quit, dropped >>

-----------------------------------------------------------------------------
(* Main thread.  User code runs between the calls of update and in the     *)
(* callbacks.                                                              *)
UserRuns == main.pc \in {"user", "callback", "message"}
MainGoes(pc) == main' = [main EXCEPT !.pc = pc, !.call = "none"]

BadConnect ==
  /\ UserRuns
  /\ ~up
  /\ ~state
  /\ conn < load.connections
  /\ conn' = conn + 1
  /\ peer' = [peer EXCEPT ![conn + 1] = "here"]
  /\ up' = TRUE
  /\ state' = TRUE
  /\ know' = TRUE
  /\ main' = [main EXCEPT !.pc = "connecting", !.back = main.pc]
  /\ UNCHANGED << sending, halves, reading, mail, recv, history >>

(* connect, by a user that has seen the end of the previous connection:    *)
(* the socket is connected and the buffer being sent is emptied, but not   *)
(* the queue of messages ...                                               *)
Connect ==
  /\ UserRuns
  /\ ~up
  /\ ~state
  /\ conn < load.connections
  /\ conn' = conn + 1
  /\ peer' = [peer EXCEPT ![conn + 1] = "here"]
  /\ up' = TRUE
  /\ state' = TRUE
  /\ know' = TRUE
  /\ ready' = << >>
  /\ index' = 0
  /\ main' = [main EXCEPT !.pc = "connecting", !.back = main.pc]
  /\ UNCHANGED << load, sendFifo, flow, pushed, failed, halves, reading, mail, recv, history >>

(* ... then the previous receive thread, if it has not ended, is cancelled *)
(* (RecvCancelled), and the new one starts.                                *)
StartThread ==
  /\ main.pc = "connecting"
  /\ GoTo(conn, "loop")
  /\ MainGoes(main.back)
  /\ UNCHANGED << sending, peer, halves, link, reading, mail, history >>

(* advertiseDisconnection, once for each connection: the event ...         *)
AdvertiseDisconnection(back) ==
  main' = [main EXCEPT !.pc = IF know THEN "advertising" ELSE back, !.back = back,
                       !.call = "none"]

Advertise ==
  /\ main.pc = "advertising"
  /\ PushMessage(Disconnection)
  /\ MainGoes("advertised")
  /\ UNCHANGED << sending, peer, halves, link, reading, holder, pipe, recv, history >>

BadAdvertised ==
  /\ main.pc = "advertised"
  /\ WritePipe
  /\ MainGoes(main.back)
  /\ UNCHANGED << sending, peer, halves, link, reading, queue, available, holder, recv,
                  history >>

(* ... then the byte and the flag.                                         *)
Advertised ==
  /\ main.pc = "advertised"
  /\ WritePipe
  /\ know' = FALSE
  /\ MainGoes(main.back)
  /\ UNCHANGED << sending, peer, halves, conn, up, state, reading, queue, available, holder,
                  recv, history >>

-----------------------------------------------------------------------------
(* Sending, in the main thread: send, update, flush and disconnect call    *)
(* CBufSock::flush and go on in their own ways.                            *)
Flushes(call, back) ==
  main' = [main EXCEPT !.pc = "flushing", !.back = back, !.call = call]

(* send: the message is queued, then a trigger may flush the queue.        *)
Send ==
  /\ UserRuns
  /\ up
  /\ pushed < load.sent
  /\ pushed' = pushed + 1
  /\ sendFifo' = Append(sendFifo, pushed + 1)
  /\ Flushes("send", main.pc) \/ UNCHANGED main
  /\ UNCHANGED << load, ready, index, flow, failed, peer, halves, link, reading, mail, recv,
                  history >>

(* The socket is not connected any more.                                   *)
SendFails ==
  /\ UserRuns
  /\ conn # 0
  /\ ~up
  /\ AdvertiseDisconnection(main.pc)
  /\ UNCHANGED << sending, peer, halves, link, reading, mail, recv, history >>

Flush ==
  /\ UserRuns
  /\ Flushes("flush", main.pc)
  /\ UNCHANGED << sending, peer, halves, link, reading, mail, recv, history >>

(* Where the main thread goes on after a flush.                            *)
AfterFlush ==
  IF main.call = "update" THEN "sent"
  ELSE IF main.call = "disconnect" THEN "quitting"
  ELSE main.back

(* What flush moves from the queue to the buffer: messages, as long as the *)
(* buffer is empty or the payload stays below the size of a packet.        *)
Fits(i) == LET size == Len(ready) + 2 * i IN size = 0 \/ size + 1 < MaxPacket

Moved ==
  CHOOSE k \in 0 .. Len(sendFifo) :
    (\A i \in 0 .. k - 1 : Fits(i)) /\ (k = Len(sendFifo) \/ ~Fits(k))

Halves(messages) ==
  [i \in 1 .. 2 * Len(messages) |-> 2 * messages[(i + 1) \div 2] - (i % 2)]

Filled == ready \o Halves(SubSeq(sendFifo, 1, Moved))
Unmoved == SubSeq(sendFifo, Moved + 1, Len(sendFifo))

(* The system takes n halves.  flush goes on if that was all and there are *)
(* more messages, and succeeds otherwise.                                  *)
FlushSends(n) ==
  /\ main.pc = "flushing"
  /\ Filled # << >>
  /\ up
  /\ conn \notin failed
  /\ index + n <= Len(Filled)
  /\ flow' = [flow EXCEPT ![conn] = @ \o SubSeq(Filled, index + 1, index + n)]
  /\ sendFifo' = Unmoved
  /\ \/ /\ index + n = Len(Filled)
        /\ ready' = << >>
        /\ index' = 0
     \/ /\ index + n < Len(Filled)
        /\ Len(Filled) <= BigBuffer
        /\ ready' = Filled
        /\ index' = index + n
     \/ /\ index + n < Len(Filled)
        /\ Len(Filled) > BigBuffer
        /\ ready' = SubSeq(Filled, index + n + 1, Len(Filled))
        /\ index' = 0
  /\ UNCHANGED << load, pushed, failed, peer, halves, link, reading, mail, recv, history >>
  /\ IF ready' = << >> /\ sendFifo' # << >> THEN UNCHANGED main ELSE MainGoes(AfterFlush)

(* There is nothing to send.                                               *)
FlushNothing ==
  /\ main.pc = "flushing"
  /\ Filled = << >>
  /\ MainGoes(AfterFlush)
  /\ UNCHANGED << sending, peer, halves, link, reading, mail, recv, history >>

(* Sending fails: the buffer is lost.  update disconnects the socket, send *)
(* does not; both advertise the disconnection.  The others do not look at  *)
(* the result.                                                             *)
FlushFails ==
  /\ main.pc = "flushing"
  /\ Filled # << >>
  /\ Broken
  /\ sendFifo' = Unmoved
  /\ ready' = << >>
  /\ index' = 0
  /\ failed' = failed \union {conn}
  /\ \/ main.call = "send" /\ AdvertiseDisconnection(main.back) /\ UNCHANGED up
     \/ main.call = "update" /\ AdvertiseDisconnection(main.back) /\ up' = FALSE
     \/ main.call \in {"flush", "disconnect"} /\ MainGoes(AfterFlush)
                                             /\ UNCHANGED up
  /\ UNCHANGED << load, flow, pushed, peer, halves, conn, state, know, reading, mail, recv,
                  history >>

-----------------------------------------------------------------------------
(* disconnect: the socket only if it is still connected.  It is quick here *)
(* ...                                                                     *)
Disconnect ==
  /\ UserRuns
  /\ state
  /\ up' = FALSE
  /\ IF up THEN state' = FALSE /\ know' = FALSE ELSE UNCHANGED << state, know >>
  /\ quit' = [quit EXCEPT ![conn] = IF up THEN "connected" ELSE "closed"]
  /\ main' = [main EXCEPT !.pc = "clearing", !.back = main.pc]
  /\ UNCHANGED << sending, peer, halves, conn, reading, mail, recv, told, cut, dropped >>

(* ... or flushes first what it has found connected.                       *)
DisconnectFlushes ==
  /\ UserRuns
  /\ state
  /\ up
  /\ Flushes("disconnect", main.pc)
  /\ UNCHANGED << sending, peer, halves, link, reading, mail, recv, history >>

DisconnectEnds ==
  /\ main.pc = "quitting"
  /\ up' = FALSE
  /\ state' = FALSE
  /\ know' = FALSE
  /\ quit' = [quit EXCEPT ![conn] = "connected"]
  /\ MainGoes("clearing")
  /\ UNCHANGED << sending, peer, halves, conn, reading, mail, recv, told, cut, dropped >>

BadClearQueue ==
  /\ main.pc = "clearing"
  /\ holder = 0
  /\ MainGoes(main.back)
  /\ UNCHANGED << sending, peer, halves, link, reading, mail, recv, history >>

(* Then it empties the queue.                                              *)
ClearQueue ==
  /\ main.pc = "clearing"
  /\ holder = 0
  /\ queue' = << >>
  /\ available' = FALSE
  /\ MainGoes(main.back)
  /\ UNCHANGED << sending, peer, halves, link, reading, holder, pipe, recv, history >>

UserUpdates ==
  /\ main.pc = "user"
  /\ MainGoes("poll")
  /\ UNCHANGED << sending, peer, halves, link, reading, mail, recv, history >>

(* dataAvailable: the flag, then the front of the queue.                   *)
Poll ==
  /\ main.pc = "poll"
  /\ IF available THEN holder = 0 /\ main' = [main EXCEPT !.pc = "peeked", !.event = Head(queue)]
                  ELSE MainGoes("flush")
  /\ UNCHANGED << sending, peer, halves, link, reading, mail, recv, history >>

MessageAvailable ==
  /\ main.pc = "peeked"
  /\ main.event.type = "User"
  /\ ReadPipe
  /\ MainGoes("receive")
  /\ UNCHANGED << sending, peer, halves, link, reading, queue, available, holder, recv,
                  history >>

DisconnectionEvent ==
  /\ main.pc = "peeked"
  /\ main.event.type = "Disconnection"
  /\ ReadPipe
  /\ state' = FALSE
  /\ told' = [told EXCEPT ![main.event.of] = @ + 1]
  /\ MainGoes("callback")
  /\ UNCHANGED << sending, peer, halves, conn, up, know, reading, queue, available, holder,
                  recv, quit, cut, dropped >>

(* The callback returns and the event is extracted; if the user has        *)
(* disconnected in the callback, that is another one, or none.             *)
Extract ==
  /\ main.pc = "callback"
  /\ PopMessage
  /\ dropped' = dropped \union {e.of : e \in {f \in Front : f # main.event}}
  /\ main' = [main EXCEPT !.pc = "poll", !.event = NoEvent]
  /\ UNCHANGED << sending, peer, halves, link, reading, holder, pipe, recv, told, quit, cut >>

Receive ==
  /\ main.pc = "receive"
  /\ PopMessage
  /\ main' = [main EXCEPT !.pc = "message", !.event = Head(queue)]
  /\ UNCHANGED << sending, peer, halves, link, reading, holder, pipe, recv, history >>

MessageDone ==
  /\ main.pc = "message"
  /\ \E pc \in {"poll", "flush"} : main' = [main EXCEPT !.pc = pc, !.event = NoEvent]
  /\ UNCHANGED << sending, peer, halves, link, reading, mail, recv, history >>

(* update: a trigger flushes the queue or not; then the socket is fine ... *)
UpdateFlushes ==
  /\ main.pc = "flush"
  /\ Flushes("update", "user")
  /\ UNCHANGED << sending, peer, halves, link, reading, mail, recv, history >>

UpdateSent ==
  /\ main.pc \in {"flush", "sent"}
  /\ up \/ conn = 0
  /\ MainGoes("user")
  /\ UNCHANGED << sending, peer, halves, link, reading, mail, recv, history >>

(* ... or is not connected any more.                                       *)
UpdateFails ==
  /\ main.pc \in {"flush", "sent"}
  /\ conn # 0
  /\ ~up
  /\ AdvertiseDisconnection("user")
  /\ UNCHANGED << sending, peer, halves, link, reading, mail, recv, history >>

BadDestroy ==
  /\ main.pc = "user"
  /\ main' = [main EXCEPT !.pc = "joining", !.back = "joining"]
  /\ UNCHANGED << sending, peer, halves, link, reading, mail, recv, history >>

(* ~CBufClient: disconnect(true) if the socket is connected, then the      *)
(* current receive thread is joined.                                       *)
Destroy ==
  /\ main.pc = "user"
  /\ main' = [main EXCEPT !.pc = IF up THEN "clearing" ELSE "joining", !.back = "joining"]
  /\ up' = FALSE
  /\ IF up THEN state' = FALSE /\ know' = FALSE ELSE UNCHANGED << state, know >>
  /\ UNCHANGED << sending, peer, halves, conn, reading, mail, recv, history >>

Destroyed ==
  /\ main.pc = "joining"
  /\ conn # 0 => recv[conn].pc = "ended"
  /\ MainGoes("destroyed")
  /\ UNCHANGED << sending, peer, halves, link, reading, mail, recv, history >>

-----------------------------------------------------------------------------
ReceiveThread(r) ==
  \/ RecvSelect(r)
  \/ RecvPrefix(r)
  \/ RecvPayload(r)
  \/ RecvBroken(r)
  \/ RecvPush(r)
  \/ RecvFlag(r)
  \/ RecvWrite(r)

DataAvailable == Poll \/ MessageAvailable \/ DisconnectionEvent \/ Extract

FlushGoesOn == (\E n \in 0 .. 2 * load.sent : FlushSends(n)) \/ FlushNothing \/ FlushFails

(* What the main thread goes through without the user's choice.            *)
Main ==
  \/ StartThread
  \/ Advertise
  \/ Advertised
  \/ UserUpdates
  \/ DataAvailable
  \/ Receive
  \/ MessageDone
  \/ FlushGoesOn
  \/ DisconnectEnds
  \/ ClearQueue
  \/ UpdateFlushes
  \/ UpdateSent
  \/ UpdateFails
  \/ Destroyed

Next ==
  \/ \E c \in Connection : PeerLeaves(c)
  \/ \E r \in Connection : ReceiveThread(r) \/ RecvCancelled(r)
  \/ Main
  \/ Connect
  \/ Send
  \/ SendFails
  \/ Flush
  \/ Disconnect
  \/ DisconnectFlushes
  \/ Destroy

(* Threads are scheduled, a cancelled thread ends, and the user, whatever  *)
(* else he calls, calls update again and again and returns from his        *)
(* callbacks.  The mutex of the queue is taken only as often as messages   *)
(* arrive: who waits for it stays enabled from some time on, if it is not  *)
(* left taken.                                                             *)
UserReturns == UserUpdates \/ Extract \/ MessageDone

Fairness ==
  /\ \A r \in Connection : WF_vars(ReceiveThread(r)) /\ WF_vars(RecvCancelled(r))
  /\ WF_vars(Main)
  /\ SF_vars(UserReturns)

Spec == Init /\ [][Next]_vars /\ Fairness

-----------------------------------------------------------------------------
RecvState ==
  [pc : {"off", "loop", "read", "push", "flag", "write", "ended"},
   from : Connection \union {0}, of : Connection \union {0}]

MainState ==
  [pc : {"user", "connecting", "poll", "peeked", "receive", "message", "callback",
         "advertising", "advertised", "flush", "flushing", "sent", "quitting", "clearing",
         "joining", "destroyed"},
   event : Event \union {NoEvent},
   back : {"user", "callback", "message", "joining"},
   call : {"none", "send", "flush", "update", "disconnect"}]

LinkOK ==
  /\ peer \in [Connection -> {"none", "here", "gone"}]
  /\ halves \in [Connection -> 0 .. 2 * load.received]
  /\ conn \in Connection \union {0}
  /\ up \in BOOLEAN
  /\ state \in BOOLEAN
  /\ know \in BOOLEAN
  /\ reading \in Connection \union {0}

MailOK ==
  /\ queue \in Seq(Event)
  /\ available \in BOOLEAN
  /\ holder \in Connection \union {0}
  /\ pipe \in Nat

SendingOK ==
  /\ sendFifo \in Seq(1 .. load.sent)
  /\ ready \in Seq(1 .. 2 * load.sent)
  /\ index \in 0 .. Len(ready)
  /\ flow \in [Connection -> Seq(1 .. 2 * load.sent)]
  /\ pushed \in 0 .. load.sent
  /\ failed \subseteq Connection

HistoryOK ==
  /\ told \in [Connection -> Nat]
  /\ quit \in [Connection -> {"never", "connected", "closed"}]
  /\ cut \in BOOLEAN
  /\ dropped \subseteq Connection

TypeOK ==
  /\ load \in Loads
  /\ recv \in [Connection -> RecvState]
  /\ main \in MainState
  /\ LinkOK
  /\ MailOK
  /\ SendingOK
  /\ HistoryOK

(* What the user is told matches what happens.  The end of a connection is *)
(* told at most once, and before the next connection is made, though the   *)
(* event waits in the queue that all connections share.  The socket is not *)
(* connected while the user believes that it is not: the assertions of     *)
(* connect (buf_client.cpp:94) and of the destructor (buf_client.cpp:385)  *)
(* hold for a user that goes by the callbacks, unless sending has failed,  *)
(* which leaves the socket connected though send advertises the end of the *)
(* connection.                                                             *)
UserView ==
  /\ \A c \in Connection : told[c] <= 1
  /\ main.pc = "peeked" /\ main.event.type = "Disconnection" => main.event.of = conn
  /\ up => state \/ conn \in failed

(* The main thread has read the byte of the event at the front.            *)
HandlesEvent ==
  \/ main.pc = "callback"
  \/ /\ main.pc \in {"connecting", "advertising", "advertised", "flushing", "quitting", "clearing"}
     /\ main.back = "callback"

(* The flag that dataAvailable tests without the mutex is never set when   *)
(* there is nothing: "Because _DataAvailable is true, the receive queue is *)
(* not empty" (buf_client.cpp:156).  As long as no receive thread was      *)
(* cancelled in its critical section or before its write, the flag is set  *)
(* whenever the mutex is free and there is something, and a byte is in the *)
(* data available pipe, or a thread is about to write it, for every event  *)
(* of the queue: the read of dataAvailable never blocks for good.  There   *)
(* may be more bytes, as disconnect empties the queue but not the pipe.    *)
PipeSuffices ==
  /\ available => queue # << >>
  /\ ~cut => /\ holder = 0 /\ queue # << >> => available
             /\ pipe + (IF main.pc = "advertised" THEN 1 ELSE 0)
                  + Cardinality({r \in Connection : recv[r].pc \in {"flag", "write"}})
                  + (IF main.pc = "receive" \/ HandlesEvent THEN 1 ELSE 0)
                >= Len(queue)

(* buf_client.h:107, about disconnect: "The disconnection callback will    *)
(* *not* be called".  It is not if the socket is still connected, whatever *)
(* the receive thread, update and send notice at the same time.            *)
DisconnectIsSilent == \A c \in Connection : quit[c] = "connected" => told[c] = 0

(* What the system takes for a connection begins with a whole message and  *)
(* goes on message by message, each of them once and in the order sent,    *)
(* though sends are partial, the buffer is filled behind what is left of   *)
(* it, emptied, moved and lost, and the queue outlives the connection.     *)
StreamIsWhole ==
  /\ \A c \in Connection : \A i \in 1 .. Len(flow[c]) :
       IF i % 2 = 0 THEN flow[c][i] = flow[c][i - 1] + 1
                    ELSE flow[c][i] % 2 = 1 /\ (i > 1 => flow[c][i - 1] < flow[c][i])
  /\ \A c, d \in Connection : c < d =>
       \A i \in 1 .. Len(flow[c]), j \in 1 .. Len(flow[d]) : flow[c][i] < flow[d][j]

(* When the remote end is gone, for good, the user is told, unless he has  *)
(* disconnected or has destroyed the client before, or a thread was        *)
(* cancelled in its critical section or before its write: then its byte is *)
(* missing, or the mutex stays taken for ever.  The report is lost if the  *)
(* user connects, disconnects and connects in a callback: the event of the *)
(* last connection is extracted when the callback returns                  *)
(* (buf_client.cpp:209).                                                   *)
Unreported ==
  {c \in Connection : /\ peer[c] = "gone"
                      /\ told[c] = 0
                      /\ quit[c] = "never"
                      /\ c \notin dropped}

GoneIsReported == []<>(Unreported = {} \/ main.back = "joining" \/ cut)

(* A thread that was cancelled has left the mutex of the queue taken.      *)
Orphaned == holder # 0 /\ recv[holder].pc = "ended"

(* The destructor, which locks the queue and joins the receive thread,     *)
(* returns, unless the mutex of the queue was left taken.                  *)
DestroyReturns == main.back = "joining" ~> main.pc = "destroyed" \/ Orphaned

-----------------------------------------------------------------------------
(* tcp_sock.cpp:75, "You can reconnect a socket after being disconnected", *)
(* and buf_client.cpp:102, "Allow reconnection": a message that the user   *)
(* receives was sent on one connection, none is put together from two.     *)
MessageIsWhole == main.pc = "message" => main.event.from = main.event.of

(* buf_client.cpp:152, about dataAvailable with user data in the queue:    *)
(* "return true immediately".  It does not wait for a byte of the pipe     *)
(* that nobody is about to write.                                          *)
DataAvailableReturns == main.pc = "peeked" ~> main.pc # "peeked"
=============================================================================
