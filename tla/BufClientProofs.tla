-------------------------- MODULE BufClientProofs ---------------------------
(***************************************************************************)
(* Theorems about BufClient, for every number of connections, every set of *)
(* loads and every size of packets and buffers.                            *)
(***************************************************************************)
EXTENDS BufClient, TLAPS, FiniteSetTheorems, SequenceTheorems

(* A connection that is not made has no receive thread, and nothing is     *)
(* sent or reported before the first connection.                           *)
ThreadsOK ==
  /\ up \/ state \/ sendFifo # << >> \/ ready # << >> \/ main.pc = "connecting" => conn # 0
  /\ \A r \in Connection :
       /\ r > conn \/ (r = conn /\ main.pc = "connecting") => recv[r].pc = "off"
       /\ recv[r].pc = "push" => recv[r].from # 0 /\ recv[r].of # 0

(* A thread in the critical section has the mutex, and what it has queued  *)
(* stays there.                                                            *)
SectionOK == \A r \in Connection : recv[r].pc = "flag" => holder = r /\ queue # << >>

(* disconnect has found the socket connected and flushes.                  *)
Quitting == main.pc = "quitting" \/ (main.pc = "flushing" /\ main.call = "disconnect")

(* The event that the main thread has looked at stays at the front until   *)
(* it is extracted, and the user of a connected socket believes that it is *)
(* connected, unless sending has failed.                                   *)
MainOK ==
  /\ main.pc = "flushing" /\ main.call = "update" => main.back = "user"
  /\ main.pc \in {"peeked", "receive"} => queue # << >> /\ main.event = Head(queue)
  /\ Quitting => state
  /\ know => state
  /\ main.pc = "advertising" => know
  /\ up /\ conn \notin failed => know /\ main.pc \notin {"advertising", "advertised"}

(* The event at the front is the one whose callback has not returned.      *)
Handled(i) == i = 1 /\ HandlesEvent /\ queue[1] = main.event

(* Disconnections in the queue, which the user has not been told of.       *)
Reports == {i \in 1 .. Len(queue) : queue[i].type = "Disconnection" /\ ~Handled(i)}

(* At most one report waits, that of the current connection, and only as   *)
(* long as the user believes that it is connected, or disconnect is about  *)
(* to empty the queue; he was not told before, nor has he disconnected.    *)
ReportsOK ==
  /\ \A i \in Reports : /\ queue[i].of = conn
                        /\ state \/ main.pc = "clearing"
                        /\ know => main.pc = "advertised"
  /\ \A i, j \in Reports : i = j
  /\ HandlesEvent => main.event \in Event /\ told[main.event.of] = 1
  /\ \A c \in Connection : told[c] <= 1 /\ (c > conn => told[c] = 0 /\ quit[c] = "never")
  /\ state => told[conn] = 0 /\ quit[conn] # "connected"
  /\ DisconnectIsSilent

IInv ==
  /\ TypeOK
  /\ ThreadsOK
  /\ SectionOK
  /\ MainOK
  /\ ReportsOK
  /\ PipeSuffices

-----------------------------------------------------------------------------
LEMMA LoadBounds ==
  ASSUME TypeOK
  PROVE  load.connections \in 1 .. NbConnections /\ load.received \in Nat /\ load.sent \in Nat
  BY ClientAssumption DEF TypeOK

(* flush moves as many messages as the queue has, or fewer.                *)
LEMMA MovedInRange ==
  ASSUME TypeOK
  PROVE  Moved \in 0 .. Len(sendFifo)
PROOF
  <1> DEFINE n == Len(sendFifo)
             l == Len(ready)
             Stop(k) == (\A i \in 0 .. k - 1 : Fits(i)) /\ (k = n \/ ~Fits(k))
             k0 == IF l = 0 THEN (IF MaxPacket \div 2 = 0 THEN 1 ELSE MaxPacket \div 2)
                   ELSE IF MaxPacket <= l THEN 0 ELSE (MaxPacket - l) \div 2
  <1>1. n \in Nat /\ l \in Nat /\ MaxPacket \in Nat
    BY ClientAssumption, LenProperties DEF TypeOK, SendingOK
  <1>2. \A i \in Nat : Fits(i) <=> (l + 2 * i = 0 \/ l + 2 * i + 1 < MaxPacket)
    BY DEF Fits
  <1> HIDE DEF n, l
  <1>3. k0 \in Nat /\ ~Fits(k0) /\ \A i \in 0 .. k0 - 1 : Fits(i)
    <2>1. k0 \in Nat
      BY <1>1
    <2>2. ~Fits(k0)
      BY <1>1, <1>2, <2>1
    <2>3. ASSUME NEW i \in 0 .. k0 - 1 PROVE Fits(i)
      BY <1>1, <1>2, <2>1
    <2> QED BY <2>1, <2>2, <2>3
  <1> HIDE DEF k0
  <1>4. \E k \in 0 .. n : Stop(k)
    <2>1. CASE k0 <= n
      BY <1>1, <1>3, <2>1
    <2>2. CASE n < k0
      BY <1>1, <1>3, <2>2
    <2> QED BY <1>1, <1>3, <2>1, <2>2
  <1> QED BY <1>4 DEF Moved, n

(* The buffer that flush fills holds halves of messages, as the queue      *)
(* holds messages; before the first message is sent there is nothing.      *)
LEMMA FlushTypes ==
  ASSUME TypeOK
  PROVE  /\ Filled \in Seq(1 .. 2 * load.sent)
         /\ Unmoved \in Seq(1 .. load.sent)
         /\ sendFifo = << >> => Unmoved = << >>
         /\ sendFifo = << >> /\ ready = << >> => Filled = << >>
PROOF
  <1> DEFINE M == 1 .. load.sent
             H == 1 .. 2 * load.sent
             n == Len(sendFifo)
             first == SubSeq(sendFifo, 1, Moved)
  <1>1. /\ load.sent \in Nat
        /\ sendFifo \in Seq(M)
        /\ ready \in Seq(H)
        /\ Moved \in 0 .. n
        /\ n \in Nat
        /\ \A i \in 1 .. n : sendFifo[i] \in M
    BY LoadBounds, MovedInRange, LenProperties, ElementOfSeq DEF TypeOK, SendingOK
  <1>2. /\ first \in Seq(M)
        /\ Len(first) = Moved
        /\ \A i \in 1 .. Moved : first[i] \in M
    BY <1>1, SubSeqProperties, ElementOfSeq
  <1>3. Unmoved \in Seq(M) /\ Len(Unmoved) = n - Moved
    BY <1>1, SubSeqProperties DEF Unmoved
  <1> HIDE DEF first
  <1>4. Halves(first) \in Seq(H) /\ Len(Halves(first)) = 2 * Moved
    <2> DEFINE h(i) == 2 * first[(i + 1) \div 2] - (i % 2)
    <2>1. \A i \in 1 .. 2 * Moved : (i + 1) \div 2 \in 1 .. Moved
      BY <1>1
    <2>2. \A i \in 1 .. 2 * Moved : first[(i + 1) \div 2] \in M
      BY <1>2, <2>1
    <2>3. \A i \in 1 .. 2 * Moved : h(i) \in H
      <3>1. \A m \in M, b \in {0, 1} : 2 * m - b \in H
        BY <1>1
      <3>2. \A i \in 1 .. 2 * Moved : i % 2 \in {0, 1}
        BY <1>1
      <3> QED BY <2>2, <3>1, <3>2
    <2>4. 2 * Moved \in Nat
      BY <1>1
    <2>5. Halves(first) = [i \in 1 .. 2 * Moved |-> h(i)]
      BY <1>2 DEF Halves
    <2>6. Halves(first) \in [1 .. 2 * Moved -> H]
      BY <2>3, <2>5
    <2>7. Halves(first) \in Seq(H)
      BY <2>4, <2>6, SeqDef
    <2> QED BY <2>4, <2>6, <2>7, LenProperties
  <1>5. Filled \in Seq(H) /\ Len(Filled) = Len(ready) + 2 * Moved
    BY <1>1, <1>4, ConcatProperties DEF Filled, first
  <1>6. ASSUME sendFifo = << >> PROVE n = 0 /\ Moved = 0
    BY <1>1, <1>6
  <1>7. sendFifo = << >> => Unmoved = << >>
    BY <1>3, <1>6, EmptySeq
  <1>8. ASSUME sendFifo = << >>, ready = << >> PROVE Filled = << >>
    <2>1. Len(Filled) = 0
      BY <1>5, <1>6, <1>8
    <2> QED BY <1>5, <2>1
  <1> QED BY <1>3, <1>5, <1>7, <1>8

-----------------------------------------------------------------------------
(* Which actions change what.                                              *)
LEMMA Frame ==
  ASSUME [Next]_vars
  PROVE
    /\ UNCHANGED load
    /\ \/ UNCHANGED recv
       \/ StartThread
       \/ \E r \in Connection : ReceiveThread(r) \/ RecvCancelled(r)
    /\ \/ UNCHANGED << link, peer, halves, reading >>
       \/ \E c \in Connection : PeerLeaves(c)
       \/ \E r \in Connection :
            RecvPrefix(r) \/ RecvPayload(r) \/ RecvBroken(r) \/ RecvCancelled(r)
       \/ Connect \/ Advertised \/ DisconnectionEvent \/ FlushFails
       \/ Disconnect \/ DisconnectEnds \/ Destroy
    /\ \/ UNCHANGED mail
       \/ \E r \in Connection :
            RecvPush(r) \/ RecvFlag(r) \/ RecvWrite(r) \/ RecvCancelled(r)
       \/ Advertise \/ Advertised
       \/ MessageAvailable \/ DisconnectionEvent \/ Extract \/ Receive
       \/ ClearQueue
    /\ \/ UNCHANGED << buffer, flow, pushed, failed >>
       \/ Connect \/ Send \/ (\E n \in Nat : FlushSends(n)) \/ FlushFails
    /\ \/ UNCHANGED history
       \/ \E r \in Connection : RecvCancelled(r)
       \/ DisconnectionEvent \/ Extract \/ Disconnect \/ DisconnectEnds
PROOF
  <1> USE DEF link, mail, buffer, sending, history
  <1>1. CASE UNCHANGED vars
    BY <1>1 DEF vars
  <1>2. CASE \E c \in Connection : PeerLeaves(c)
    BY <1>2 DEF PeerLeaves
  <1>3. ASSUME NEW r \in Connection, ReceiveThread(r)
        PROVE  /\ UNCHANGED << load, buffer, flow, pushed, failed, history >>
               /\ UNCHANGED << link, peer, halves, reading >>
                    \/ RecvPrefix(r) \/ RecvPayload(r) \/ RecvBroken(r)
               /\ UNCHANGED mail \/ RecvPush(r) \/ RecvFlag(r) \/ RecvWrite(r)
    BY <1>3 DEF ReceiveThread, RecvSelect, RecvPrefix, RecvPayload, RecvBroken, RecvPush,
                RecvFlag, RecvWrite
  <1>4. CASE StartThread \/ Advertise \/ Advertised \/ ClearQueue
    BY <1>4 DEF StartThread, Advertise, Advertised, ClearQueue
  <1>5. CASE UserUpdates \/ Receive \/ MessageDone \/ UpdateFlushes \/ UpdateSent \/ UpdateFails
             \/ Destroyed
    BY <1>5
    DEF UserUpdates, Receive, MessageDone, UpdateFlushes, UpdateSent, UpdateFails, Destroyed
  <1>6. CASE DataAvailable
    BY <1>6 DEF DataAvailable, Poll, MessageAvailable, DisconnectionEvent, Extract
  <1>7. ASSUME NEW n \in Nat, FlushSends(n)
        PROVE  UNCHANGED << load, recv, link, peer, halves, reading, mail, history >>
    BY <1>7 DEF FlushSends
  <1>8. CASE FlushNothing \/ FlushFails \/ DisconnectEnds
    BY <1>8 DEF FlushNothing, FlushFails, DisconnectEnds
  <1>9. CASE FlushGoesOn
    <2>1. 0 .. 2 * load.sent \subseteq Nat
      OBVIOUS
    <2> QED BY <1>7, <1>8, <1>9, <2>1 DEF FlushGoesOn
  <1>10. CASE Connect \/ Send \/ SendFails \/ Flush
    BY <1>10 DEF Connect, Send, SendFails, Flush
  <1>11. CASE Disconnect \/ DisconnectFlushes \/ Destroy
    BY <1>11 DEF Disconnect, DisconnectFlushes, Destroy
  <1>12. CASE \E r \in Connection : RecvCancelled(r)
    BY <1>12 DEF RecvCancelled
  <1> QED
    BY <1>1, <1>2, <1>3, <1>4, <1>5, <1>6, <1>8, <1>9, <1>10, <1>11, <1>12 DEF Next, Main

-----------------------------------------------------------------------------
(* Types.                                                                  *)
LEMMA RecvTypes ==
  ASSUME IInv, [Next]_vars
  PROVE  recv' \in [Connection -> RecvState]
PROOF
  <1> USE DEF IInv, TypeOK
  <1>1. ASSUME NEW r \in Connection, ReceiveThread(r)
        PROVE  recv' \in [Connection -> RecvState]
    <2>1. ASSUME NEW pc \in {"loop", "read", "write", "ended"}, GoTo(r, pc)
          PROVE  recv' \in [Connection -> RecvState]
      BY <2>1 DEF GoTo, RecvState
    <2>2. CASE RecvSelect(r) \/ RecvPrefix(r) \/ RecvBroken(r) \/ RecvFlag(r) \/ RecvWrite(r)
      BY <2>1, <2>2 DEF RecvSelect, RecvPrefix, RecvBroken, RecvFlag, RecvWrite
    <2>3. CASE RecvPayload(r) \/ RecvPush(r)
      <3>1. ASSUME NEW s \in RecvState, recv' = [recv EXCEPT ![r] = s]
            PROVE  recv' \in [Connection -> RecvState]
        BY <3>1
      <3>2. /\ [pc |-> "push", from |-> reading, of |-> conn] \in RecvState
            /\ [pc |-> "flag", from |-> 0, of |-> 0] \in RecvState
        BY DEF LinkOK, RecvState
      <3> QED BY <2>3, <3>1, <3>2 DEF RecvPayload, RecvPush
    <2> QED BY <1>1, <2>2, <2>3 DEF ReceiveThread
  <1>2. CASE StartThread
    BY <1>2 DEF StartThread, GoTo, RecvState
  <1>3. ASSUME NEW r \in Connection, RecvCancelled(r)
        PROVE  recv' \in [Connection -> RecvState]
    BY <1>3 DEF RecvCancelled, RecvState
  <1>4. CASE UNCHANGED recv
    BY <1>4
  <1> QED BY <1>1, <1>2, <1>3, <1>4, Frame

LEMMA LinkTypes ==
  ASSUME IInv, [Next]_vars
  PROVE  LinkOK'
PROOF
  <1> USE ClientAssumption, LoadBounds DEF IInv, TypeOK, LinkOK, link, Connection
  <1>1. CASE UNCHANGED << link, peer, halves, reading >>
    BY <1>1, Frame
  <1>2. CASE \E c \in Connection : PeerLeaves(c)
    BY <1>2, Frame DEF PeerLeaves
  <1>3. ASSUME halves' = [halves EXCEPT ![conn] = @ + 1], MaySpeak,
               UNCHANGED << link, peer >>, reading' \in {reading, 0, conn}
        PROVE  LinkOK'
    <2>1. load' = load
      BY Frame
    <2>2. halves' \in [Connection -> 0 .. 2 * load'.received]
      <3>1. 2 * load.received \in Nat
        OBVIOUS
      <3>2. conn # 0 => halves[conn] + 1 \in 0 .. 2 * load.received
        BY <1>3, <3>1 DEF MaySpeak
      <3>3. \A c \in Connection : halves'[c] \in 0 .. 2 * load.received
        BY <1>3, <3>2
      <3> QED BY <1>3, <2>1, <3>3
    <2> QED BY <1>3, <2>1, <2>2
  <1>4. ASSUME NEW r \in Connection,
               RecvPrefix(r) \/ RecvPayload(r) \/ RecvBroken(r) \/ RecvCancelled(r)
        PROVE  LinkOK'
    <2>1. CASE RecvPrefix(r) \/ RecvPayload(r)
      BY <1>3, <2>1 DEF RecvPrefix, RecvPayload
    <2>2. CASE RecvBroken(r)
      BY <2>2, Frame DEF RecvBroken
    <2>3. CASE RecvCancelled(r)
      <3>1. UNCHANGED << link, peer, reading >>
        BY <2>3 DEF RecvCancelled
      <3>2. \/ UNCHANGED halves
            \/ MaySpeak /\ halves' = [halves EXCEPT ![conn] = @ + 1]
        BY <2>3 DEF RecvCancelled
      <3> QED BY <1>1, <1>3, <3>1, <3>2
    <2> QED BY <1>4, <2>1, <2>2, <2>3
  <1>5. CASE Connect
    BY <1>5, Frame DEF Connect
  <1>6. CASE Advertised \/ DisconnectionEvent
    BY <1>6, Frame DEF Advertised, DisconnectionEvent
  <1>7. CASE FlushFails
    BY <1>7, Frame DEF FlushFails
  <1>8. CASE Disconnect \/ DisconnectEnds \/ Destroy
    BY <1>8, Frame DEF Disconnect, DisconnectEnds, Destroy
  <1> QED BY <1>1, <1>2, <1>4, <1>5, <1>6, <1>7, <1>8, Frame

LEMMA MailTypes ==
  ASSUME IInv, [Next]_vars
  PROVE  MailOK'
PROOF
  <1> USE DEF IInv, TypeOK, LinkOK, MailOK, mail, WritePipe, ReadPipe
  <1>1. CASE UNCHANGED mail
    BY <1>1
  <1>2. ASSUME NEW r \in Connection, RecvPush(r)
        PROVE  MailOK'
    <2>1. [type |-> "User", from |-> recv[r].from, of |-> recv[r].of] \in Event
      BY <1>2 DEF RecvPush, RecvState, ThreadsOK, Event
    <2> QED BY <1>2, <2>1 DEF RecvPush
  <1>3. ASSUME NEW r \in Connection, RecvFlag(r) \/ RecvWrite(r) \/ RecvCancelled(r)
        PROVE  MailOK'
    <2>1. CASE RecvFlag(r) \/ RecvWrite(r)
      <3>1. CASE RecvFlag(r)
        <4>1. UNCHANGED << queue, pipe >> /\ available' = TRUE /\ holder' = 0
          BY <3>1 DEF RecvFlag
        <4> QED BY <4>1
      <3>2. CASE RecvWrite(r)
        BY <3>2 DEF RecvWrite
      <3> QED BY <2>1, <3>1, <3>2
    <2>2. CASE RecvCancelled(r)
      <3>1. UNCHANGED << queue, pipe >>
        BY <2>2 DEF RecvCancelled
      <3>2. available' \in {available, TRUE} /\ holder' \in {holder, r, 0}
        BY <2>2 DEF RecvCancelled
      <3> QED BY <3>1, <3>2
    <2> QED BY <1>3, <2>1, <2>2
  <1>4. CASE Advertise
    <2>1. Disconnection \in Event
      BY <1>4 DEF Advertise, Disconnection, Event, MainOK, ThreadsOK
    <2> QED BY <1>4, <2>1 DEF Advertise, PushMessage
  <1>5. CASE Advertised \/ MessageAvailable \/ DisconnectionEvent
    BY <1>5 DEF Advertised, MessageAvailable, DisconnectionEvent
  <1>6. CASE Extract \/ Receive
    <2>1. queue # << >> => Tail(queue) \in Seq(Event)
      BY HeadTailProperties
    <2> QED BY <1>6, <2>1 DEF Extract, Receive, PopMessage
  <1>7. CASE ClearQueue
    BY <1>7, EmptySeq DEF ClearQueue
  <1> QED
    BY <1>1, <1>2, <1>3, <1>4, <1>5, <1>6, <1>7, Frame

LEMMA SendingTypes ==
  ASSUME IInv, [Next]_vars
  PROVE  SendingOK'
PROOF
  <1> DEFINE M == 1 .. load.sent
             H == 1 .. 2 * load.sent
  <1> USE DEF IInv, TypeOK, SendingOK, buffer
  <1>1. load' = load /\ load.sent \in Nat
    BY Frame, LoadBounds
  <1>2. CASE UNCHANGED << buffer, flow, pushed, failed >>
    BY <1>1, <1>2
  <1>3. CASE Connect
    BY <1>1, <1>3 DEF Connect
  <1>4. CASE Send
    <2>1. pushed + 1 \in M
      BY <1>1, <1>4 DEF Send
    <2>2. sendFifo' \in Seq(M)
      BY <1>4, <2>1 DEF Send
    <2>3. pushed' \in 0 .. load.sent
      BY <1>1, <1>4, <2>1 DEF Send
    <2> QED BY <1>1, <1>4, <2>2, <2>3 DEF Send
  <1>5. ASSUME NEW n \in Nat, FlushSends(n)
        PROVE  SendingOK'
    <2>1. Filled \in Seq(H) /\ Unmoved \in Seq(M) /\ index \in Nat /\ Len(Filled) \in Nat
      BY FlushTypes, LenProperties
    <2>2. \A i \in 1 .. Len(Filled) : Filled[i] \in H
      BY <2>1, ElementOfSeq
    <2> HIDE DEF H, M
    <2>3. \A i, j \in Int : 1 <= i /\ j <= Len(Filled) => SubSeq(Filled, i, j) \in Seq(H)
      <3> SUFFICES ASSUME NEW i \in Int, NEW j \in Int, 1 <= i, j <= Len(Filled)
                   PROVE  SubSeq(Filled, i, j) \in Seq(H)
        OBVIOUS
      <3>1. \A k \in i .. j : Filled[k] \in H
        BY <2>1, <2>2
      <3> QED BY <3>1, SubSeqProperties
    <2>4. SubSeq(Filled, index + 1, index + n) \in Seq(H)
      <3>1. index + 1 \in Int /\ index + n \in Int /\ 1 <= index + 1 /\ index + n <= Len(Filled)
        BY <1>5, <2>1 DEF FlushSends
      <3> QED BY <2>3, <3>1
    <2>5. flow' \in [Connection -> Seq(H)]
      BY <1>5, <2>4, ConcatProperties DEF FlushSends, H
    <2>6. SubSeq(Filled, index + n + 1, Len(Filled)) \in Seq(H)
      <3>1. index + n + 1 \in Int /\ Len(Filled) \in Int /\ 1 <= index + n + 1
        BY <2>1
      <3> QED BY <2>1, <2>3, <3>1
    <2>7. ready' \in Seq(H) /\ index' \in 0 .. Len(ready')
      <3>1. CASE ready' = << >> /\ index' = 0
        BY <3>1, EmptySeq
      <3>2. CASE ready' = Filled /\ index' = index + n /\ index + n < Len(Filled)
        BY <2>1, <3>2
      <3>3. CASE ready' = SubSeq(Filled, index + n + 1, Len(Filled)) /\ index' = 0
        BY <2>6, <3>3, LenProperties
      <3> QED BY <1>5, <3>1, <3>2, <3>3 DEF FlushSends
    <2> USE DEF H, M
    <2> QED BY <1>1, <1>5, <2>1, <2>5, <2>7 DEF FlushSends
  <1>6. CASE FlushFails
    <2>1. conn \in Connection
      BY <1>6, FlushTypes DEF FlushFails, ThreadsOK, LinkOK
    <2>2. Unmoved \in Seq(M)
      BY FlushTypes
    <2> QED BY <1>1, <1>6, <2>1, <2>2, EmptySeq DEF FlushFails
  <1> QED BY <1>2, <1>3, <1>4, <1>5, <1>6, Frame

LEMMA HistoryTypes ==
  ASSUME IInv, [Next]_vars
  PROVE  HistoryOK'
PROOF
  <1> USE DEF IInv, TypeOK, HistoryOK, history
  <1>1. CASE UNCHANGED history
    BY <1>1
  <1>2. ASSUME NEW r \in Connection, RecvCancelled(r)
        PROVE  HistoryOK'
    BY <1>2 DEF RecvCancelled, TypeOK
  <1>3. CASE DisconnectionEvent
    <2>1. \A c \in Connection : told[c] + 1 \in Nat
      OBVIOUS
    <2>2. told' \in [Connection -> Nat]
      BY <1>3, <2>1 DEF DisconnectionEvent
    <2> QED BY <1>3, <2>2 DEF DisconnectionEvent
  <1>4. CASE Extract
    <2>1. Front \subseteq Event
      BY HeadTailProperties DEF Front, MailOK
    <2>2. \A e \in Front : e.of \in Connection
      BY <2>1 DEF Event
    <2>3. dropped' \subseteq Connection
      BY <1>4, <2>2 DEF Extract
    <2> QED BY <1>4, <2>3 DEF Extract
  <1>5. CASE Disconnect \/ DisconnectEnds
    BY <1>5 DEF Disconnect, DisconnectEnds
  <1> QED BY <1>1, <1>2, <1>3, <1>4, <1>5, Frame

LEMMA MainTypes ==
  ASSUME IInv, [Next]_vars
  PROVE  main' \in MainState
PROOF
  <1> USE DEF IInv, TypeOK, MainState, MainGoes, Flushes, AfterFlush, AdvertiseDisconnection,
          UserRuns
  <1>1. CASE UNCHANGED main
    BY <1>1
  <1>2. CASE \E c \in Connection : PeerLeaves(c) \/ ReceiveThread(c) \/ RecvCancelled(c)
    BY <1>2 DEF PeerLeaves, ReceiveThread, RecvSelect, RecvPrefix, RecvPayload, RecvBroken,
                RecvPush, RecvFlag, RecvWrite, RecvCancelled
  <1>3. CASE StartThread \/ Advertise \/ Advertised \/ UserUpdates \/ Receive \/ MessageDone
    <2>1. queue # << >> => Head(queue) \in Event
      BY HeadTailProperties DEF MailOK
    <2>2. main.pc = "receive" => queue # << >>
      BY DEF MainOK
    <2> QED
      BY <1>3, <2>1, <2>2
      DEF StartThread, Advertise, Advertised, UserUpdates, Receive, MessageDone
  <1>4. CASE UpdateFlushes \/ UpdateSent \/ UpdateFails \/ Destroyed
    BY <1>4 DEF UpdateFlushes, UpdateSent, UpdateFails, Destroyed
  <1>5. CASE Poll
    <2>1. available => Head(queue) \in Event
      BY HeadTailProperties DEF MailOK, PipeSuffices
    <2> QED BY <1>5, <2>1 DEF Poll
  <1>6. CASE MessageAvailable \/ DisconnectionEvent \/ Extract
    BY <1>6 DEF MessageAvailable, DisconnectionEvent, Extract
  <1>7. ASSUME NEW n \in Nat, FlushSends(n)
        PROVE  main' \in MainState
    <2>1. UNCHANGED main \/ main' = [main EXCEPT !.pc = AfterFlush, !.call = "none"]
      BY <1>7 DEF FlushSends
    <2> QED BY <2>1
  <1>8. CASE FlushNothing \/ FlushFails \/ DisconnectEnds \/ ClearQueue
    <2>1. CASE FlushNothing
      BY <2>1 DEF FlushNothing
    <2>2. CASE FlushFails
      BY <2>2 DEF FlushFails
    <2>3. CASE DisconnectEnds \/ ClearQueue
      BY <2>3 DEF DisconnectEnds, ClearQueue
    <2> QED BY <1>8, <2>1, <2>2, <2>3
  <1>9. CASE Connect \/ Send \/ SendFails \/ Flush
    <2>1. CASE Connect \/ SendFails
      BY <2>1 DEF Connect, SendFails
    <2>2. CASE Send \/ Flush
      BY <2>2 DEF Send, Flush
    <2> QED BY <1>9, <2>1, <2>2
  <1>10. CASE Disconnect \/ DisconnectFlushes \/ Destroy
    BY <1>10 DEF Disconnect, DisconnectFlushes, Destroy
  <1>11. CASE FlushGoesOn
    BY <1>7, <1>8, <1>11, LoadBounds DEF FlushGoesOn
  <1> QED
    BY <1>1, <1>2, <1>3, <1>4, <1>5, <1>6, <1>8, <1>9, <1>10, <1>11
    DEF vars, Next, Main, DataAvailable

LEMMA TypeStep ==
  ASSUME IInv, [Next]_vars
  PROVE  TypeOK'
PROOF
  <1>1. load' \in Loads
    BY Frame DEF IInv, TypeOK
  <1> QED
    BY <1>1, RecvTypes, MainTypes, LinkTypes, MailTypes, SendingTypes, HistoryTypes DEF TypeOK

-----------------------------------------------------------------------------
(* Threads and states of the main thread.                                  *)
LEMMA ThreadsStep ==
  ASSUME IInv, [Next]_vars
  PROVE  ThreadsOK'
PROOF
  <1> USE DEF IInv, TypeOK, RecvState, LinkOK, SendingOK, ThreadsOK, link, buffer, sending,
          Connection
  <1>1. CASE UNCHANGED vars
    BY <1>1 DEF vars
  <1>2. CASE \E c \in Connection : PeerLeaves(c)
    BY <1>2 DEF PeerLeaves
  <1>3. ASSUME NEW r \in Connection, ReceiveThread(r)
        PROVE  ThreadsOK'
    <2> USE DEF GoTo
    <2>1. UNCHANGED << conn, main, state, sendFifo, ready >> /\ (up' => up)
      BY <1>3 DEF ReceiveThread, RecvSelect, RecvPrefix, RecvPayload, RecvBroken,
                  RecvPush, RecvFlag, RecvWrite
    <2>2. recv[r].pc # "off" /\ \A q \in Connection \ {r} : recv'[q] = recv[q]
      BY <1>3 DEF ReceiveThread, RecvSelect, RecvPrefix, RecvPayload, RecvBroken,
                  RecvPush, RecvFlag, RecvWrite
    <2>3. ASSUME NEW pc, GoTo(r, pc)
          PROVE  recv'[r].pc = pc
      BY <2>3
    <2>4. RecvPayload(r) \/ recv'[r].pc # "push"
      <3> HIDE DEF GoTo
      <3>1. CASE RecvSelect(r) \/ RecvFlag(r)
        BY <2>3, <3>1 DEF RecvSelect, RecvFlag
      <3>2. CASE RecvPrefix(r) \/ RecvBroken(r) \/ RecvWrite(r)
        BY <2>3, <3>2 DEF RecvPrefix, RecvBroken, RecvWrite
      <3>3. CASE RecvPush(r)
        BY <3>3 DEF RecvPush
      <3> QED BY <1>3, <3>1, <3>2, <3>3 DEF ReceiveThread
    <2>5. RecvPayload(r) => recv'[r].from # 0 /\ recv'[r].of # 0
      <3> SUFFICES ASSUME RecvPayload(r) PROVE recv'[r].from # 0 /\ recv'[r].of # 0
        OBVIOUS
      <3>1. recv'[r] = [pc |-> "push", from |-> reading, of |-> conn] /\ reading # 0
        BY DEF RecvPayload
      <3>2. conn # 0
        BY <2>2
      <3> QED BY <3>1, <3>2
    <2> QED BY <2>1, <2>2, <2>4, <2>5
  <1> USE DEF MainState, MainGoes, Flushes, AfterFlush, AdvertiseDisconnection, UserRuns
  <1>4. CASE StartThread
    <2>1. UNCHANGED << conn, up, state, sendFifo, ready >> /\ conn # 0
      BY <1>4 DEF StartThread
    <2>2. recv'[conn].pc = "loop" /\ \A r \in Connection \ {conn} : recv'[r] = recv[r]
      BY <1>4, <2>1 DEF StartThread, GoTo
    <2>3. main'.pc # "connecting"
      BY <1>4 DEF StartThread
    <2> QED BY <2>1, <2>2, <2>3
  <1>5. CASE Connect
    BY <1>5 DEF Connect
  <1>6. CASE Send
    BY <1>6 DEF Send
  <1>7. CASE /\ UNCHANGED << conn, recv >> /\ main'.pc # "connecting"
             /\ (up' => up) /\ (state' => state)
             /\ (sendFifo = << >> => sendFifo' = << >>)
             /\ (sendFifo = << >> /\ ready = << >> => ready' = << >>)
    BY <1>7
  <1>8. CASE Advertise \/ Advertised \/ UserUpdates \/ Receive \/ MessageDone
    BY <1>7, <1>8 DEF Advertise, Advertised, UserUpdates, Receive, MessageDone
  <1>9. CASE UpdateFlushes \/ UpdateSent \/ UpdateFails \/ Destroyed
    BY <1>7, <1>9 DEF UpdateFlushes, UpdateSent, UpdateFails, Destroyed
  <1>10. CASE DataAvailable
    BY <1>7, <1>10 DEF DataAvailable, Poll, MessageAvailable, DisconnectionEvent, Extract
  <1>11. ASSUME NEW n \in Nat, FlushSends(n)
         PROVE  ThreadsOK'
    <2>1. UNCHANGED << conn, recv, up, state >> /\ sendFifo' = Unmoved /\ Filled # << >>
      BY <1>11 DEF FlushSends
    <2>2. UNCHANGED main \/ main' = [main EXCEPT !.pc = AfterFlush, !.call = "none"]
      BY <1>11 DEF FlushSends
    <2>3. main'.pc # "connecting"
      BY <1>11, <2>2 DEF FlushSends
    <2> QED BY <1>7, <2>1, <2>3, FlushTypes
  <1>12. CASE FlushNothing \/ DisconnectEnds \/ ClearQueue
    BY <1>7, <1>12 DEF FlushNothing, DisconnectEnds, ClearQueue
  <1>13. CASE FlushFails
    BY <1>7, <1>13, FlushTypes DEF FlushFails
  <1>14. CASE FlushGoesOn
    BY <1>11, <1>12, <1>13, <1>14, LoadBounds DEF FlushGoesOn
  <1>15. CASE SendFails \/ Flush \/ Disconnect \/ DisconnectFlushes \/ Destroy
    <2>1. CASE SendFails \/ Flush
      BY <1>7, <2>1 DEF SendFails, Flush
    <2>2. CASE Disconnect \/ DisconnectFlushes \/ Destroy
      BY <1>7, <2>2 DEF Disconnect, DisconnectFlushes, Destroy
    <2> QED BY <1>15, <2>1, <2>2
  <1>16. ASSUME NEW r \in Connection, RecvCancelled(r)
         PROVE  ThreadsOK'
    <2>1. UNCHANGED << conn, main, up, state, sendFifo, ready >> /\ recv[r].pc # "off"
      BY <1>16 DEF RecvCancelled
    <2>2. recv'[r].pc = "ended" /\ \A q \in Connection \ {r} : recv'[q] = recv[q]
      BY <1>16 DEF RecvCancelled
    <2> QED BY <2>1, <2>2
  <1> QED
    BY <1>1, <1>2, <1>3, <1>4, <1>5, <1>6, <1>8, <1>9, <1>10, <1>12, <1>14, <1>15, <1>16
    DEF Next, Main

LEMMA SectionStep ==
  ASSUME IInv, [Next]_vars
  PROVE  SectionOK'
PROOF
  <1> USE DEF IInv, TypeOK, RecvState, LinkOK, SectionOK, Connection
  <1>1. CASE UNCHANGED << recv, queue, holder >>
    BY <1>1
  <1>2. ASSUME NEW r \in Connection, RecvPush(r)
        PROVE  SectionOK'
    <2>1. holder = 0 /\ holder' = r /\ queue' # << >>
      BY <1>2 DEF RecvPush, MailOK
    <2>2. \A q \in Connection \ {r} : recv'[q] = recv[q]
      BY <1>2 DEF RecvPush
    <2> QED BY <2>1, <2>2
  <1>3. ASSUME NEW r \in Connection, ReceiveThread(r) \/ RecvCancelled(r), ~RecvPush(r)
        PROVE  SectionOK'
    <2>1. ASSUME NEW pc \in {"loop", "read", "write", "ended"}, GoTo(r, pc)
          PROVE  recv'[r].pc # "flag" /\ \A q \in Connection \ {r} : recv'[q] = recv[q]
      BY <2>1 DEF GoTo
    <2>2. CASE RecvSelect(r) \/ RecvPrefix(r) \/ RecvBroken(r) \/ RecvWrite(r)
      <3>1. UNCHANGED << queue, holder >>
        BY <2>2 DEF RecvSelect, RecvPrefix, RecvBroken, RecvWrite, mail
      <3>2. \E pc \in {"loop", "read", "write", "ended"} : GoTo(r, pc)
        BY <2>2 DEF RecvSelect, RecvPrefix, RecvBroken, RecvWrite
      <3> QED BY <2>1, <3>1, <3>2
    <2>3. CASE RecvFlag(r)
      <3>1. UNCHANGED queue /\ GoTo(r, "write") /\ recv[r].pc = "flag"
        BY <2>3 DEF RecvFlag
      <3>2. recv'[r].pc # "flag" /\ \A q \in Connection \ {r} : recv'[q] = recv[q]
        BY <2>1, <3>1
      <3> QED BY <3>1, <3>2
    <2>4. CASE RecvPayload(r)
      <3>1. UNCHANGED << queue, holder >>
        BY <2>4 DEF RecvPayload, mail
      <3>2. recv' = [recv EXCEPT ![r] = [pc |-> "push", from |-> reading, of |-> conn]]
        BY <2>4 DEF RecvPayload
      <3> QED BY <3>1, <3>2
    <2>5. CASE RecvCancelled(r)
      <3>1. UNCHANGED queue /\ (UNCHANGED holder \/ recv[r].pc = "flag" \/ holder = 0)
        BY <2>5 DEF RecvCancelled
      <3>2. recv' = [recv EXCEPT ![r] = [pc |-> "ended", from |-> 0, of |-> 0]]
        BY <2>5 DEF RecvCancelled
      <3> QED BY <3>1, <3>2
    <2> QED BY <1>3, <2>2, <2>3, <2>4, <2>5 DEF ReceiveThread
  <1>4. CASE StartThread
    BY <1>4 DEF StartThread, GoTo, mail, ThreadsOK
  <1>5. CASE Advertise
    <2>1. UNCHANGED << recv, holder >> /\ queue' # << >>
      BY <1>5 DEF Advertise, PushMessage, MailOK
    <2> QED BY <2>1
  <1>6. CASE Extract \/ Receive \/ ClearQueue
    <2>1. holder = 0 /\ UNCHANGED recv
      BY <1>6 DEF Extract, Receive, ClearQueue, PopMessage
    <2> QED BY <2>1
  <1>7. CASE Advertised \/ MessageAvailable \/ DisconnectionEvent
    BY <1>1, <1>7 DEF Advertised, MessageAvailable, DisconnectionEvent
  <1>8. CASE UNCHANGED << recv, mail >>
    BY <1>1, <1>8 DEF mail
  <1> QED
    BY <1>2, <1>3, <1>4, <1>5, <1>6, <1>7, <1>8, Frame DEF ReceiveThread

LEMMA MainStep ==
  ASSUME IInv, [Next]_vars
  PROVE  MainOK'
PROOF
  <1> USE DEF IInv, TypeOK, MailOK, LinkOK, MainOK, Quitting, link, mail, sending
  <1>1. CASE UNCHANGED vars
    BY <1>1 DEF vars
  <1>2. CASE \E c \in Connection : PeerLeaves(c)
    BY <1>2 DEF PeerLeaves
  <1>3. ASSUME NEW r \in Connection, ReceiveThread(r), ~RecvPush(r)
        PROVE  MainOK'
    BY <1>3 DEF ReceiveThread, RecvSelect, RecvPrefix, RecvPayload, RecvBroken, RecvFlag,
                RecvWrite
  <1>4. ASSUME NEW r \in Connection, RecvPush(r)
        PROVE  MainOK'
    <2>1. UNCHANGED << main, conn, up, state, know, failed >>
      BY <1>4 DEF RecvPush
    <2>2. PICK e : queue' = Append(queue, e)
      BY <1>4 DEF RecvPush
    <2>3. queue # << >> => queue' # << >> /\ Head(queue') = Head(queue)
      BY <2>2
    <2> QED BY <2>1, <2>3
  <1> USE DEF MainState, MainGoes, Flushes, AfterFlush, AdvertiseDisconnection, UserRuns
  <1>5. CASE /\ UNCHANGED << conn, up, state, know, failed >>
             /\ main'.pc \notin {"flushing", "peeked", "receive", "quitting", "advertising",
                                 "advertised"}
    BY <1>5
  <1>6. CASE StartThread \/ UserUpdates \/ Receive \/ MessageDone
    BY <1>5, <1>6 DEF StartThread, UserUpdates, Receive, MessageDone
  <1>7. CASE UpdateSent \/ Destroyed \/ Extract \/ ClearQueue
    BY <1>5, <1>7 DEF UpdateSent, Destroyed, Extract, ClearQueue
  <1>8. CASE Advertise \/ Advertised
    <2>1. CASE Advertise
      <3>1. /\ UNCHANGED << conn, up, state, know, failed >>
            /\ main.pc = "advertising" /\ main'.pc = "advertised"
        BY <2>1 DEF Advertise
      <3> QED BY <3>1
    <2>2. CASE Advertised
      BY <2>2 DEF Advertised
    <2> QED BY <1>8, <2>1, <2>2
  <1>9. CASE UpdateFlushes
    BY <1>9 DEF UpdateFlushes
  <1>10. CASE UpdateFails
    <2>1. /\ UNCHANGED << conn, up, state, know, failed >> /\ ~up
          /\ main'.pc = IF know THEN "advertising" ELSE "user"
      BY <1>10 DEF UpdateFails
    <2> QED BY <2>1
  <1>11. CASE Poll
    <2>1. UNCHANGED << conn, up, state, know, failed, queue >>
      BY <1>11 DEF Poll
    <2>2. \/ available /\ main' = [main EXCEPT !.pc = "peeked", !.event = Head(queue)]
          \/ main' = [main EXCEPT !.pc = "flush", !.call = "none"]
      BY <1>11 DEF Poll
    <2>3. available => queue # << >>
      BY DEF PipeSuffices
    <2> QED BY <2>1, <2>2, <2>3
  <1>12. CASE MessageAvailable
    BY <1>12 DEF MessageAvailable
  <1>13. CASE DisconnectionEvent
    <2>1. 1 \in Reports /\ ~know
      BY <1>13, LenProperties
      DEF DisconnectionEvent, Reports, Handled, HandlesEvent, ReportsOK
    <2> QED BY <1>13, <2>1 DEF DisconnectionEvent
  <1>14. ASSUME NEW n \in Nat, FlushSends(n)
        PROVE  MainOK'
    <2>1. UNCHANGED << conn, up, state, know, queue, failed >> /\ main.pc = "flushing"
      BY <1>14 DEF FlushSends
    <2>2. UNCHANGED main \/ main' = [main EXCEPT !.pc = AfterFlush, !.call = "none"]
      BY <1>14 DEF FlushSends
    <2> QED BY <2>1, <2>2
  <1>15. CASE FlushNothing
    BY <1>15 DEF FlushNothing
  <1>16. CASE DisconnectEnds
    BY <1>16 DEF DisconnectEnds
  <1>17. CASE FlushFails
    BY <1>17 DEF FlushFails
  <1>18. CASE FlushGoesOn
    BY <1>14, <1>15, <1>17, <1>18, LoadBounds DEF FlushGoesOn
  <1>19. CASE Connect
    BY <1>19 DEF Connect
  <1>20. CASE Send
    BY <1>20 DEF Send
  <1>21. CASE SendFails
    BY <1>21 DEF SendFails
  <1>22. CASE Flush
    BY <1>22 DEF Flush
  <1>23. CASE DisconnectFlushes \/ Destroy
    BY <1>23 DEF DisconnectFlushes, Destroy
  <1>24. CASE \E r \in Connection : RecvCancelled(r)
    BY <1>24 DEF RecvCancelled
  <1>25. CASE Disconnect
    BY <1>25 DEF Disconnect
  <1> QED
    BY <1>1, <1>2, <1>3, <1>4, <1>6, <1>7, <1>8, <1>9, <1>10, <1>11, <1>12, <1>13, <1>16,
       <1>18, <1>19, <1>20, <1>21, <1>22, <1>23, <1>24, <1>25
    DEF Next, Main, DataAvailable

-----------------------------------------------------------------------------
(* How a step changes what the main thread is about: most steps go on      *)
(* handling the same event, or none.                                       *)
Same == (HandlesEvent' <=> HandlesEvent) /\ (HandlesEvent => main'.event = main.event)

LEMMA MainFrame ==
  ASSUME IInv, [Next]_vars
  PROVE
    /\ DisconnectionEvent \/ Extract \/ Same
    /\ MessageAvailable \/ Receive \/ (main'.pc = "receive" <=> main.pc = "receive")
    /\ Advertise \/ Advertised \/ (main'.pc = "advertised" <=> main.pc = "advertised")
    /\ ClearQueue \/ (main.pc = "clearing" => main'.pc = "clearing")
PROOF
  <1> DEFINE Quiet == /\ Same
                      /\ main'.pc = "receive" <=> main.pc = "receive"
                      /\ main'.pc = "advertised" <=> main.pc = "advertised"
                      /\ main.pc = "clearing" => main'.pc = "clearing"
  <1> USE DEF IInv, TypeOK, MainState, HandlesEvent, Same
  <1>1. CASE UNCHANGED main
    BY <1>1
  <1>2. CASE \E c \in Connection : PeerLeaves(c) \/ ReceiveThread(c) \/ RecvCancelled(c)
    BY <1>1, <1>2 DEF PeerLeaves, ReceiveThread, RecvSelect, RecvPrefix, RecvPayload,
                RecvBroken, RecvPush, RecvFlag, RecvWrite, RecvCancelled
  <1> USE DEF MainGoes, Flushes, UserRuns
  <1>3. CASE StartThread \/ ClearQueue
    BY <1>3 DEF StartThread, ClearQueue
  <1>4. CASE Advertise \/ Advertised
    BY <1>4 DEF Advertise, Advertised
  <1>5. CASE UserUpdates \/ UpdateFlushes \/ UpdateSent \/ Destroyed
    BY <1>5 DEF UserUpdates, UpdateFlushes, UpdateSent, Destroyed
  <1>6. CASE Poll \/ MessageDone
    BY <1>6 DEF Poll, MessageDone
  <1>7. CASE MessageAvailable \/ Receive
    BY <1>7 DEF MessageAvailable, Receive
  <1>8. CASE DisconnectionEvent \/ Extract
    BY <1>8 DEF DisconnectionEvent, Extract
  <1>9. ASSUME main.pc = "flushing", main' = [main EXCEPT !.pc = AfterFlush, !.call = "none"]
        PROVE  Quiet
    BY <1>9 DEF AfterFlush, MainOK
  <1>10. ASSUME NEW n \in Nat, FlushSends(n)
         PROVE  Quiet
    <2>1. main.pc = "flushing"
      BY <1>10 DEF FlushSends
    <2>2. UNCHANGED main \/ main' = [main EXCEPT !.pc = AfterFlush, !.call = "none"]
      BY <1>10 DEF FlushSends
    <2> QED BY <1>1, <1>9, <2>1, <2>2
  <1>11. CASE FlushNothing
    BY <1>9, <1>11 DEF FlushNothing
  <1>12. ASSUME NEW back, AdvertiseDisconnection(back),
                \/ back = main.pc /\ UserRuns
                \/ back = main.back /\ main.pc = "flushing"
                \/ back = "user" /\ main.pc \in {"flush", "sent"}
         PROVE  Quiet
    BY <1>12 DEF AdvertiseDisconnection
  <1>13. CASE SendFails
    <2>1. AdvertiseDisconnection(main.pc) /\ UserRuns
      BY <1>13 DEF SendFails
    <2> QED BY <1>12, <2>1
  <1>14. CASE UpdateFails
    <2>1. AdvertiseDisconnection("user") /\ main.pc \in {"flush", "sent"}
      BY <1>14 DEF UpdateFails
    <2> QED BY <1>12, <2>1
  <1>15. CASE FlushFails
    <2>1. main.pc = "flushing" /\ (AdvertiseDisconnection(main.back) \/ MainGoes(AfterFlush))
      BY <1>15 DEF FlushFails
    <2> QED BY <1>9, <1>12, <2>1
  <1>16. CASE FlushGoesOn
    BY <1>10, <1>11, <1>15, <1>16, LoadBounds DEF FlushGoesOn
  <1>17. CASE DisconnectEnds
    BY <1>17 DEF DisconnectEnds
  <1>18. CASE Connect
    BY <1>18 DEF Connect
  <1>19. CASE Send
    BY <1>1, <1>19 DEF Send
  <1>20. CASE Flush \/ DisconnectFlushes
    BY <1>20 DEF Flush, DisconnectFlushes
  <1>21. CASE Disconnect \/ Destroy
    BY <1>21 DEF Disconnect, Destroy
  <1> QED
    BY <1>1, <1>2, <1>3, <1>4, <1>5, <1>6, <1>7, <1>8, <1>13, <1>14, <1>16, <1>17, <1>18,
       <1>19, <1>20, <1>21
    DEF vars, Next, Main, DataAvailable

-----------------------------------------------------------------------------
(* Reports.  They stay as long as the queue, what the user was told and    *)
(* the state he sees do, or disconnect is about to empty the queue.        *)
LEMMA ReportsKept ==
  ASSUME IInv, Same, UNCHANGED << conn, queue, told >>, know' => know, state' => state,
         know' /\ main.pc = "advertised" => main'.pc = "advertised",
         state \/ main.pc = "clearing" => state' \/ main'.pc = "clearing",
         \/ UNCHANGED quit
         \/ conn # 0 /\ quit' = [quit EXCEPT ![conn] = "closed"]
         \/ state /\ ~state' /\ conn # 0 /\ quit' = [quit EXCEPT ![conn] = "connected"]
  PROVE  ReportsOK'
PROOF
  <1> USE DEF IInv, TypeOK, LinkOK, HistoryOK, ReportsOK
  <1>1. Reports' = Reports
    BY DEF Same, Reports, Handled
  <1>2. \A c \in Connection : c > conn => quit'[c] = "never"
    <2>1. \A c \in Connection : c # conn => quit'[c] = quit[c]
      OBVIOUS
    <2>2. \A c \in Connection : c > conn => c # conn
      BY DEF Connection
    <2> QED BY <2>1, <2>2
  <1>3. state' => quit'[conn] # "connected"
    OBVIOUS
  <1>4. DisconnectIsSilent'
    BY DEF DisconnectIsSilent
  <1>5. \A i \in Reports : /\ queue[i].of = conn
                           /\ state' \/ main'.pc = "clearing"
                           /\ know' => main'.pc = "advertised"
    OBVIOUS
  <1> QED BY <1>1, <1>2, <1>3, <1>4, <1>5 DEF Same

(* A message or a report is queued behind what is there.                   *)
LEMMA MessageQueued ==
  ASSUME IInv, NEW e \in Event, e.type = "User", queue' = Append(queue, e),
         UNCHANGED << conn, state, know, main, told, quit >>
  PROVE  ReportsOK'
PROOF
  <1>1. /\ queue \in Seq(Event) /\ Len(queue) \in Nat
        /\ queue' = Append(queue, e) /\ Len(queue') = Len(queue) + 1
        /\ \A i \in 1 .. Len(queue) : queue'[i] = queue[i]
        /\ queue'[Len(queue) + 1] = e
    BY DEF IInv, TypeOK, MailOK
  <1>2. HandlesEvent' <=> HandlesEvent
    BY DEF HandlesEvent
  <1>3. \A i \in Reports' : i \in Reports /\ queue'[i] = queue[i]
    BY <1>1, <1>2 DEF Reports, Handled
  <1>4. \A i \in Reports' : /\ queue'[i].of = conn'
                            /\ state' \/ main'.pc = "clearing"
                            /\ know' => main'.pc = "advertised"
    <2>1. ASSUME NEW i \in Reports
          PROVE  /\ queue[i].of = conn
                 /\ state \/ main.pc = "clearing"
                 /\ know => main.pc = "advertised"
      BY DEF IInv, ReportsOK
    <2>2. conn' = conn /\ (state' <=> state) /\ (know' <=> know) /\ main' = main
      OBVIOUS
    <2> QED BY <1>3, <2>1, <2>2
  <1>5. \A i, j \in Reports' : i = j
    BY <1>3 DEF IInv, ReportsOK
  <1>6. HandlesEvent' => main'.event \in Event /\ told'[main'.event.of] = 1
    BY <1>2 DEF IInv, ReportsOK
  <1> QED BY <1>4, <1>5, <1>6 DEF IInv, ReportsOK, DisconnectIsSilent

LEMMA ReportQueued ==
  ASSUME IInv, Advertise, Same
  PROVE  ReportsOK'
PROOF
  <1>1. /\ know /\ state /\ conn \in Connection /\ main.pc = "advertising"
        /\ main'.pc = "advertised"
        /\ UNCHANGED << conn, state, know, told, quit >>
    BY DEF IInv, TypeOK, LinkOK, MainOK, ThreadsOK, MainState, Advertise, MainGoes, link, history
  <1>2. Disconnection.type = "Disconnection" /\ Disconnection.of = conn
    BY DEF Disconnection
  <1>3. /\ queue \in Seq(Event) /\ Len(queue) \in Nat
        /\ queue' = Append(queue, Disconnection) /\ Len(queue') = Len(queue) + 1
        /\ \A i \in 1 .. Len(queue) : queue'[i] = queue[i]
        /\ queue'[Len(queue) + 1] = Disconnection
    BY <1>1 DEF IInv, TypeOK, MailOK, Advertise, PushMessage, Disconnection, Event
  <1>4. Reports = {}
    BY <1>1 DEF IInv, ReportsOK
  <1>5. \A i \in Reports' : i = Len(queue) + 1
    BY <1>3, <1>4 DEF Reports, Handled, Same
  <1> QED
    BY <1>1, <1>2, <1>3, <1>5 DEF IInv, ReportsOK, DisconnectIsSilent, Same

(* The end of disconnect.                                                  *)
LEMMA QueueEmptied ==
  ASSUME IInv, Same, ClearQueue
  PROVE  ReportsOK'
PROOF
  <1>1. Reports' = {}
    <2>1. Len(queue') = 0
      BY EmptySeq DEF ClearQueue
    <2> QED BY <2>1 DEF Reports
  <1>2. UNCHANGED << conn, state, told, quit >>
    BY DEF ClearQueue, link, history
  <1> QED BY <1>1, <1>2 DEF IInv, ReportsOK, DisconnectIsSilent, Same

(* The user is told of the only report, which becomes the handled event.   *)
LEMMA ReportTold ==
  ASSUME IInv, DisconnectionEvent
  PROVE  ReportsOK'
PROOF
  <1> USE DEF IInv, TypeOK
  <1>1. /\ queue \in Seq(Event) /\ Len(queue) \in Nat \ {0}
        /\ main.event = queue[1] /\ main.event \in Event
        /\ main.event.type = "Disconnection"
    BY LenProperties, EmptySeq, ElementOfSeq DEF DisconnectionEvent, MailOK, MainOK
  <1>2. Reports = {1} /\ state /\ main.event.of = conn
    <2>1. 1 \in Reports /\ main.pc # "clearing"
      BY <1>1 DEF Reports, Handled, HandlesEvent, DisconnectionEvent
    <2> QED BY <1>1, <2>1 DEF ReportsOK
  <1>3. /\ HandlesEvent' /\ main'.event = main.event
        /\ UNCHANGED << conn, queue, quit >> /\ ~state'
        /\ told' = [told EXCEPT ![conn] = @ + 1]
    BY <1>2 DEF DisconnectionEvent, HandlesEvent, MainGoes, MainState, link
  <1>4. Reports' = {}
    BY <1>1, <1>2, <1>3 DEF Reports, Handled
  <1>5. /\ conn \in Connection
        /\ told'[conn] = 1
        /\ \A c \in Connection : c # conn => told'[c] = told[c]
        /\ quit[conn] # "connected"
    BY <1>1, <1>2, <1>3 DEF ReportsOK, HistoryOK, Event
  <1>6. \A c \in Connection : told'[c] <= 1 /\ (c > conn => told'[c] = 0 /\ quit[c] = "never")
    <2>1. \A c \in Connection : c > conn => c # conn
      BY <1>5 DEF Connection
    <2> QED BY <1>5, <2>1 DEF ReportsOK
  <1>7. DisconnectIsSilent'
    BY <1>3, <1>5 DEF ReportsOK, DisconnectIsSilent
  <1> QED BY <1>1, <1>2, <1>3, <1>4, <1>5, <1>6, <1>7 DEF ReportsOK

(* A message or the handled event leaves the queue, or another event.      *)
LEMMA EventPopped ==
  ASSUME IInv, Extract \/ Receive
  PROVE  ReportsOK'
PROOF
  <1> USE DEF IInv, TypeOK
  <1>1. /\ ~HandlesEvent'
        /\ UNCHANGED << conn, state, know, told, quit >>
        /\ main.pc \notin {"advertised", "clearing"}
    BY DEF Extract, Receive, HandlesEvent, MainState, link, history
  <1>2. CASE queue = << >>
    <2>1. Reports' = {}
      <3>1. queue' = << >> /\ Len(queue') = 0
        BY <1>2 DEF Extract, Receive, PopMessage
      <3> QED BY <3>1 DEF Reports
    <2> QED BY <1>1, <2>1 DEF ReportsOK, DisconnectIsSilent
  <1>3. CASE queue # << >>
    <2>1. queue \in Seq(Event) /\ Len(queue) \in Nat /\ queue' = Tail(queue)
      BY <1>3 DEF Extract, Receive, PopMessage, MailOK
    <2>2. Len(queue') = Len(queue) - 1 /\ \A i \in 1 .. Len(queue') : queue'[i] = queue[i + 1]
      BY <1>3, <2>1, HeadTailProperties
    <2>3. \A i \in Reports' : i \in Nat /\ i + 1 \in Reports /\ queue'[i] = queue[i + 1]
      BY <2>1, <2>2, <1>1 DEF Reports, Handled
    <2>4. \A i, j \in Reports' : i = j
      BY <2>3 DEF ReportsOK
    <2> QED BY <1>1, <2>3, <2>4 DEF ReportsOK, DisconnectIsSilent
  <1> QED BY <1>2, <1>3

(* No report waits when the user connects.                                 *)
LEMMA ConnectReports ==
  ASSUME IInv, Connect
  PROVE  ReportsOK'
PROOF
  <1> USE DEF IInv, TypeOK, LinkOK, HistoryOK
  <1>1. /\ conn \in Nat /\ conn' = conn + 1 /\ conn + 1 \in Connection
        /\ ~state
        /\ UNCHANGED << queue, told, quit >>
    <2>1. conn \in Nat /\ conn < load.connections /\ load.connections \in 1 .. NbConnections
      BY LoadBounds DEF Connect, Connection
    <2>2. conn + 1 \in Connection
      BY <2>1, ClientAssumption DEF Connection
    <2> QED BY <2>1, <2>2 DEF Connect, mail, history
  <1>2. (HandlesEvent' <=> HandlesEvent) /\ main'.event = main.event
    BY DEF Connect, HandlesEvent, MainState, UserRuns
  <1>3. Reports' = {}
    <2>1. main.pc # "clearing"
      BY DEF Connect, UserRuns
    <2>2. Reports = {}
      BY <1>1, <2>1 DEF ReportsOK
    <2> QED BY <1>1, <1>2, <2>2 DEF Reports, Handled
  <1>4. \A c \in Connection : c > conn + 1 => c > conn
    BY <1>1 DEF Connection
  <1>5. told[conn + 1] = 0 /\ quit[conn + 1] = "never"
    BY <1>1 DEF ReportsOK
  <1> QED BY <1>1, <1>2, <1>3, <1>4, <1>5 DEF ReportsOK, DisconnectIsSilent

LEMMA ReportsStep ==
  ASSUME IInv, [Next]_vars
  PROVE  ReportsOK'
PROOF
  <1> USE DEF link, mail, history
  <1>1. CASE Extract \/ Receive \/ DisconnectionEvent \/ Connect
    BY <1>1, EventPopped, ReportTold, ConnectReports
  <1> SUFFICES ASSUME ~Extract, ~Receive, ~DisconnectionEvent, ~Connect PROVE ReportsOK'
    BY <1>1
  <1>2. Same
    BY MainFrame DEF Same
  <1>3. CASE Advertise \/ ClearQueue
    BY <1>2, <1>3, ReportQueued, QueueEmptied
  <1>4. ASSUME NEW r \in Connection, RecvPush(r)
        PROVE  ReportsOK'
    <2> DEFINE e == [type |-> "User", from |-> recv[r].from, of |-> recv[r].of]
    <2>1. e \in Event /\ e.type = "User"
      BY <1>4 DEF RecvPush, IInv, TypeOK, RecvState, ThreadsOK, Event
    <2>2. queue' = Append(queue, e) /\ UNCHANGED << conn, state, know, main, told, quit >>
      BY <1>4 DEF RecvPush
    <2> HIDE DEF e
    <2> QED BY <2>1, <2>2, MessageQueued
  <1> SUFFICES ASSUME ~Advertise, ~ClearQueue, \A r \in Connection : ~RecvPush(r)
               PROVE  ReportsOK'
    BY <1>3, <1>4
  <1>5. UNCHANGED << conn, queue, told >> /\ (know' => know)
    <2>1. UNCHANGED told
      <3>1. \A r \in Connection : RecvCancelled(r) => UNCHANGED told
        BY DEF RecvCancelled
      <3> QED BY <3>1, Frame DEF Disconnect, DisconnectEnds
    <2>2. UNCHANGED conn /\ (know' => know)
      <3>1. ASSUME NEW r \in Connection,
                   PeerLeaves(r) \/ RecvPrefix(r) \/ RecvPayload(r) \/ RecvBroken(r)
                     \/ RecvCancelled(r)
            PROVE  UNCHANGED << conn, know >>
        BY <3>1 DEF PeerLeaves, RecvPrefix, RecvPayload, RecvBroken, RecvCancelled
      <3>2. CASE Advertised \/ FlushFails \/ Disconnect \/ DisconnectEnds \/ Destroy
        BY <3>2 DEF Advertised, FlushFails, Disconnect, DisconnectEnds, Destroy
      <3> QED BY <3>1, <3>2, Frame
    <2>3. UNCHANGED queue
      BY Frame DEF Advertised, MessageAvailable, RecvFlag, RecvWrite, RecvCancelled
    <2> QED BY <2>1, <2>2, <2>3
  <1>6. know' /\ main.pc = "advertised" => main'.pc = "advertised"
    BY MainFrame DEF Advertised
  <1>7. CASE Disconnect \/ DisconnectEnds \/ Destroy
    <2>1. up \/ state => conn # 0
      BY DEF IInv, ThreadsOK
    <2>2. CASE Disconnect
      <3>1. state /\ main'.pc = "clearing" /\ (state' => state)
        BY <2>2 DEF Disconnect, IInv, TypeOK, MainState
      <3>2. \/ quit' = [quit EXCEPT ![conn] = "closed"]
            \/ ~state' /\ quit' = [quit EXCEPT ![conn] = "connected"]
        BY <2>2 DEF Disconnect
      <3> QED BY <1>2, <1>5, <1>6, <2>1, <3>1, <3>2, ReportsKept
    <2>3. CASE DisconnectEnds
      <3>1. state /\ ~state' /\ main'.pc = "clearing"
              /\ quit' = [quit EXCEPT ![conn] = "connected"]
        BY <2>3 DEF DisconnectEnds, IInv, TypeOK, MainState, MainOK, Quitting, MainGoes
      <3> QED BY <1>2, <1>5, <1>6, <2>1, <3>1, ReportsKept
    <2>4. CASE Destroy
      <3>1. /\ UNCHANGED quit /\ main.pc = "user" /\ (state' => state)
            /\ UNCHANGED state \/ main'.pc = "clearing"
        BY <2>4 DEF Destroy, IInv, TypeOK, MainState
      <3> QED BY <1>2, <1>5, <1>6, <3>1, ReportsKept
    <2> QED BY <1>7, <2>2, <2>3, <2>4
  <1>8. CASE ~Disconnect /\ ~DisconnectEnds /\ ~Destroy
    <2>1. UNCHANGED << state, quit >>
      <3>1. UNCHANGED quit
        BY <1>8, Frame DEF RecvCancelled
      <3>2. UNCHANGED state
        BY <1>8, Frame DEF PeerLeaves, RecvPrefix, RecvPayload, RecvBroken, RecvCancelled,
                           Advertised, FlushFails
      <3> QED BY <3>1, <3>2
    <2>2. main.pc = "clearing" => main'.pc = "clearing"
      BY MainFrame
    <2> QED BY <1>2, <1>5, <1>6, <2>1, <2>2, ReportsKept
  <1> QED BY <1>7, <1>8

-----------------------------------------------------------------------------
(* The pipe.  Bytes that are about to be written, and the byte that was    *)
(* read for the event at the front, whose extraction is still to come.     *)
Writers == {r \in Connection : recv[r].pc \in {"flag", "write"}}
Owed == IF main.pc = "advertised" THEN 1 ELSE 0
Taken == IF main.pc = "receive" \/ HandlesEvent THEN 1 ELSE 0
BytesSuffice == ~cut => pipe + Owed + Cardinality(Writers) + Taken >= Len(queue)

FlagOK == /\ available => queue # << >>
          /\ ~cut => (holder = 0 /\ queue # << >> => available)

LEMMA WritersCount ==
  IsFiniteSet(Connection) /\ \A S \in SUBSET Connection : IsFiniteSet(S) /\ Cardinality(S) \in Nat
PROOF
  <1>1. IsFiniteSet(Connection)
    BY ClientAssumption, FS_Interval DEF Connection
  <1>2. ASSUME NEW S \in SUBSET Connection
        PROVE  IsFiniteSet(S) /\ Cardinality(S) \in Nat
    BY <1>1, FS_Subset, FS_CardinalityType
  <1> QED BY <1>1, <1>2

LEMMA PipeTypes ==
  ASSUME TypeOK
  PROVE  /\ pipe \in Nat /\ Owed \in {0, 1} /\ Taken \in {0, 1}
         /\ Cardinality(Writers) \in Nat /\ Len(queue) \in Nat
PROOF
  <1>1. Writers \in SUBSET Connection
    BY DEF Writers
  <1> QED BY <1>1, WritersCount, LenProperties DEF TypeOK, MailOK, Owed, Taken

(* cut says it when a thread ends that owes a byte or the flag.            *)
LEMMA CutIsTold ==
  ASSUME IInv, [Next]_vars
  PROVE  /\ cut => cut'
         /\ \A r \in Connection : RecvCancelled(r) /\ recv[r].pc \in {"flag", "write"} => cut'
PROOF
  <1>1. \A r \in Connection : RecvCancelled(r) =>
          (cut => cut') /\ (recv[r].pc \in {"flag", "write"} => cut')
    BY DEF RecvCancelled
  <1>2. (\E r \in Connection : RecvCancelled(r)) \/ UNCHANGED cut
    BY Frame DEF history, DisconnectionEvent, Extract, Disconnect, DisconnectEnds
  <1> QED BY <1>1, <1>2

LEMMA WritersKept ==
  ASSUME IInv, [Next]_vars, \A r \in Connection : ~RecvPush(r) /\ ~RecvWrite(r), ~cut'
  PROVE  Writers' = Writers
PROOF
  <1> USE DEF IInv, TypeOK
  <1>1. CASE UNCHANGED recv
    BY <1>1 DEF Writers
  <1>2. CASE StartThread
    BY <1>2 DEF StartThread, GoTo, Writers, RecvState, ThreadsOK, LinkOK
  <1>3. ASSUME NEW r \in Connection, ReceiveThread(r)
        PROVE  Writers' = Writers
    <2>1. ASSUME NEW pc, GoTo(r, pc),
                 (pc \in {"flag", "write"}) <=> recv[r].pc \in {"flag", "write"}
          PROVE  Writers' = Writers
      BY <2>1 DEF GoTo, Writers, RecvState
    <2>2. CASE RecvSelect(r) \/ RecvPrefix(r) \/ RecvBroken(r)
      <3>1. recv[r].pc \in {"loop", "read"} /\ \E pc \in {"loop", "read", "ended"} : GoTo(r, pc)
        BY <2>2 DEF RecvSelect, RecvPrefix, RecvBroken
      <3> QED BY <2>1, <3>1
    <2>3. CASE RecvFlag(r)
      BY <2>1, <2>3 DEF RecvFlag
    <2>4. CASE RecvPayload(r)
      BY <2>4 DEF RecvPayload, Writers, RecvState
    <2> QED BY <1>3, <2>2, <2>3, <2>4 DEF ReceiveThread
  <1>4. ASSUME NEW r \in Connection, RecvCancelled(r)
        PROVE  Writers' = Writers
    <2>1. recv[r].pc \notin {"flag", "write"}
      BY <1>4, CutIsTold
    <2>2. recv' = [recv EXCEPT ![r] = [pc |-> "ended", from |-> 0, of |-> 0]]
      BY <1>4 DEF RecvCancelled
    <2> QED BY <2>1, <2>2 DEF Writers, RecvState
  <1> QED BY <1>1, <1>2, <1>3, <1>4, Frame

LEMMA FlagStep ==
  ASSUME IInv, [Next]_vars
  PROVE  FlagOK'
PROOF
  <1> USE DEF TypeOK, MailOK, mail, FlagOK
  <1>1. FlagOK /\ TypeOK /\ SectionOK
    BY DEF IInv, PipeSuffices
  <1>2. CASE UNCHANGED << queue, available, holder >>
    BY <1>1, <1>2, CutIsTold
  <1>3. ASSUME NEW r \in Connection, RecvPush(r)
        PROVE  FlagOK'
    <2>1. queue' # << >> /\ holder' = r
      BY <1>1, <1>3 DEF RecvPush
    <2> QED BY <2>1 DEF Connection
  <1>4. ASSUME NEW r \in Connection, RecvFlag(r)
        PROVE  FlagOK'
    BY <1>1, <1>4 DEF RecvFlag, SectionOK
  <1>5. ASSUME NEW r \in Connection, RecvCancelled(r)
        PROVE  FlagOK'
    <2>1. CASE recv[r].pc = "flag"
      <3>1. UNCHANGED queue /\ queue # << >>
        BY <1>1, <1>5, <2>1 DEF RecvCancelled, SectionOK
      <3> QED BY <1>5, <2>1, <3>1, CutIsTold
    <2>2. CASE recv[r].pc # "flag"
      <3>1. UNCHANGED << queue, available >> /\ (UNCHANGED holder \/ holder' # 0)
        BY <1>5, <2>2 DEF RecvCancelled, Connection
      <3> QED BY <1>1, <1>2, <3>1
    <2> QED BY <2>1, <2>2
  <1>6. CASE Advertise
    BY <1>1, <1>6 DEF Advertise, PushMessage
  <1>7. CASE (\E r \in Connection : RecvWrite(r)) \/ Advertised
    BY <1>2, <1>7 DEF RecvWrite, Advertised
  <1>8. CASE MessageAvailable \/ DisconnectionEvent
    BY <1>2, <1>8 DEF MessageAvailable, DisconnectionEvent
  <1>9. CASE Extract \/ Receive
    BY <1>9 DEF Extract, Receive, PopMessage
  <1>10. CASE ClearQueue
    BY <1>10 DEF ClearQueue
  <1> QED BY <1>2, <1>3, <1>4, <1>5, <1>6, <1>7, <1>8, <1>9, <1>10, Frame

(* A message is queued, then its byte is written.                          *)
LEMMA MessageBytes ==
  ASSUME IInv, NEW r \in Connection, RecvPush(r) \/ RecvWrite(r), BytesSuffice,
         Owed' = Owed, Taken' = Taken
  PROVE  BytesSuffice'
PROOF
  <1> USE DEF IInv, TypeOK, MailOK
  <1>1. IsFiniteSet(Writers) /\ Cardinality(Writers) \in Nat
    BY WritersCount DEF Writers
  <1>2. CASE RecvPush(r)
    <2>1. Writers' = Writers \union {r} /\ r \notin Writers
      BY <1>2 DEF RecvPush, Writers, RecvState
    <2>2. Cardinality(Writers') = Cardinality(Writers) + 1
      BY <1>1, <2>1, FS_AddElement
    <2>3. UNCHANGED << pipe, cut >> /\ Len(queue') = Len(queue) + 1 /\ Len(queue) \in Nat
      BY <1>2 DEF RecvPush, history
    <2> QED BY <1>1, <2>2, <2>3, PipeTypes DEF BytesSuffice
  <1>3. CASE RecvWrite(r)
    <2>1. Writers' = Writers \ {r} /\ r \in Writers
      BY <1>3 DEF RecvWrite, GoTo, Writers, RecvState
    <2>2. Cardinality(Writers') = Cardinality(Writers) - 1
      BY <1>1, <2>1, FS_RemoveElement
    <2>3. UNCHANGED << queue, cut >> /\ pipe' = pipe + 1
      BY <1>3 DEF RecvWrite, WritePipe, history
    <2> QED BY <1>1, <2>2, <2>3, PipeTypes DEF BytesSuffice
  <1> QED BY <1>2, <1>3

LEMMA BytesStep ==
  ASSUME IInv, [Next]_vars
  PROVE  BytesSuffice'
PROOF
  <1> USE DEF mail
  <1>1. BytesSuffice
    BY DEF IInv, PipeSuffices, BytesSuffice, Owed, Taken, Writers
  <1>2. /\ TypeOK /\ MainOK /\ TypeOK'
        /\ main \in MainState
        /\ pipe \in Nat /\ Owed \in {0, 1} /\ Taken \in {0, 1}
        /\ Cardinality(Writers) \in Nat /\ Len(queue) \in Nat
        /\ pipe' \in Nat /\ Owed' \in {0, 1} /\ Taken' \in {0, 1}
        /\ Cardinality(Writers') \in Nat /\ Len(queue') \in Nat
    <2>1. TypeOK'
      BY TypeStep
    <2>2. pipe' \in Nat /\ Len(queue') \in Nat
      BY <2>1, LenProperties DEF TypeOK, MailOK
    <2>3. Cardinality(Writers') \in Nat
      BY WritersCount DEF Writers
    <2> QED BY <2>1, <2>2, <2>3, PipeTypes DEF IInv, TypeOK, Owed, Taken
  <1>3. ASSUME NEW r \in Connection, RecvPush(r) \/ RecvWrite(r)
        PROVE  BytesSuffice'
    <2>1. UNCHANGED main
      BY <1>3 DEF RecvPush, RecvWrite
    <2>2. Owed' = Owed /\ Taken' = Taken
      BY <2>1 DEF Owed, Taken, HandlesEvent
    <2> QED BY <1>1, <1>3, <2>2, MessageBytes
  <1> SUFFICES ASSUME \A r \in Connection : ~RecvPush(r) /\ ~RecvWrite(r), ~cut'
               PROVE  BytesSuffice'
    BY <1>3 DEF BytesSuffice
  <1>4. Writers' = Writers /\ pipe + Owed + Cardinality(Writers) + Taken >= Len(queue)
    BY <1>1, WritersKept, CutIsTold DEF BytesSuffice
  <1>5. CASE Advertise
    <2>1. UNCHANGED pipe /\ Owed = 0 /\ Owed' = 1 /\ Taken' = Taken
      BY <1>2, <1>5 DEF Advertise, MainGoes, MainState, Owed, Taken, HandlesEvent
    <2>2. Len(queue') = Len(queue) + 1
      BY <1>2, <1>5 DEF Advertise, PushMessage, TypeOK, MailOK
    <2> QED BY <1>2, <1>4, <2>1, <2>2 DEF BytesSuffice
  <1>6. CASE Advertised
    <2>1. pipe' = pipe + 1 /\ UNCHANGED queue /\ Owed = 1 /\ Owed' = 0
      BY <1>2, <1>6 DEF Advertised, WritePipe, MainGoes, MainState, Owed
    <2>2. Taken' = Taken
      BY <1>2, <1>6 DEF Advertised, MainGoes, MainState, Taken, HandlesEvent
    <2> QED BY <1>2, <1>4, <2>1, <2>2 DEF BytesSuffice
  <1>7. CASE MessageAvailable \/ DisconnectionEvent
    <2>1. pipe' = pipe - 1 /\ UNCHANGED queue
      BY <1>7 DEF MessageAvailable, DisconnectionEvent, ReadPipe
    <2>2. Taken = 0 /\ Taken' = 1 /\ Owed' = 0 /\ Owed = 0
      BY <1>2, <1>7
      DEF MessageAvailable, DisconnectionEvent, MainGoes, MainState, Taken, HandlesEvent, Owed
    <2> QED BY <1>2, <1>4, <2>1, <2>2 DEF BytesSuffice
  <1>8. CASE Extract \/ Receive
    <2>1. Taken = 1 /\ Taken' = 0 /\ Owed' = 0 /\ Owed = 0 /\ UNCHANGED pipe
      BY <1>2, <1>8 DEF Extract, Receive, MainState, Taken, HandlesEvent, Owed
    <2>2. CASE queue = << >>
      <3>1. Len(queue') = 0
        BY <1>8, <2>2 DEF Extract, Receive, PopMessage
      <3> QED BY <1>2, <3>1 DEF BytesSuffice
    <2>3. CASE queue # << >>
      <3>1. queue' = Tail(queue) /\ queue \in Seq(Event)
        BY <1>2, <1>8, <2>3 DEF Extract, Receive, PopMessage, TypeOK, MailOK
      <3>2. Len(queue') = Len(queue) - 1
        BY <2>3, <3>1, HeadTailProperties
      <3> QED BY <1>2, <1>4, <2>1, <3>2 DEF BytesSuffice
    <2> QED BY <2>2, <2>3
  <1>9. CASE ClearQueue
    <2>1. Len(queue') = 0
      BY <1>9, EmptySeq DEF ClearQueue
    <2> QED BY <1>2, <2>1 DEF BytesSuffice
  <1>10. CASE /\ ~Advertise /\ ~Advertised /\ ~MessageAvailable /\ ~DisconnectionEvent
              /\ ~Extract /\ ~Receive /\ ~ClearQueue
    <2>1. UNCHANGED << queue, pipe >>
      BY <1>10, Frame DEF RecvFlag, RecvCancelled
    <2>2. Taken' = Taken /\ Owed' = Owed
      BY <1>10, MainFrame DEF Taken, Same, Owed
    <2> QED BY <1>2, <1>4, <2>1, <2>2 DEF BytesSuffice
  <1> QED BY <1>5, <1>6, <1>7, <1>8, <1>9, <1>10

LEMMA PipeStep ==
  ASSUME IInv, [Next]_vars
  PROVE  PipeSuffices'
  BY FlagStep, BytesStep DEF PipeSuffices, FlagOK, BytesSuffice, Owed, Taken, Writers

-----------------------------------------------------------------------------
LEMMA Initially == Init => IInv
PROOF
  <1> SUFFICES ASSUME Init PROVE IInv
    OBVIOUS
  <1>1. TypeOK
    <2>1. load \in Loads /\ load.sent \in Nat /\ load.received \in Nat
      BY ClientAssumption DEF Init
    <2>2. LinkOK /\ MailOK
      <3>1. 0 \in 0 .. 2 * load.received
        BY <2>1
      <3>2. halves \in [Connection -> 0 .. 2 * load.received]
        BY <3>1 DEF Init
      <3>3. LinkOK
        BY <3>2 DEF Init, LinkOK
      <3> QED BY <3>3, EmptySeq DEF Init, MailOK
    <2>3. SendingOK
      BY <2>1, EmptySeq DEF Init, SendingOK
    <2>4. HistoryOK
      BY DEF Init, HistoryOK
    <2>5. recv \in [Connection -> RecvState] /\ main \in MainState
      BY DEF Init, RecvState, MainState, NoEvent
    <2> QED BY <2>1, <2>2, <2>3, <2>4, <2>5 DEF TypeOK
  <1>2. ThreadsOK /\ SectionOK /\ MainOK
    BY DEF Init, ThreadsOK, SectionOK, MainOK, Quitting
  <1>3. ReportsOK
    <2>1. Reports = {}
      BY EmptySeq DEF Init, Reports
    <2> QED BY <2>1 DEF Init, ReportsOK, HandlesEvent, DisconnectIsSilent
  <1>4. PipeSuffices
    <2>1. Cardinality(Writers) \in Nat /\ Len(queue) = 0
      BY <1>1, PipeTypes, EmptySeq DEF Init
    <2> QED BY <2>1 DEF Init, PipeSuffices, HandlesEvent, Writers
  <1> QED BY <1>1, <1>2, <1>3, <1>4 DEF IInv

LEMMA Safety == Spec => []IInv
PROOF
  <1>1. IInv /\ [Next]_vars => IInv'
    BY TypeStep, ThreadsStep, SectionStep, MainStep, ReportsStep, PipeStep DEF IInv
  <1> QED BY Initially, <1>1, PTL DEF Spec

(* The types, for any number of connections and messages and any sizes.    *)
THEOREM TypeCorrect == Spec => []TypeOK
PROOF
  <1>1. IInv => TypeOK
    BY DEF IInv
  <1> QED BY Safety, <1>1, PTL

(* What the user is told agrees with the socket: one report of the end of  *)
(* a connection, before the next one is made (buf_client.cpp:94, 385).     *)
THEOREM UserSeesTheSocket == Spec => []UserView
PROOF
  <1>1. IInv => UserView
    <2> SUFFICES ASSUME IInv PROVE UserView
      OBVIOUS
    <2>1. \A c \in Connection : told[c] <= 1
      BY DEF IInv, ReportsOK
    <2>2. ASSUME main.pc = "peeked", main.event.type = "Disconnection"
          PROVE  main.event.of = conn
      <3>1. queue # << >> /\ main.event = queue[1] /\ Len(queue) \in Nat \ {0}
        BY <2>2, LenProperties, EmptySeq DEF IInv, TypeOK, MailOK, MainOK
      <3>2. 1 \in Reports
        BY <2>2, <3>1 DEF Reports, Handled, HandlesEvent
      <3> QED BY <3>1, <3>2 DEF IInv, ReportsOK
    <2>3. up => state \/ conn \in failed
      BY DEF IInv, MainOK
    <2> QED BY <2>1, <2>2, <2>3 DEF UserView
  <1> QED BY Safety, <1>1, PTL

(* Whenever the mutex of the queue is free, dataAvailable's flag is exact, *)
(* and the pipe has or will have a byte for every event, up to the first   *)
(* receive thread that is cancelled, at whatever instruction, from its     *)
(* critical section to its write to the pipe (p_thread.cpp:62).  The flag  *)
(* is never set without an event at all (buf_client.cpp:156).              *)
THEOREM EveryEventHasItsByte == Spec => []PipeSuffices
PROOF
  <1>1. IInv => PipeSuffices
    BY DEF IInv
  <1> QED BY Safety, <1>1, PTL

(* A disconnect of a connected socket is never followed by the callback    *)
(* about this connection (buf_client.h:107).                               *)
THEOREM SilentDisconnect == Spec => []DisconnectIsSilent
PROOF
  <1>1. IInv => DisconnectIsSilent
    BY DEF IInv, ReportsOK
  <1> QED BY Safety, <1>1, PTL

-----------------------------------------------------------------------------
(* One half may be sent behind another: the payload of a message behind    *)
(* its prefix, or the prefix of a later message.                           *)
GoesOn(a, b) == a < b /\ (b % 2 = 0 => b = a + 1)

(* A buffer ends with a whole message, though the first one of it may be   *)
(* sent in part.                                                           *)
BufferWhole(r) ==
  \A j \in 1 .. Len(r) :
    /\ r[j] % 2 = (Len(r) - j) % 2
    /\ j > 1 => GoesOn(r[j - 1], r[j])

(* What was sent on one connection, as StreamIsWhole says it.              *)
FlowWhole(f) ==
  \A i \in 1 .. Len(f) :
    IF i % 2 = 0 THEN f[i] = f[i - 1] + 1
                 ELSE f[i] % 2 = 1 /\ (i > 1 => f[i - 1] < f[i])

(* A buffer of which k halves are sent goes on where the flow ends.        *)
Continues(f, r, k) ==
  /\ (Len(f) + (Len(r) - k)) % 2 = 0
  /\ Len(f) > 0 /\ k < Len(r) => GoesOn(f[Len(f)], r[k + 1])

(* The messages of a queue come after some halves.                         *)
Before(s, q) == \A k \in 1 .. Len(s) : \A i \in 1 .. Len(q) : s[k] < 2 * q[i] - 1

Rising(q) == \A i \in 1 .. Len(q) : \A j \in 1 .. i - 1 : q[j] < q[i]

QueueOK ==
  /\ Rising(sendFifo)
  /\ \A i \in 1 .. Len(sendFifo) : sendFifo[i] <= pushed

BufferOK ==
  /\ BufferWhole(ready)
  /\ index = 0 \/ index < Len(ready)
  /\ \A j \in 1 .. Len(ready) : ready[j] <= 2 * pushed
  /\ Before(ready, sendFifo)

FlowsOK ==
  /\ \A c \in Connection :
       /\ FlowWhole(flow[c])
       /\ Before(flow[c], sendFifo)
       /\ \A k \in 1 .. Len(flow[c]) : c <= conn /\ flow[c][k] <= 2 * pushed
       /\ c # conn => \A k \in 1 .. Len(flow[c]) : \A j \in index + 1 .. Len(ready) :
                        flow[c][k] < ready[j]
  /\ \A c, d \in Connection : c < d =>
       \A i \in 1 .. Len(flow[c]) : \A j \in 1 .. Len(flow[d]) : flow[c][i] < flow[d][j]

(* As long as nothing was lost, the buffer goes on where the system        *)
(* stopped taking it.                                                      *)
JoinOK ==
  /\ \A c \in failed : c <= conn
  /\ conn # 0 /\ conn \notin failed => Continues(flow[conn], ready, index)

StreamInv == QueueOK /\ BufferOK /\ FlowsOK /\ JoinOK

-----------------------------------------------------------------------------
(* Even and odd numbers.                                                   *)
LEMMA Parity ==
  /\ \A a \in Int : (2 * a) % 2 = 0 /\ (2 * a + 1) % 2 = 1 /\ (2 * a - 1) % 2 = 1
  /\ \A a, b \in Nat : (a + b) % 2 = 0 => a % 2 = b % 2
  OBVIOUS

(* Half by half, the messages of a rising queue make a whole buffer.       *)
LEMMA HalvesOfMessages ==
  ASSUME NEW S \in SUBSET (Nat \ {0}), NEW q \in Seq(S), Rising(q)
  PROVE  /\ Halves(q) \in Seq(Nat) /\ Len(Halves(q)) = 2 * Len(q)
         /\ BufferWhole(Halves(q))
         /\ \A j \in 1 .. 2 * Len(q) : \E i \in 1 .. Len(q) :
              Halves(q)[j] \in {2 * q[i] - 1, 2 * q[i]}
         /\ Len(q) > 0 => Halves(q)[1] = 2 * q[1] - 1
PROOF
  <1> DEFINE n == Len(q)
             h == Halves(q)
  <1>1. n \in Nat /\ \A i \in 1 .. n : q[i] \in Nat \ {0}
    BY LenProperties, ElementOfSeq
  <1>2. h = [j \in 1 .. 2 * n |-> 2 * q[(j + 1) \div 2] - (j % 2)]
    BY DEF Halves
  <1> HIDE DEF n, h
  <1>3. ASSUME NEW j \in 1 .. 2 * n
        PROVE  \E i \in 1 .. n : \/ j = 2 * i - 1 /\ h[j] = 2 * q[i] - 1
                                 \/ j = 2 * i /\ h[j] = 2 * q[i]
    <2> DEFINE i == (j + 1) \div 2
    <2>1. i \in 1 .. n /\ (j = 2 * i - 1 \/ j = 2 * i)
      BY <1>1
    <2>2. j = 2 * i - 1 => j % 2 = 1
      BY <2>1
    <2>3. j = 2 * i => j % 2 = 0
      BY <2>1
    <2>4. h[j] = 2 * q[i] - (j % 2)
      BY <1>2
    <2>5. q[i] \in Nat
      BY <1>1, <2>1
    <2> HIDE DEF i
    <2> QED BY <2>1, <2>2, <2>3, <2>4, <2>5
  <1>4. \A j \in 1 .. 2 * n : h[j] \in Nat
    BY <1>1, <1>3
  <1>5. 2 * n \in Nat /\ h \in [1 .. 2 * n -> Nat]
    BY <1>1, <1>2, <1>4
  <1>6. h \in Seq(Nat) /\ Len(h) = 2 * n
    <2>1. h \in Seq(Nat)
      BY <1>5, SeqDef
    <2> QED BY <1>5, <2>1, LenProperties
  <1>7. ASSUME NEW j \in 1 .. 2 * n
        PROVE  h[j] % 2 = (2 * n - j) % 2 /\ (j > 1 => GoesOn(h[j - 1], h[j]))
    <2>1. PICK i \in 1 .. n : \/ j = 2 * i - 1 /\ h[j] = 2 * q[i] - 1
                              \/ j = 2 * i /\ h[j] = 2 * q[i]
      BY <1>3
    <2>2. i \in Nat /\ q[i] \in Nat \ {0} /\ j \in Nat
      BY <1>1, <2>1
    <2>3. h[j] % 2 = (2 * n - j) % 2
      <3>1. CASE j = 2 * i
        <4>1. 2 * n - j = 2 * (n - i) /\ h[j] = 2 * q[i] /\ n - i \in Int
          BY <1>1, <2>1, <2>2, <3>1
        <4> QED BY <2>2, <4>1, Parity
      <3>2. CASE j = 2 * i - 1
        <4>1. 2 * n - j = 2 * (n - i) + 1 /\ h[j] = 2 * q[i] - 1 /\ n - i \in Int
          BY <1>1, <2>1, <2>2, <3>2
        <4> QED BY <2>2, <4>1, Parity
      <3> QED BY <2>1, <3>1, <3>2
    <2>4. ASSUME j > 1 PROVE GoesOn(h[j - 1], h[j])
      <3>1. PICK k \in 1 .. n : \/ j - 1 = 2 * k - 1 /\ h[j - 1] = 2 * q[k] - 1
                                \/ j - 1 = 2 * k /\ h[j - 1] = 2 * q[k]
        <4>1. j - 1 \in 1 .. 2 * n
          BY <1>1, <2>4
        <4> QED BY <1>3, <4>1
      <3>2. k \in Nat /\ q[k] \in Nat \ {0}
        BY <1>1, <3>1
      <3>3. CASE j = 2 * i
        <4>1. k = i /\ h[j - 1] = 2 * q[k] - 1 /\ h[j] = 2 * q[i]
          BY <2>1, <2>2, <3>1, <3>2, <3>3
        <4> QED BY <2>2, <4>1 DEF GoesOn
      <3>4. CASE j = 2 * i - 1
        <4>1. k = i - 1 /\ h[j - 1] = 2 * q[k] /\ h[j] = 2 * q[i] - 1
          BY <2>1, <2>2, <3>1, <3>2, <3>4
        <4>2. q[k] < q[i]
          BY <2>2, <3>2, <4>1 DEF Rising, n
        <4>3. h[j] % 2 = 1
          BY <2>2, <4>1
        <4> QED BY <2>2, <3>2, <4>1, <4>2, <4>3 DEF GoesOn
      <3> QED BY <2>1, <3>3, <3>4
    <2> QED BY <2>3, <2>4
  <1>8. BufferWhole(h)
    BY <1>6, <1>7 DEF BufferWhole
  <1>9. \A j \in 1 .. 2 * n : \E i \in 1 .. n : h[j] \in {2 * q[i] - 1, 2 * q[i]}
    BY <1>3
  <1>10. ASSUME n > 0 PROVE h[1] = 2 * q[1] - 1
    <2>1. 1 \in 1 .. 2 * n
      BY <1>1, <1>10
    <2>2. PICK i \in 1 .. n : \/ 1 = 2 * i - 1 /\ h[1] = 2 * q[i] - 1
                              \/ 1 = 2 * i /\ h[1] = 2 * q[i]
      BY <1>3, <2>1
    <2>3. i = 1
      BY <1>1, <2>2
    <2> QED BY <2>2, <2>3
  <1> QED BY <1>6, <1>8, <1>9, <1>10 DEF h, n

(* A part of a buffer, taken where the flow ends, keeps the flow whole,    *)
(* and the flow ends where the rest begins.                                *)
LEMMA FlowGoesOn ==
  ASSUME NEW f \in Seq(Nat), NEW r \in Seq(Nat), NEW k \in Nat, NEW n \in Nat,
         k + n <= Len(r), FlowWhole(f), BufferWhole(r), Continues(f, r, k)
  PROVE  /\ f \o SubSeq(r, k + 1, k + n) \in Seq(Nat)
         /\ Len(f \o SubSeq(r, k + 1, k + n)) = Len(f) + n
         /\ \A i \in 1 .. Len(f) + n :
              (f \o SubSeq(r, k + 1, k + n))[i] = IF i <= Len(f) THEN f[i] ELSE r[k + (i - Len(f))]
         /\ FlowWhole(f \o SubSeq(r, k + 1, k + n))
         /\ Continues(f \o SubSeq(r, k + 1, k + n), r, k + n)
PROOF
  <1> DEFINE l == Len(f)
             m == Len(r)
             s == SubSeq(r, k + 1, k + n)
             g == f \o s
  <1>1. l \in Nat /\ m \in Nat /\ (\A i \in 1 .. l : f[i] \in Nat) /\ \A j \in 1 .. m : r[j] \in Nat
    BY LenProperties, ElementOfSeq
  <1>2. s \in Seq(Nat) /\ Len(s) = n /\ \A i \in 1 .. n : s[i] = r[k + i]
    <2>1. \A i \in k + 1 .. k + n : r[i] \in Nat
      BY <1>1
    <2>2. s \in Seq(Nat) /\ Len(s) = n /\ \A i \in 1 .. n : s[i] = r[(k + 1) + i - 1]
      BY <2>1, SubSeqProperties
    <2> QED BY <2>2
  <1> HIDE DEF s
  <1>3. g \in Seq(Nat) /\ Len(g) = l + n
    BY <1>2, ConcatProperties
  <1>4. \A i \in 1 .. l + n : g[i] = IF i <= l THEN f[i] ELSE r[k + (i - l)]
    <2> SUFFICES ASSUME NEW i \in 1 .. l + n
                 PROVE  g[i] = IF i <= l THEN f[i] ELSE r[k + (i - l)]
      OBVIOUS
    <2>1. g[i] = IF i <= l THEN f[i] ELSE s[i - l]
      BY <1>2, ConcatProperties
    <2>2. ~(i <= l) => i - l \in 1 .. n
      BY <1>1
    <2> QED BY <1>2, <2>1, <2>2
  <1> HIDE DEF g, l, m
  <1>5. \A i \in 1 .. l : IF i % 2 = 0 THEN f[i] = f[i - 1] + 1
                                       ELSE f[i] % 2 = 1 /\ (i > 1 => f[i - 1] < f[i])
    BY DEF FlowWhole, l
  <1>6. \A j \in 1 .. m : r[j] % 2 = (m - j) % 2 /\ (j > 1 => GoesOn(r[j - 1], r[j]))
    BY DEF BufferWhole, m
  <1>7. (l + (m - k)) % 2 = 0 /\ (l > 0 /\ k < m => GoesOn(f[l], r[k + 1]))
    BY DEF Continues, l, m
  <1>8. k + n <= m
    BY DEF m
  <1>9. ASSUME NEW i \in 1 .. l + n
        PROVE  IF i % 2 = 0 THEN g[i] = g[i - 1] + 1
                            ELSE g[i] % 2 = 1 /\ (i > 1 => g[i - 1] < g[i])
    <2>1. CASE i <= l
      <3>1. i \in 1 .. l /\ g[i] = f[i] /\ (i > 1 => g[i - 1] = f[i - 1])
        BY <1>1, <1>4, <2>1
      <3>2. i % 2 = 0 => i > 1
        BY <1>1
      <3> QED BY <1>5, <3>1, <3>2
    <2>2. CASE i > l
      <3> DEFINE j == k + (i - l)
      <3>1. j \in 1 .. m /\ i > l /\ i \in Nat /\ j = k + (i - l)
        BY <1>1, <1>8, <2>2
      <3>2. g[i] = r[j] /\ r[j] \in Nat
        BY <1>1, <1>4, <2>2, <3>1
      <3> HIDE DEF j
      <3>3. r[j] % 2 = (m - j) % 2
        BY <1>6, <3>1
      <3>4. r[j] % 2 = i % 2
        <4>1. m - j \in Nat /\ (m - j) + i = l + (m - k)
          BY <1>1, <3>1
        <4>2. ((m - j) + i) % 2 = 0
          BY <1>7, <4>1
        <4>3. (m - j) % 2 = i % 2
          BY <3>1, <4>1, <4>2, Parity
        <4> QED BY <3>3, <4>3
      <3>5. ASSUME i > 1 PROVE g[i - 1] \in Nat /\ GoesOn(g[i - 1], g[i])
        <4>1. CASE i = l + 1
          <5>1. g[i - 1] = f[l] /\ f[l] \in Nat /\ j = k + 1 /\ l > 0 /\ k < m
            BY <1>1, <1>4, <3>1, <3>5, <4>1
          <5> QED BY <1>7, <3>2, <5>1
        <4>2. CASE i > l + 1
          <5>1. g[i - 1] = r[j - 1] /\ j > 1 /\ j - 1 \in 1 .. m
            BY <1>1, <1>4, <3>1, <4>2
          <5> QED BY <1>1, <1>6, <3>1, <3>2, <5>1
        <4> QED BY <1>1, <2>2, <4>1, <4>2
      <3>6. i % 2 = 0 => i > 1
        BY <3>1
      <3>7. i % 2 \in {0, 1}
        BY <3>1
      <3> QED BY <3>2, <3>4, <3>5, <3>6, <3>7 DEF GoesOn
    <2> QED BY <1>1, <2>1, <2>2
  <1>10. FlowWhole(g)
    BY <1>3, <1>9 DEF FlowWhole
  <1>11. Continues(g, r, k + n)
    <2>1. (l + n + (m - (k + n))) % 2 = 0
      BY <1>1, <1>7
    <2>2. ASSUME l + n > 0, k + n < m PROVE GoesOn(g[l + n], r[k + n + 1])
      <3>1. CASE n = 0
        <4>1. g[l + n] = f[l] /\ l > 0
          BY <1>1, <1>4, <2>2, <3>1
        <4> QED BY <1>7, <2>2, <3>1, <4>1
      <3>2. CASE n > 0
        <4>1. g[l + n] = r[k + n]
          BY <1>1, <1>4, <3>2
        <4>2. k + n + 1 \in 1 .. m /\ k + n + 1 > 1 /\ (k + n + 1) - 1 = k + n
          BY <1>1, <2>2, <3>2
        <4> QED BY <1>6, <4>1, <4>2
      <3> QED BY <3>1, <3>2
    <2> QED BY <1>3, <2>1, <2>2 DEF Continues, m
  <1> QED BY <1>3, <1>4, <1>10, <1>11 DEF g, s, l

(* What flush fills the buffer with is whole, comes behind what is in it,  *)
(* and leaves the later messages in the queue.                             *)
LEMMA FillingKeepsOrder ==
  ASSUME TypeOK, QueueOK, BufferOK
  PROVE  /\ Filled \in Seq(Nat) /\ Len(Filled) \in Nat /\ Unmoved \in Seq(Nat)
         /\ BufferWhole(Filled)
         /\ Before(Filled, Unmoved)
         /\ \A j \in 1 .. Len(Filled) : Filled[j] <= 2 * pushed
         /\ Rising(Unmoved) /\ \A i \in 1 .. Len(Unmoved) : Unmoved[i] <= pushed
         /\ \A f \in Seq(Nat) : Before(f, sendFifo) =>
              /\ Before(f, Unmoved)
              /\ Continues(f, ready, index) => Continues(f, Filled, index)
         /\ \A x \in Nat :
              /\ \A i \in 1 .. Len(sendFifo) : x < 2 * sendFifo[i] - 1
              /\ \A j \in index + 1 .. Len(ready) : x < ready[j]
              => \A j \in index + 1 .. Len(Filled) : x < Filled[j]
PROOF
  <1> DEFINE P == Nat \ {0}
             n == Len(sendFifo)
             l == Len(ready)
             m == Moved
             first == SubSeq(sendFifo, 1, m)
             rest == SubSeq(sendFifo, m + 1, n)
             h == Halves(first)
             r == ready \o h
  <1>1. /\ n \in Nat /\ l \in Nat /\ m \in 0 .. n /\ pushed \in Nat /\ index \in 0 .. l
        /\ sendFifo \in Seq(P) /\ ready \in Seq(Nat)
        /\ \A i \in 1 .. n : sendFifo[i] \in P
        /\ \A j \in 1 .. l : ready[j] \in Nat
    <2>1. load.sent \in Nat /\ pushed \in Nat
      BY LoadBounds DEF TypeOK, SendingOK
    <2>2. 1 .. load.sent \subseteq P /\ 1 .. 2 * load.sent \subseteq Nat
      BY <2>1
    <2>3. sendFifo \in Seq(P) /\ ready \in Seq(Nat)
      BY <2>2, SeqMonotonic DEF TypeOK, SendingOK
    <2>4. Moved \in 0 .. n /\ index \in 0 .. l
      BY MovedInRange DEF TypeOK, SendingOK
    <2> QED BY <2>1, <2>3, <2>4, LenProperties, ElementOfSeq
  <1>2. /\ first \in Seq(P) /\ Len(first) = m
        /\ \A i \in 1 .. m : first[i] = sendFifo[i]
    <2>1. \A i \in 1 .. m : sendFifo[i] \in P
      BY <1>1
    <2>2. /\ first \in Seq(P) /\ Len(first) = IF 1 <= m THEN m - 1 + 1 ELSE 0
          /\ \A i \in 1 .. m - 1 + 1 : first[i] = sendFifo[1 + i - 1]
      BY <1>1, <2>1, SubSeqProperties
    <2> QED BY <1>1, <2>2
  <1>3. /\ rest \in Seq(Nat) /\ Len(rest) = n - m
        /\ \A i \in 1 .. n - m : rest[i] = sendFifo[m + i]
    <2>1. \A i \in m + 1 .. n : sendFifo[i] \in Nat
      BY <1>1
    <2>2. /\ rest \in Seq(Nat) /\ Len(rest) = IF m + 1 <= n THEN n - (m + 1) + 1 ELSE 0
          /\ \A i \in 1 .. n - (m + 1) + 1 : rest[i] = sendFifo[(m + 1) + i - 1]
      BY <1>1, <2>1, SubSeqProperties
    <2> QED BY <1>1, <2>2
  <1>4. /\ \A i \in 1 .. n : sendFifo[i] <= pushed
        /\ \A i \in 1 .. n : \A j \in 1 .. i - 1 : sendFifo[j] < sendFifo[i]
        /\ \A j \in 1 .. l : ready[j] <= 2 * pushed
        /\ \A j \in 1 .. l : \A i \in 1 .. n : ready[j] < 2 * sendFifo[i] - 1
        /\ \A j \in 1 .. l : ready[j] % 2 = (l - j) % 2 /\ (j > 1 => GoesOn(ready[j - 1], ready[j]))
        /\ index = 0 \/ index < l
    BY DEF QueueOK, BufferOK, Rising, Before, BufferWhole
  <1> HIDE DEF first, rest, n, l, m
  <1>5. Rising(first)
    BY <1>1, <1>2, <1>4 DEF Rising
  <1>6. /\ h \in Seq(Nat) /\ Len(h) = 2 * m /\ BufferWhole(h)
        /\ \A j \in 1 .. 2 * m : \E i \in 1 .. m : h[j] \in {2 * first[i] - 1, 2 * first[i]}
        /\ m > 0 => h[1] = 2 * first[1] - 1
    BY <1>1, <1>2, <1>5, HalvesOfMessages
  <1>7. \A j \in 1 .. 2 * m : \E i \in 1 .. m : h[j] \in {2 * sendFifo[i] - 1, 2 * sendFifo[i]}
    BY <1>2, <1>6
  <1>8. m > 0 => h[1] = 2 * sendFifo[1] - 1
    BY <1>1, <1>2, <1>6
  <1>9. \A j \in 1 .. 2 * m : h[j] % 2 = (2 * m - j) % 2 /\ (j > 1 => GoesOn(h[j - 1], h[j]))
    BY <1>6 DEF BufferWhole
  <1> HIDE DEF h
  <1>10. r \in Seq(Nat) /\ Len(r) = l + 2 * m
    <2>1. r \in Seq(Nat) /\ Len(r) = Len(ready) + Len(h)
      BY <1>1, <1>6, ConcatProperties
    <2> QED BY <1>6, <2>1 DEF l
  <1>11. \A j \in 1 .. l + 2 * m : r[j] = IF j <= l THEN ready[j] ELSE h[j - l]
    BY <1>1, <1>6, ConcatProperties DEF l
  <1> HIDE DEF r
  <1>12. \A j \in 1 .. 2 * m : h[j] \in Nat
    BY <1>6, ElementOfSeq
  <1>13. BufferWhole(r)
    <2> SUFFICES ASSUME NEW j \in 1 .. l + 2 * m
                 PROVE  r[j] % 2 = ((l + 2 * m) - j) % 2 /\ (j > 1 => GoesOn(r[j - 1], r[j]))
      BY <1>10 DEF BufferWhole
    <2>1. CASE j <= l
      <3>1. j \in 1 .. l /\ r[j] = ready[j] /\ (j > 1 => r[j - 1] = ready[j - 1])
        BY <1>1, <1>11, <2>1
      <3>2. (l - j) % 2 = ((l + 2 * m) - j) % 2
        BY <1>1, <3>1
      <3> QED BY <1>4, <3>1, <3>2
    <2>2. CASE j > l
      <3>1. j - l \in 1 .. 2 * m /\ r[j] = h[j - l]
        BY <1>1, <1>11, <2>2
      <3>2. 2 * m - (j - l) = (l + 2 * m) - j
        BY <1>1, <3>1
      <3>3. r[j] % 2 = ((l + 2 * m) - j) % 2
        BY <1>9, <3>1, <3>2
      <3>4. ASSUME j > l + 1 PROVE GoesOn(r[j - 1], r[j])
        <4>1. r[j - 1] = h[(j - l) - 1] /\ j - l > 1
          BY <1>1, <1>11, <3>4
        <4> QED BY <1>9, <3>1, <4>1
      <3>5. ASSUME j = l + 1, j > 1 PROVE GoesOn(r[j - 1], r[j])
        <4>1. l \in 1 .. l /\ r[j - 1] = ready[l] /\ r[j] = h[1] /\ m > 0 /\ 1 \in 1 .. n
          BY <1>1, <1>11, <3>1, <3>5
        <4>2. r[j] = 2 * sendFifo[1] - 1 /\ sendFifo[1] \in Nat
          BY <1>1, <1>8, <4>1
        <4>3. r[j - 1] < r[j]
          BY <1>4, <4>1, <4>2
        <4>4. r[j] % 2 = 1
          BY <4>2, Parity
        <4> QED BY <4>3, <4>4 DEF GoesOn
      <3> QED BY <1>1, <2>2, <3>3, <3>4, <3>5
    <2> QED BY <1>1, <2>1, <2>2
  <1>14. Before(r, rest)
    <2> SUFFICES ASSUME NEW j \in 1 .. l + 2 * m, NEW i \in 1 .. n - m
                 PROVE  r[j] < 2 * rest[i] - 1
      BY <1>3, <1>10 DEF Before
    <2>1. m + i \in 1 .. n /\ rest[i] = sendFifo[m + i] /\ sendFifo[m + i] \in Nat
      BY <1>1, <1>3
    <2>2. CASE j <= l
      <3>1. j \in 1 .. l /\ r[j] = ready[j]
        BY <1>1, <1>11, <2>2
      <3> QED BY <1>4, <2>1, <3>1
    <2>3. CASE j > l
      <3>1. j - l \in 1 .. 2 * m /\ r[j] = h[j - l]
        BY <1>1, <1>11, <2>3
      <3>2. PICK k \in 1 .. m : h[j - l] \in {2 * sendFifo[k] - 1, 2 * sendFifo[k]}
        BY <1>7, <3>1
      <3>3. k \in 1 .. (m + i) - 1 /\ k \in 1 .. n /\ sendFifo[k] \in Nat
        BY <1>1, <2>1, <3>2
      <3>4. sendFifo[k] < sendFifo[m + i]
        BY <1>4, <2>1, <3>3
      <3> QED BY <2>1, <3>1, <3>2, <3>3, <3>4
    <2> QED BY <1>1, <2>2, <2>3
  <1>15. \A j \in 1 .. l + 2 * m : r[j] <= 2 * pushed
    <2> SUFFICES ASSUME NEW j \in 1 .. l + 2 * m PROVE r[j] <= 2 * pushed
      OBVIOUS
    <2>1. CASE j <= l
      BY <1>1, <1>4, <1>11, <2>1
    <2>2. CASE j > l
      <3>1. j - l \in 1 .. 2 * m /\ r[j] = h[j - l]
        BY <1>1, <1>11, <2>2
      <3>2. PICK k \in 1 .. m : h[j - l] \in {2 * sendFifo[k] - 1, 2 * sendFifo[k]}
        BY <1>7, <3>1
      <3>3. k \in 1 .. n /\ sendFifo[k] \in Nat /\ sendFifo[k] <= pushed
        BY <1>1, <1>4, <3>2
      <3> QED BY <1>1, <3>1, <3>2, <3>3
    <2> QED BY <1>1, <2>1, <2>2
  <1>16. Rising(rest) /\ \A i \in 1 .. Len(rest) : rest[i] <= pushed
    <2>1. ASSUME NEW i \in 1 .. n - m
          PROVE  rest[i] <= pushed /\ \A j \in 1 .. i - 1 : rest[j] < rest[i]
      <3>1. m + i \in 1 .. n /\ rest[i] = sendFifo[m + i]
        BY <1>1, <1>3
      <3>2. ASSUME NEW j \in 1 .. i - 1 PROVE rest[j] < rest[i]
        <4>1. m + j \in 1 .. (m + i) - 1 /\ rest[j] = sendFifo[m + j]
          BY <1>1, <1>3
        <4> QED BY <1>4, <3>1, <4>1
      <3> QED BY <1>4, <3>1, <3>2
    <2> QED BY <1>3, <2>1 DEF Rising
  <1>17. ASSUME NEW f \in Seq(Nat), Before(f, sendFifo)
         PROVE  Before(f, rest)
    <2> SUFFICES ASSUME NEW k \in 1 .. Len(f), NEW i \in 1 .. n - m
                 PROVE  f[k] < 2 * rest[i] - 1
      BY <1>3 DEF Before
    <2>1. m + i \in 1 .. n /\ rest[i] = sendFifo[m + i]
      BY <1>1, <1>3
    <2> QED BY <1>17, <2>1 DEF Before, n
  <1>18. ASSUME NEW f \in Seq(Nat), Before(f, sendFifo), Continues(f, ready, index)
         PROVE  Continues(f, r, index)
    <2>1. Len(f) \in Nat
      BY LenProperties
    <2>2. (Len(f) + (l - index)) % 2 = 0
      BY <1>18 DEF Continues, l
    <2>3. (Len(f) + ((l + 2 * m) - index)) % 2 = 0
      BY <1>1, <2>1, <2>2
    <2>4. ASSUME Len(f) > 0, index < l + 2 * m
          PROVE  GoesOn(f[Len(f)], r[index + 1])
      <3>1. CASE index < l
        <4>1. r[index + 1] = ready[index + 1]
          BY <1>1, <1>11, <3>1
        <4> QED BY <1>18, <2>4, <3>1, <4>1 DEF Continues, l
      <3>2. CASE ~(index < l)
        <4>1. l = 0 /\ index = 0 /\ m > 0 /\ 1 \in 1 .. n
          BY <1>1, <1>4, <2>4, <3>2
        <4>2. r[index + 1] = 2 * sendFifo[1] - 1 /\ sendFifo[1] \in Nat
          BY <1>1, <1>8, <1>11, <4>1
        <4>3. f[Len(f)] < 2 * sendFifo[1] - 1
          BY <1>18, <2>1, <2>4, <4>1 DEF Before, n
        <4>4. r[index + 1] % 2 = 1
          BY <4>2, Parity
        <4> QED BY <4>2, <4>3, <4>4 DEF GoesOn
      <3> QED BY <3>1, <3>2
    <2> QED BY <1>10, <2>3, <2>4 DEF Continues
  <1>19. ASSUME NEW x \in Nat,
                \A i \in 1 .. n : x < 2 * sendFifo[i] - 1,
                \A j \in index + 1 .. l : x < ready[j],
                NEW j \in index + 1 .. l + 2 * m
         PROVE  x < r[j]
    <2>1. CASE j <= l
      BY <1>1, <1>11, <1>19, <2>1
    <2>2. CASE j > l
      <3>1. j - l \in 1 .. 2 * m /\ r[j] = h[j - l]
        BY <1>1, <1>11, <2>2
      <3>2. PICK k \in 1 .. m : h[j - l] \in {2 * sendFifo[k] - 1, 2 * sendFifo[k]}
        BY <1>7, <3>1
      <3>3. k \in 1 .. n /\ sendFifo[k] \in Nat /\ x < 2 * sendFifo[k] - 1
        BY <1>1, <1>19, <3>2
      <3> QED BY <3>1, <3>2, <3>3
    <2> QED BY <1>1, <2>1, <2>2
  <1>20. Filled = r /\ Unmoved = rest
    BY DEF Filled, Unmoved, r, rest, h, first, m, n
  <1>21. l + 2 * m \in Nat
    BY <1>1
  <1> QED
    BY <1>3, <1>10, <1>13, <1>14, <1>15, <1>16, <1>17, <1>18, <1>19, <1>20, <1>21 DEF n, l

(* What is left of a buffer after t of its halves is a buffer too.         *)
LEMMA RestOfBuffer ==
  ASSUME NEW r \in Seq(Nat), NEW t \in Nat, t <= Len(r), BufferWhole(r)
  PROVE  /\ SubSeq(r, t + 1, Len(r)) \in Seq(Nat)
         /\ Len(SubSeq(r, t + 1, Len(r))) = Len(r) - t
         /\ \A j \in 1 .. Len(r) - t : SubSeq(r, t + 1, Len(r))[j] = r[t + j]
         /\ BufferWhole(SubSeq(r, t + 1, Len(r)))
         /\ \A f \in Seq(Nat) : Continues(f, r, t) => Continues(f, SubSeq(r, t + 1, Len(r)), 0)
PROOF
  <1> DEFINE m == Len(r)
             s == SubSeq(r, t + 1, m)
  <1>1. m \in Nat /\ t <= m /\ \A j \in 1 .. m : r[j] \in Nat
    BY LenProperties, ElementOfSeq
  <1>2. s \in Seq(Nat) /\ Len(s) = m - t /\ \A j \in 1 .. m - t : s[j] = r[t + j]
    <2>1. \A j \in t + 1 .. m : r[j] \in Nat
      BY <1>1
    <2> HIDE DEF m
    <2>2. /\ s \in Seq(Nat) /\ Len(s) = IF t + 1 <= m THEN m - (t + 1) + 1 ELSE 0
          /\ \A j \in 1 .. m - (t + 1) + 1 : s[j] = r[(t + 1) + j - 1]
      <3>1. t + 1 \in Int /\ m \in Int
        BY <1>1
      <3> QED BY <2>1, <3>1, SubSeqProperties
    <2> HIDE DEF s
    <2>3. (IF t + 1 <= m THEN m - (t + 1) + 1 ELSE 0) = m - t
      BY <1>1
    <2>4. \A j \in 1 .. m - t : j \in 1 .. m - (t + 1) + 1 /\ (t + 1) + j - 1 = t + j
      BY <1>1
    <2>5. \A j \in 1 .. m - t : s[j] = r[t + j]
      BY <2>2, <2>4
    <2> QED BY <2>2, <2>3, <2>5
  <1>3. \A j \in 1 .. m : r[j] % 2 = (m - j) % 2 /\ (j > 1 => GoesOn(r[j - 1], r[j]))
    BY DEF BufferWhole
  <1> HIDE DEF s
  <1>4. BufferWhole(s)
    <2> SUFFICES ASSUME NEW j \in 1 .. m - t
                 PROVE  s[j] % 2 = ((m - t) - j) % 2 /\ (j > 1 => GoesOn(s[j - 1], s[j]))
      BY <1>2 DEF BufferWhole
    <2>1. t + j \in 1 .. m /\ m - (t + j) = (m - t) - j /\ s[j] = r[t + j]
      BY <1>1, <1>2
    <2>2. ASSUME j > 1
          PROVE  s[j - 1] = r[(t + j) - 1] /\ t + j > 1
      <3>1. j - 1 \in 1 .. m - t /\ t + (j - 1) = (t + j) - 1 /\ t + j > 1
        BY <1>1, <2>2
      <3>2. s[j - 1] = r[t + (j - 1)]
        BY <1>2, <3>1
      <3> QED BY <3>1, <3>2
    <2> QED BY <1>3, <2>1, <2>2
  <1>5. ASSUME NEW f \in Seq(Nat), Continues(f, r, t)
        PROVE  Continues(f, s, 0)
    <2>1. (m - t) - 0 = m - t
      BY <1>1
    <2>2. ASSUME 0 < m - t
          PROVE  s[0 + 1] = r[t + 1] /\ t < m
      <3>1. 1 \in 1 .. m - t /\ 0 + 1 = 1 /\ t < m
        BY <1>1, <2>2
      <3>2. s[1] = r[t + 1]
        BY <1>2, <3>1
      <3> QED BY <3>1, <3>2
    <2> QED BY <1>2, <1>5, <2>1, <2>2 DEF Continues
  <1> QED BY <1>2, <1>4, <1>5 DEF s

(* After a send of n halves r is the buffer, of which t are sent: a part of *)
(* what was filled, which goes on where what was sent ends.                *)
LeftOver(r, t, n) ==
  /\ ready' = r /\ index' = t /\ Len(r) \in Nat
  /\ BufferWhole(r)
  /\ t = 0 \/ t < Len(r)
  /\ \A j \in 1 .. Len(r) : \E i \in 1 .. Len(Filled) :
       r[j] = Filled[i] /\ (j > t => i > index + n)
  /\ \A f \in Seq(Nat) : Continues(f, Filled, index + n) => Continues(f, r, t)

(* What a partial send leaves in the buffer.                               *)
LEMMA BufferAfterSend ==
  ASSUME TypeOK, QueueOK, BufferOK, NEW n \in Nat, FlushSends(n)
  PROVE  \E r \in Seq(Nat), t \in Nat : LeftOver(r, t, n)
PROOF
  <1> DEFINE m == Len(Filled)
             k == index + n
             rest == SubSeq(Filled, k + 1, m)
  <1>1. Filled \in Seq(Nat) /\ m \in Nat /\ BufferWhole(Filled)
    BY FillingKeepsOrder
  <1>2. k \in Nat /\ k <= m
    BY DEF FlushSends, TypeOK, SendingOK
  <1>3. \/ k = m /\ ready' = << >> /\ index' = 0
        \/ k < m /\ ready' = Filled /\ index' = k
        \/ k < m /\ ready' = rest /\ index' = 0
    BY DEF FlushSends
  <1>4. CASE k = m /\ ready' = << >> /\ index' = 0
    <2>1. << >> \in Seq(Nat) /\ Len(<< >>) = 0
      BY EmptySeq
    <2>2. BufferWhole(<< >>)
      BY <2>1 DEF BufferWhole
    <2>3. ASSUME NEW f \in Seq(Nat), Continues(f, Filled, k)
          PROVE  Continues(f, << >>, 0)
      <3>1. Len(f) \in Nat
        BY LenProperties
      <3>2. (Len(f) + (m - k)) % 2 = 0
        BY <2>3 DEF Continues
      <3>3. (Len(f) + (0 - 0)) % 2 = 0
        BY <1>1, <1>2, <1>4, <3>1, <3>2
      <3> QED BY <2>1, <3>3 DEF Continues
    <2>4. LeftOver(<< >>, 0, n)
      BY <1>4, <2>1, <2>2, <2>3 DEF LeftOver
    <2> QED BY <2>1, <2>4
  <1>5. CASE k < m /\ ready' = Filled /\ index' = k
    <2>1. \A j \in 1 .. m : j > k => j > index + n
      OBVIOUS
    <2>2. LeftOver(Filled, k, n)
      BY <1>1, <1>2, <1>5, <2>1 DEF LeftOver
    <2> QED BY <1>1, <1>2, <2>2
  <1>6. CASE k < m /\ ready' = rest /\ index' = 0
    <2>1. /\ rest \in Seq(Nat) /\ Len(rest) = m - k
          /\ \A j \in 1 .. m - k : rest[j] = Filled[k + j]
          /\ BufferWhole(rest)
          /\ \A f \in Seq(Nat) : Continues(f, Filled, k) => Continues(f, rest, 0)
      BY <1>1, <1>2, RestOfBuffer
    <2> HIDE DEF rest, m, k
    <2>2. \A j \in 1 .. m - k : k + j \in 1 .. m /\ k + j > k
      BY <1>1, <1>2
    <2>3. \A j \in 1 .. Len(rest) : \E i \in 1 .. m : rest[j] = Filled[i] /\ (j > 0 => i > k)
      BY <2>1, <2>2
    <2>4. m - k \in Nat /\ 0 \in Nat
      BY <1>1, <1>2, <1>6
    <2>5. /\ ready' = rest /\ index' = 0 /\ Len(rest) \in Nat
          /\ (0 = 0 \/ 0 < Len(rest))
          /\ rest \in Seq(Nat) /\ BufferWhole(rest)
          /\ \A f \in Seq(Nat) : Continues(f, Filled, k) => Continues(f, rest, 0)
      BY <1>6, <2>1, <2>4
    <2>6. LeftOver(rest, 0, n)
      BY <2>3, <2>5 DEF LeftOver, m, k
    <2> QED BY <2>4, <2>5, <2>6
  <1> QED BY <1>3, <1>4, <1>5, <1>6

-----------------------------------------------------------------------------
(* Only Connect makes another connection the current one.                  *)
LEMMA ConnFrame ==
  ASSUME [Next]_vars, ~Connect
  PROVE  UNCHANGED conn
PROOF
  <1>1. ASSUME NEW r \in Connection,
               \/ PeerLeaves(r) \/ RecvPrefix(r) \/ RecvPayload(r)
               \/ RecvBroken(r) \/ RecvCancelled(r)
        PROVE  UNCHANGED conn
    BY <1>1 DEF link, PeerLeaves, RecvPrefix, RecvPayload, RecvBroken, RecvCancelled
  <1>2. CASE \/ Advertised \/ DisconnectionEvent \/ FlushFails
             \/ Disconnect \/ DisconnectEnds \/ Destroy
    BY <1>2 DEF link, Advertised, DisconnectionEvent, FlushFails, Disconnect,
                DisconnectEnds, Destroy
  <1> QED BY <1>1, <1>2, Frame DEF link

(* A new connection starts with an empty buffer and an empty flow.         *)
LEMMA ConnectStream ==
  ASSUME TypeOK, StreamInv, Connect
  PROVE  StreamInv'
PROOF
  <1>1. /\ conn \in Nat /\ conn' = conn + 1 /\ ready' = << >> /\ index' = 0
        /\ UNCHANGED << sendFifo, flow, pushed, failed >>
        /\ conn + 1 \in Connection
    BY LoadBounds, ClientAssumption DEF Connect, TypeOK, LinkOK, Connection
  <1>2. Len(<< >>) = 0
    BY EmptySeq
  <1>3. QueueOK' /\ BufferOK'
    BY <1>1, <1>2 DEF StreamInv, QueueOK, BufferOK, BufferWhole, Before
  <1>4. FlowsOK'
    <2>1. ASSUME NEW c \in Connection
          PROVE  \A k \in 1 .. Len(flow[c]) : c <= conn + 1 /\ flow[c][k] <= 2 * pushed
      BY <1>1 DEF StreamInv, FlowsOK, Connection
    <2>2. \A c \in Connection : FlowWhole(flow[c]) /\ Before(flow[c], sendFifo)
      BY DEF StreamInv, FlowsOK
    <2>3. \A c, d \in Connection : c < d =>
            \A i \in 1 .. Len(flow[c]) : \A j \in 1 .. Len(flow[d]) : flow[c][i] < flow[d][j]
      BY DEF StreamInv, FlowsOK
    <2>4. 0 + 1 .. Len(<< >>) = {}
      BY <1>2
    <2> QED BY <1>1, <2>1, <2>2, <2>3, <2>4 DEF FlowsOK
  <1>5. JoinOK'
    <2>1. \A c \in failed : c <= conn + 1
      BY <1>1 DEF StreamInv, JoinOK, TypeOK, SendingOK, Connection
    <2>2. Len(flow[conn + 1]) = 0
      <3>1. Len(flow[conn + 1]) \in Nat
        BY <1>1, LenProperties DEF TypeOK, SendingOK
      <3>2. \A k \in 1 .. Len(flow[conn + 1]) : conn + 1 <= conn
        BY <1>1 DEF StreamInv, FlowsOK
      <3> QED BY <1>1, <3>1, <3>2
    <2>3. Continues(flow[conn + 1], << >>, 0)
      BY <1>2, <2>2 DEF Continues
    <2> QED BY <1>1, <2>1, <2>3 DEF JoinOK
  <1> QED BY <1>3, <1>4, <1>5 DEF StreamInv

(* A new message comes after all the others.                               *)
LEMMA SendStream ==
  ASSUME TypeOK, StreamInv, Send
  PROVE  StreamInv'
PROOF
  <1> DEFINE n == Len(sendFifo)
             q == Append(sendFifo, pushed + 1)
  <1>1. /\ sendFifo' = q /\ pushed' = pushed + 1
        /\ UNCHANGED << ready, index, flow, failed, conn >>
        /\ pushed \in Nat
    BY LoadBounds DEF Send, TypeOK, SendingOK, link
  <1>2. /\ n \in Nat /\ Len(q) = n + 1 /\ q[n + 1] = pushed + 1
        /\ \A i \in 1 .. n : q[i] = sendFifo[i] /\ sendFifo[i] \in Nat
    <2>1. sendFifo \in Seq(Nat)
      <3>1. 1 .. load.sent \subseteq Nat
        BY LoadBounds
      <3> QED BY <3>1, SeqMonotonic DEF TypeOK, SendingOK
    <2> QED BY <1>1, <2>1, AppendProperties, LenProperties, ElementOfSeq
  <1>3. /\ \A i \in 1 .. n : sendFifo[i] <= pushed
        /\ \A i \in 1 .. n : \A j \in 1 .. i - 1 : sendFifo[j] < sendFifo[i]
    BY DEF StreamInv, QueueOK, Rising
  <1> HIDE DEF n, q
  <1>4. Rising(q) /\ \A i \in 1 .. Len(q) : q[i] <= pushed + 1
    <2>1. ASSUME NEW i \in 1 .. n + 1
          PROVE  q[i] <= pushed + 1 /\ \A j \in 1 .. i - 1 : q[j] < q[i]
      <3>1. CASE i = n + 1
        <4>1. i - 1 = n
          BY <1>2, <3>1
        <4> QED BY <1>1, <1>2, <1>3, <3>1, <4>1
      <3>2. CASE i \in 1 .. n
        <4>1. \A j \in 1 .. i - 1 : j \in 1 .. n
          BY <1>2, <3>2
        <4> QED BY <1>1, <1>2, <1>3, <3>2, <4>1
      <3> QED BY <1>2, <3>1, <3>2
    <2> QED BY <1>2, <2>1 DEF Rising
  <1>5. ASSUME NEW s \in Seq(Nat), Before(s, sendFifo), \A k \in 1 .. Len(s) : s[k] <= 2 * pushed
        PROVE  Before(s, q) /\ \A k \in 1 .. Len(s) : s[k] <= 2 * (pushed + 1)
    <2>1. ASSUME NEW k \in 1 .. Len(s), NEW i \in 1 .. n + 1
          PROVE  s[k] < 2 * q[i] - 1
      <3>1. s[k] \in Nat /\ s[k] <= 2 * pushed
        BY <1>5, ElementOfSeq
      <3>2. CASE i = n + 1
        BY <1>1, <1>2, <3>1, <3>2
      <3>3. CASE i \in 1 .. n
        BY <1>2, <1>5, <3>3 DEF Before, n
      <3> QED BY <1>2, <3>2, <3>3
    <2>2. \A k \in 1 .. Len(s) : s[k] <= 2 * (pushed + 1)
      BY <1>1, <1>5, ElementOfSeq
    <2> QED BY <1>2, <2>1, <2>2 DEF Before
  <1>6. ready \in Seq(Nat) /\ \A c \in Connection : flow[c] \in Seq(Nat)
    <2>1. 1 .. 2 * load.sent \subseteq Nat
      BY LoadBounds
    <2> QED BY <2>1, SeqMonotonic DEF TypeOK, SendingOK
  <1>7. QueueOK'
    BY <1>1, <1>4 DEF QueueOK
  <1>8. BufferOK'
    BY <1>1, <1>5, <1>6 DEF StreamInv, BufferOK
  <1>9. \A c \in Connection :
          Before(flow[c], q) /\ \A k \in 1 .. Len(flow[c]) : flow[c][k] <= 2 * (pushed + 1)
    BY <1>5, <1>6 DEF StreamInv, FlowsOK
  <1>10. FlowsOK'
    BY <1>1, <1>9 DEF StreamInv, FlowsOK
  <1>11. JoinOK'
    BY <1>1 DEF StreamInv, JoinOK
  <1> QED BY <1>7, <1>8, <1>10, <1>11 DEF StreamInv

(* The system takes the next halves of the current connection.             *)
LEMMA FlushStream ==
  ASSUME TypeOK, ThreadsOK, StreamInv, NEW n \in Nat, FlushSends(n)
  PROVE  StreamInv'
PROOF
  <1> DEFINE f == flow[conn]
             m == Len(Filled)
             g == f \o SubSeq(Filled, index + 1, index + n)
  <1>1. /\ conn \in Connection /\ conn # 0 /\ conn \notin failed /\ conn \in Nat
        /\ sendFifo' = Unmoved /\ UNCHANGED << pushed, failed, conn >>
        /\ flow' = [flow EXCEPT ![conn] = g]
        /\ index + n <= m /\ index \in Nat /\ pushed \in Nat
    BY LoadBounds DEF FlushSends, TypeOK, LinkOK, SendingOK, ThreadsOK, link, Connection
  <1>2. flow \in [Connection -> Seq(Nat)]
    <2>1. 1 .. 2 * load.sent \subseteq Nat
      BY LoadBounds
    <2> QED BY <2>1, SeqMonotonic DEF TypeOK, SendingOK
  <1>3. /\ Filled \in Seq(Nat) /\ m \in Nat /\ Unmoved \in Seq(Nat)
        /\ BufferWhole(Filled)
        /\ Before(Filled, Unmoved)
        /\ \A j \in 1 .. m : Filled[j] <= 2 * pushed
        /\ Rising(Unmoved) /\ \A i \in 1 .. Len(Unmoved) : Unmoved[i] <= pushed
        /\ \A s \in Seq(Nat) : Before(s, sendFifo) =>
             Before(s, Unmoved) /\ (Continues(s, ready, index) => Continues(s, Filled, index))
    BY FillingKeepsOrder DEF StreamInv
  <1>4. ASSUME NEW x \in Nat,
               \A i \in 1 .. Len(sendFifo) : x < 2 * sendFifo[i] - 1,
               \A j \in index + 1 .. Len(ready) : x < ready[j]
        PROVE  \A j \in index + 1 .. m : x < Filled[j]
    BY <1>4, FillingKeepsOrder DEF StreamInv
  <1>5. /\ \A c \in Connection : FlowWhole(flow[c]) /\ Before(flow[c], sendFifo)
        /\ \A c \in Connection : \A k \in 1 .. Len(flow[c]) :
             c <= conn /\ flow[c][k] <= 2 * pushed /\ flow[c][k] \in Nat
        /\ \A c \in Connection \ {conn} : \A k \in 1 .. Len(flow[c]) :
             \A j \in index + 1 .. Len(ready) : flow[c][k] < ready[j]
        /\ \A c, d \in Connection : c < d =>
             \A i \in 1 .. Len(flow[c]) : \A j \in 1 .. Len(flow[d]) : flow[c][i] < flow[d][j]
    <2>1. \A c \in Connection : \A k \in 1 .. Len(flow[c]) : flow[c][k] \in Nat
      BY <1>2, ElementOfSeq
    <2> QED BY <2>1 DEF StreamInv, FlowsOK
  <1>6. ASSUME NEW c \in Connection \ {conn}, NEW i \in 1 .. Len(flow[c]),
               NEW j \in index + 1 .. m
        PROVE  flow[c][i] < Filled[j]
    <2>1. \A a \in 1 .. Len(sendFifo) : flow[c][i] < 2 * sendFifo[a] - 1
      BY <1>5 DEF Before
    <2>2. \A b \in index + 1 .. Len(ready) : flow[c][i] < ready[b]
      BY <1>5
    <2> QED BY <1>4, <1>5, <2>1, <2>2
  <1>7. f \in Seq(Nat) /\ FlowWhole(f) /\ Continues(f, Filled, index)
    <2>1. f \in Seq(Nat) /\ Before(f, sendFifo) /\ FlowWhole(f)
      BY <1>1, <1>2, <1>5
    <2>2. Continues(f, ready, index)
      BY <1>1 DEF StreamInv, JoinOK
    <2> QED BY <1>3, <2>1, <2>2
  <1> HIDE DEF m
  <1>8. /\ g \in Seq(Nat) /\ Len(f) \in Nat /\ Len(g) = Len(f) + n
        /\ \A i \in 1 .. Len(f) + n :
             g[i] = IF i <= Len(f) THEN f[i] ELSE Filled[index + (i - Len(f))]
        /\ FlowWhole(g)
        /\ Continues(g, Filled, index + n)
    <2>1. index \in Nat /\ index + n <= Len(Filled) /\ f \in Seq(Nat) /\ Filled \in Seq(Nat)
      BY <1>1, <1>3, <1>7 DEF m
    <2>2. Len(f) \in Nat
      BY <2>1, LenProperties
    <2>3. n \in Nat /\ FlowWhole(f) /\ BufferWhole(Filled) /\ Continues(f, Filled, index)
      BY <1>3, <1>7
    <2> HIDE DEF f
    <2> QED BY <2>1, <2>2, <2>3, FlowGoesOn
  <1> HIDE DEF g
  <1>9. ASSUME NEW i \in 1 .. Len(g)
        PROVE  \/ i \in 1 .. Len(f) /\ g[i] = f[i]
               \/ \E j \in index + 1 .. m : j \in 1 .. m /\ g[i] = Filled[j]
    <2>1. CASE i <= Len(f)
      BY <1>8, <2>1
    <2>2. CASE ~(i <= Len(f))
      <3>1. /\ index + (i - Len(f)) \in index + 1 .. m
            /\ index + (i - Len(f)) \in 1 .. m
        <4>1. \A l \in Nat : i \in 1 .. l + n /\ i > l =>
                index + (i - l) \in index + 1 .. m /\ index + (i - l) \in 1 .. m
          BY <1>1, <1>3
        <4>2. Len(f) \in Nat /\ i \in 1 .. Len(f) + n
          BY <1>8
        <4>3. i > Len(f)
          BY <1>8, <2>2
        <4> QED BY <4>1, <4>2, <4>3
      <3> QED BY <1>8, <2>2, <3>1
    <2> QED BY <2>1, <2>2
  <1>10. PICK r \in Seq(Nat), t \in Nat : LeftOver(r, t, n)
    BY BufferAfterSend DEF StreamInv
  <1>11. /\ ready' = r /\ index' = t /\ Len(r) \in Nat
         /\ BufferWhole(r)
         /\ t = 0 \/ t < Len(r)
         /\ \A j \in 1 .. Len(r) : \E i \in 1 .. m :
              r[j] = Filled[i] /\ (j > t => i > index + n)
         /\ \A s \in Seq(Nat) : Continues(s, Filled, index + n) => Continues(s, r, t)
    BY <1>10 DEF LeftOver, m
  <1>12. QueueOK'
    BY <1>1, <1>3 DEF QueueOK
  <1>13. BufferOK'
    <2>1. \A j \in 1 .. Len(r) : r[j] <= 2 * pushed
      BY <1>3, <1>11
    <2>2. Before(r, Unmoved)
      BY <1>3, <1>11 DEF Before, m
    <2> QED BY <1>1, <1>11, <2>1, <2>2 DEF BufferOK
  <1>14. /\ Before(g, Unmoved)
         /\ \A k \in 1 .. Len(g) : g[k] <= 2 * pushed
    <2>1. Before(f, Unmoved) /\ \A k \in 1 .. Len(f) : f[k] <= 2 * pushed
      BY <1>1, <1>3, <1>5, <1>7
    <2>2. \A j \in 1 .. m : \A i \in 1 .. Len(Unmoved) : Filled[j] < 2 * Unmoved[i] - 1
      BY <1>3 DEF Before, m
    <2> QED BY <1>3, <1>9, <2>1, <2>2 DEF Before
  <1>15. flow'[conn] = g /\ \A c \in Connection \ {conn} : flow'[c] = flow[c]
    BY <1>1, <1>2
  <1>16. ASSUME NEW c \in Connection
         PROVE  /\ FlowWhole(flow'[c])
                /\ Before(flow'[c], Unmoved)
                /\ \A k \in 1 .. Len(flow'[c]) : c <= conn /\ flow'[c][k] <= 2 * pushed
                /\ c # conn => \A k \in 1 .. Len(flow'[c]) : \A j \in t + 1 .. Len(r) :
                                 flow'[c][k] < r[j]
    <2>1. CASE c = conn
      BY <1>1, <1>8, <1>14, <1>15, <2>1
    <2>2. CASE c # conn
      <3>1. FlowWhole(flow[c]) /\ Before(flow[c], Unmoved) /\ flow'[c] = flow[c]
        BY <1>2, <1>3, <1>5, <1>15, <2>2
      <3>2. ASSUME NEW k \in 1 .. Len(flow[c]), NEW j \in t + 1 .. Len(r)
            PROVE  flow[c][k] < r[j]
        <4>1. j \in 1 .. Len(r) /\ j > t
          BY <1>11
        <4>2. PICK i \in 1 .. m : r[j] = Filled[i] /\ i > index + n
          BY <1>11, <4>1
        <4>3. i \in index + 1 .. m
          BY <1>1, <1>3, <4>2
        <4> QED BY <1>6, <2>2, <4>2, <4>3
      <3> QED BY <1>5, <3>1, <3>2
    <2> QED BY <2>1, <2>2
  <1>17. ASSUME NEW c \in Connection, NEW d \in Connection, c < d,
                NEW i \in 1 .. Len(flow'[c]), NEW j \in 1 .. Len(flow'[d])
         PROVE  flow'[c][i] < flow'[d][j]
    <2>1. CASE c # conn /\ d # conn
      BY <1>5, <1>15, <1>17, <2>1
    <2>2. CASE c = conn
      <3>1. d # conn /\ flow'[d] = flow[d] /\ d <= conn
        BY <1>5, <1>15, <1>17, <2>2 DEF Connection
      <3> QED BY <1>1, <1>17, <2>2, <3>1 DEF Connection
    <2>3. CASE d = conn
      <3>1. c # conn /\ flow'[c] = flow[c] /\ flow'[d] = g /\ i \in 1 .. Len(flow[c])
        BY <1>15, <1>17, <2>3 DEF Connection
      <3>2. CASE j \in 1 .. Len(f) /\ g[j] = f[j]
        BY <1>5, <1>17, <2>3, <3>1, <3>2
      <3>3. CASE \E b \in index + 1 .. m : g[j] = Filled[b]
        BY <1>6, <3>1, <3>3
      <3> QED BY <1>9, <3>1, <3>2, <3>3
    <2> QED BY <2>1, <2>2, <2>3
  <1>18. FlowsOK'
    BY <1>1, <1>11, <1>16, <1>17 DEF FlowsOK
  <1>19. JoinOK'
    BY <1>1, <1>8, <1>11, <1>15 DEF StreamInv, JoinOK
  <1> QED BY <1>12, <1>13, <1>18, <1>19 DEF StreamInv

(* Sending fails: what was in the buffer is lost, and nothing more is sent *)
(* on this connection.                                                     *)
LEMMA FailStream ==
  ASSUME TypeOK, ThreadsOK, StreamInv, FlushFails
  PROVE  StreamInv'
PROOF
  <1>1. /\ sendFifo' = Unmoved /\ ready' = << >> /\ index' = 0
        /\ failed' = failed \union {conn}
        /\ UNCHANGED << flow, pushed, conn >>
    BY DEF FlushFails
  <1>2. flow \in [Connection -> Seq(Nat)] /\ conn \in Nat
    <2>1. 1 .. 2 * load.sent \subseteq Nat
      BY LoadBounds
    <2>2. conn \in Nat
      BY DEF TypeOK, LinkOK, Connection
    <2> QED BY <2>1, <2>2, SeqMonotonic DEF TypeOK, SendingOK
  <1>3. /\ Rising(Unmoved) /\ \A i \in 1 .. Len(Unmoved) : Unmoved[i] <= pushed
        /\ \A s \in Seq(Nat) : Before(s, sendFifo) => Before(s, Unmoved)
    BY FillingKeepsOrder DEF StreamInv
  <1>4. Len(<< >>) = 0
    BY EmptySeq
  <1>5. QueueOK'
    BY <1>1, <1>3 DEF QueueOK
  <1>6. BufferOK'
    BY <1>1, <1>4 DEF BufferOK, BufferWhole, Before
  <1>7. FlowsOK'
    <2>1. \A c \in Connection : Before(flow[c], Unmoved)
      BY <1>2, <1>3 DEF StreamInv, FlowsOK
    <2>2. 0 + 1 .. Len(<< >>) = {}
      BY <1>4
    <2> QED BY <1>1, <2>1, <2>2 DEF StreamInv, FlowsOK
  <1>8. JoinOK'
    BY <1>1, <1>2 DEF StreamInv, JoinOK
  <1> QED BY <1>5, <1>6, <1>7, <1>8 DEF StreamInv

(* The order of what is sent survives every step.                          *)
LEMMA StreamStep ==
  ASSUME IInv, StreamInv, [Next]_vars
  PROVE  StreamInv'
PROOF
  <1>1. CASE Connect
    BY <1>1, ConnectStream DEF IInv
  <1>2. CASE Send
    BY <1>2, SendStream DEF IInv
  <1>3. CASE \E n \in Nat : FlushSends(n)
    BY <1>3, FlushStream DEF IInv
  <1>4. CASE FlushFails
    BY <1>4, FailStream DEF IInv
  <1>5. CASE UNCHANGED << buffer, flow, pushed, failed >> /\ ~Connect
    <2>1. UNCHANGED << sendFifo, ready, index, flow, pushed, failed, conn >>
      BY <1>5, ConnFrame DEF buffer
    <2>2. QueueOK' /\ BufferOK'
      BY <2>1 DEF StreamInv, QueueOK, BufferOK
    <2>3. FlowsOK' /\ JoinOK'
      BY <2>1 DEF StreamInv, FlowsOK, JoinOK
    <2> QED BY <2>2, <2>3 DEF StreamInv
  <1> QED BY <1>1, <1>2, <1>3, <1>4, <1>5, Frame

(* What the system takes for a connection begins with a whole message and  *)
(* goes on message by message, and nothing is sent twice or out of order,  *)
(* whatever sends were partial or failed and connections were made again.  *)
THEOREM WholeStream == Spec => []StreamIsWhole
PROOF
  <1>1. Init => StreamInv
    <2> SUFFICES ASSUME Init PROVE StreamInv
      OBVIOUS
    <2>1. /\ sendFifo = << >> /\ ready = << >> /\ index = 0 /\ conn = 0 /\ failed = {}
          /\ flow = [c \in Connection |-> << >>]
      BY DEF Init
    <2>2. Len(<< >>) = 0
      BY EmptySeq
    <2>3. QueueOK /\ BufferOK
      BY <2>1, <2>2 DEF QueueOK, Rising, BufferOK, BufferWhole, Before
    <2>4. FlowsOK
      BY <2>1, <2>2 DEF FlowsOK, FlowWhole, Before
    <2> QED BY <2>1, <2>3, <2>4 DEF StreamInv, JoinOK
  <1>2. IInv /\ StreamInv /\ [Next]_vars => StreamInv'
    BY StreamStep
  <1>3. StreamInv => StreamIsWhole
    BY DEF StreamInv, FlowsOK, FlowWhole, StreamIsWhole
  <1> QED BY Safety, <1>1, <1>2, <1>3, PTL DEF Spec
=============================================================================
