-------------------------- MODULE BufServerProofs ---------------------------
(***************************************************************************)
(* Theorems about BufServer, for every number of addresses, threads,       *)
(* connections and messages, both strategies and every limit of them and   *)
(* every capacity of the pipe.                                             *)
(***************************************************************************)
EXTENDS BufServer, FiniteSetTheorems, SequenceTheorems, WellFoundedInduction, TLAPS

-----------------------------------------------------------------------------
(* The inductive invariant.                                                *)

(* The lives of the threads, and what the mutexes that are kept across     *)
(* steps exclude.                                                          *)
ThreadsInv ==
  /\ \A t \in Thread : recv[t].pc = "off" <=> t > pool
  /\ \A t \in Thread : recv[t].pc \in {"serve", "pushed"} /\ recv[t].woken => wake[t] > 0
  /\ listen.pc \in {"advertised", "dispatch", "count", "wake"} => listen.sock \in Addr
  /\ listen.pc \in {"count", "wake"} => main.pc \notin {"sweep", "sockets", "advertised"}
  /\ listen.pc = "ended" => main.pc \in {"closing", "joining", "destroyed"}
  /\ main.pc \in {"joining", "destroyed"} => listen.pc = "ended"
  /\ main.pc = "destroyed" => \A t \in Thread : recv[t].pc \in {"off", "ended"}
  /\ main.pc \in {"sweep", "sockets", "advertised"} => main.thread <= pool
  /\ main.pc \in {"sockets", "advertised", "wakeup"} => main.thread \in Thread

(* The event that the main thread handles.                                 *)
EventInv ==
  /\ main.pc \in {"peeked", "receive", "callback", "wakeup", "extract"} =>
       queue # << >> /\ main.event = Head(queue)
  /\ main.pc \in {"receive", "message"} => main.event.type = "User"
  /\ main.pc \in {"callback", "wakeup", "extract", "advertised"} => main.event.type # "User"
  /\ main.pc \in {"message", "advertised"} => main.event \in Event
  /\ main.pc = "advertised" => main.event.type = "Disconnection"

(* Who may use the socket object at an address.                            *)
Fresh(a) == listen.pc \in {"advertised", "dispatch", "count"} /\ listen.sock = a
Works(t) == recv[t].pc \in {"select", "serve", "pushed"}

Listed == \A t \in Thread : \A a \in connections[t] : sock[a].conn # 0 /\ sock[a].owner = t
Held ==
  \A a \in Addr : sock[a].conn # 0 =>
    IF Fresh(a) THEN sock[a].owner = 0
                ELSE sock[a].owner \in Thread /\ a \in connections[sock[a].owner]
Accepted == \A a \in Addr : Fresh(a) => sock[a].conn # 0
Dealt ==
  listen.pc = "wake" => sock[listen.sock].owner \in 1 .. pool + 1 /\ sock[listen.sock].conn # 0
Unused ==
  \A t \in Thread : t > pool /\ connections[t] # {} =>
    listen.pc = "wake" /\ t = sock[listen.sock].owner

RemoveListed == \A t \in Thread : removeSet[t] \subseteq connections[t]
WorkListed ==
  \A t \in Thread : Works(t) => recv[t].copy \subseteq connections[t]
                                /\ recv[t].ready \subseteq recv[t].copy
SweepListed ==
  /\ main.pc \in {"sockets", "advertised"} => main.socks \subseteq connections[main.thread]
  /\ main.pc = "advertised" => main.event.sock \in connections[main.thread]

OwnedInv == Listed /\ Held /\ Accepted /\ Dealt /\ Unused

OwnerInv == main.pc # "destroyed" => OwnedInv /\ RemoveListed /\ WorkListed /\ SweepListed

(* A connection number is that of one object, and is new when accepted.    *)
UniqueInv ==
  /\ \A a, b \in Addr : sock[a].conn # 0 /\ sock[a].conn = sock[b].conn => a = b
  /\ \A a \in Addr : sock[a].conn # 0 => peer[sock[a].conn] # "none"
  /\ \A i \in 1 .. Len(queue) : peer[queue[i].conn] # "none"
  /\ \A c \in Connection : log[c] # << >> => peer[c] # "none"

Pends(c, type) == \E i \in 1 .. Len(Pending) : Says(Pending[i], c, type)
Before(c, type) == Told(c, type) \/ Pends(c, type)

Alive(e) == e.type # "User" => sock[e.sock].conn = e.conn

(* What was said of a connection, and the flags and sets that follow from  *)
(* it.                                                                     *)
ProtocolInv ==
  /\ CallbackProtocol
  /\ \A c \in Connection : peer[c] # "none" => Before(c, "Connection")
  /\ main.pc = "callback" => Told(main.event.conn, main.event.type)

AliveInv ==
  main.pc # "destroyed" =>
    /\ \A i \in 1 .. Len(Pending) : Alive(Pending[i])
    /\ main.pc = "callback" => Alive(main.event)

KnowInv ==
  main.pc # "destroyed" =>
    /\ \A a \in Addr : sock[a].conn # 0 /\ Before(sock[a].conn, "Disconnection") =>
         /\ sock[a].know => main.pc = "advertised" /\ main.event.sock = a
         /\ ~Fresh(a)
    /\ listen.pc \in {"dispatch", "count", "wake"} => sock[listen.sock].know

RemoveInv ==
  main.pc # "destroyed" =>
    \A t \in Thread : \A a \in removeSet[t] :
      /\ Told(sock[a].conn, "Disconnection")
      /\ main.pc = "callback" => main.event.conn # sock[a].conn

(* Only the end of a connection is told while its callback runs.           *)
ClientsInv ==
  /\ ClientsMatchCallbacks
  /\ main.pc = "callback" /\ main.event.type = "Connection" =>
       ~Told(main.event.conn, "Disconnection")

(* The counts that dispatchNewSocket has taken so far, and the limits of   *)
(* the strategy (PoolLimits).                                              *)
CountsInv ==
  /\ listen.pc # "count" => listen.counts = << >>
  /\ Len(listen.counts) <= pool
  /\ \A t \in 1 .. Len(listen.counts) : Load(t) <= Count(t)

LimitsInv ==
  IF strategy = "FillThreads"
    THEN \A t \in Thread : Load(t) <= MaxSocketsPerThread
    ELSE pool <= MaxThreads

PoolInv ==
  /\ \A t \in Thread : IsFiniteSet(connections[t])
  /\ CountsInv
  /\ LimitsInv
  /\ strategy # "FillThreads" /\ listen.pc = "wake" => sock[listen.sock].owner <= MaxThreads

IInv ==
  /\ TypeOK
  /\ ThreadsInv
  /\ EventInv
  /\ PipeAccounting
  /\ OwnerInv
  /\ UniqueInv
  /\ ProtocolInv
  /\ AliveInv
  /\ KnowInv
  /\ RemoveInv
  /\ ClientsInv
  /\ PoolInv

-----------------------------------------------------------------------------
(* A set of numbers that is not empty has a least one.                     *)
LEMMA LeastExists ==
  ASSUME NEW S \in SUBSET Nat, S # {}
  PROVE  \E m \in S : \A k \in S : m <= k
PROOF
  <1> DEFINE R == {ss \in Nat \X Nat : ss[1] < ss[2]}
  <1>1. IsWellFoundedOn(R, Nat)
    BY NatLessThanWellFounded DEF OpToRel
  <1>2. \E m \in S : \A k \in S : <<k, m>> \notin R
    BY <1>1, WFMin
  <1>3. \A m, k \in S : <<k, m>> \notin R => m <= k
    OBVIOUS
  <1> QED BY <1>2, <1>3

(* dispatchNewSocket deals a socket to a thread of the pool or to a new    *)
(* one, within the limit of the strategy: a thread whose count was below   *)
(* the limit has no more connections by now.                               *)
LEMMA TargetInRange ==
  ASSUME TypeOK, PoolInv, Counted
  PROVE  /\ Target \in 1 .. pool + 1
         /\ strategy = "FillThreads" => Target = pool + 1 \/ Load(Target) < MaxSocketsPerThread
         /\ strategy # "FillThreads" => Target <= MaxThreads
PROOF
  <1>1. pool \in Nat /\ 1 .. pool \subseteq Thread /\ MaxThreads \in Nat \ {0}
        /\ MaxSocketsPerThread \in Nat
    BY ServerAssumption DEF TypeOK, TasksOK, Thread
  <1>2. /\ Len(listen.counts) \in Nat /\ Len(listen.counts) <= pool
        /\ \A t \in 1 .. Len(listen.counts) : Count(t) \in Nat
    BY DEF TypeOK, ListenState, PoolInv, CountsInv, Count
  <1>3. ASSUME pool # 0, Len(listen.counts) = pool
        PROVE  LeastLoaded \in 1 .. pool
    <2> DEFINE L == {Count(t) : t \in 1 .. pool}
    <2>1. PICK l \in L : \A k \in L : l <= k
      <3>1. L \in SUBSET Nat /\ L # {}
        BY <1>1, <1>2, <1>3
      <3> QED BY <3>1, LeastExists
    <2> DEFINE T == {t \in 1 .. pool : Count(t) = l}
    <2>2. PICK t \in T : \A u \in T : t <= u
      <3>1. T \in SUBSET Nat /\ T # {}
        OBVIOUS
      <3> QED BY <3>1, LeastExists
    <2>3. \A u \in 1 .. pool : Count(t) < Count(u) \/ (Count(t) = Count(u) /\ t <= u)
      <3> SUFFICES ASSUME NEW u \in 1 .. pool
                   PROVE  Count(t) < Count(u) \/ (Count(t) = Count(u) /\ t <= u)
        OBVIOUS
      <3>1. Count(u) \in L /\ Count(t) = l
        OBVIOUS
      <3>2. l <= Count(u) /\ l \in Nat /\ Count(u) \in Nat
        BY <1>2, <1>3, <2>1, <3>1
      <3>3. Count(u) = l => t <= u
        BY <2>2
      <3> QED BY <3>1, <3>2, <3>3
    <2>4. \E v \in 1 .. pool :
            \A u \in 1 .. pool : Count(v) < Count(u) \/ (Count(v) = Count(u) /\ v <= u)
      BY <2>3
    <2> QED BY <2>4 DEF LeastLoaded
  <1>4. CASE strategy = "FillThreads"
    <2>1. Target = IF HasRoom THEN Len(listen.counts) ELSE pool + 1
      BY <1>4 DEF Target, Fill
    <2>2. ASSUME HasRoom
          PROVE  /\ Len(listen.counts) \in 1 .. pool
                 /\ Load(Len(listen.counts)) < MaxSocketsPerThread
      <3> DEFINE k == Len(listen.counts)
      <3>1. k \in 1 .. k /\ k \in 1 .. pool
        BY <1>1, <1>2, <2>2, EmptySeq DEF HasRoom, TypeOK, ListenState
      <3>2. Load(k) <= Count(k) /\ Count(k) < MaxSocketsPerThread
        BY <2>2, <3>1 DEF HasRoom, Count, PoolInv, CountsInv
      <3>3. Load(k) \in Nat /\ Count(k) \in Nat
        BY <1>1, <1>2, <3>1, FS_CardinalityType DEF PoolInv, Load
      <3> HIDE DEF k
      <3>4. Load(k) < MaxSocketsPerThread
        BY <1>1, <3>2, <3>3
      <3> QED BY <3>1, <3>4 DEF k
    <2> QED BY <1>1, <1>4, <2>1, <2>2
  <1>5. CASE strategy # "FillThreads"
    <2>1. strategy = "SpreadSockets" /\ Len(listen.counts) = pool
      BY <1>5, ServerAssumption DEF TypeOK, NetworkOK, Counted
    <2>2. \/ Target = pool + 1 /\ (pool = 0 \/ pool < MaxThreads)
          \/ pool # 0 /\ Target = LeastLoaded
      BY <2>1 DEF Target, Spread
    <2>3. pool <= MaxThreads
      BY <1>5 DEF PoolInv, LimitsInv
    <2> QED BY <1>1, <1>3, <1>5, <2>1, <2>2, <2>3
  <1> QED BY <1>4, <1>5

-----------------------------------------------------------------------------
(* The listen thread counts the connections of the pool.                   *)
Counting == DispatchBegin \/ DispatchCount

LEMMA CountingStep ==
  ASSUME TypeOK, Counting
  PROVE  /\ listen.pc \in {"dispatch", "count"} /\ listen'.pc = "count"
         /\ listen'.sock = listen.sock
         /\ UNCHANGED << strategy, peer, sent, sock, queue, available, pipe >>
         /\ UNCHANGED << connections, removeSet, wake, exit, pool, recv, main, clients, log >>
  BY DEF Counting, DispatchBegin, DispatchCount, TypeOK, ListenState, network, tasks

(* Which actions change what.                                              *)
LEMMA Frame ==
  ASSUME [Next]_vars
  PROVE
    /\ UNCHANGED strategy
    /\ UNCHANGED peer \/ \E c \in Connection : PeerLeaves(c) \/ \E a \in Addr : Accept(c, a)
    /\ UNCHANGED sent \/ \E t \in Thread, a \in Addr : RecvMessage(t, a)
    /\ \/ UNCHANGED sock
       \/ \E c \in Connection, a \in Addr : Accept(c, a)
       \/ \E t \in Thread : Dispatch(t) \/ RecvDelete(t) \/ \E a \in Addr : RecvBroken(t, a)
       \/ ListenAdvertised \/ ConnectionEvent \/ DisconnectionEvent \/ UpdateAdvertised
       \/ (\E a \in Addr : Disconnect(a)) \/ DisconnectAll \/ Destroyed
    /\ \/ UNCHANGED << queue, available >>
       \/ \E c \in Connection, a \in Addr : Accept(c, a)
       \/ \E t \in Thread, a \in Addr : RecvMessage(t, a)
       \/ Extract \/ Receive \/ \E a \in Addr : UpdateFailed(a)
    /\ \/ UNCHANGED pipe
       \/ \E t \in Thread : RecvPushed(t)
       \/ ListenAdvertised \/ MessageAvailable \/ ConnectionEvent \/ DisconnectionEvent
       \/ UpdateAdvertised
    /\ UNCHANGED connections \/ \E t \in Thread : Dispatch(t) \/ RecvDelete(t)
    /\ UNCHANGED removeSet \/ DisconnectionDone \/ \E t \in Thread : RecvDelete(t)
    /\ UNCHANGED wake \/ DispatchEnd \/ WakeUp \/ RequireExit \/ \E t \in Thread : RecvLoop(t)
    /\ UNCHANGED exit \/ RequireExit
    /\ UNCHANGED pool \/ DispatchEnd
    /\ \/ UNCHANGED listen
       \/ \E c \in Connection, a \in Addr : Accept(c, a)
       \/ \E t \in Thread : Dispatch(t)
       \/ ListenAdvertised \/ Counting \/ DispatchEnd \/ ListenExits
    /\ UNCHANGED recv \/ DispatchEnd \/ \E t \in Thread : ReceiveThread(t) \/ RecvInterrupted(t)
    /\ UNCHANGED main \/ Main \/ Destroy
    /\ UNCHANGED clients \/ ConnectionEvent \/ DisconnectionDone
    /\ UNCHANGED log \/ ConnectionEvent \/ DisconnectionEvent \/ Receive
PROOF
  <1> USE DEF network, tasks
  <1>1. CASE UNCHANGED vars
    BY <1>1 DEF vars
  <1>2. ASSUME NEW c \in Connection, PeerLeaves(c)
        PROVE  /\ UNCHANGED << strategy, sent, sock, queue, available, pipe >>
               /\ UNCHANGED << connections, removeSet, wake, exit, pool, listen, recv, main >>
               /\ UNCHANGED << clients, log >>
    BY <1>2 DEF PeerLeaves
  <1>3. ASSUME NEW c \in Connection, NEW a \in Addr, Accept(c, a)
        PROVE  /\ UNCHANGED << strategy, sent, pipe, connections, removeSet, wake, exit, pool >>
               /\ UNCHANGED << recv, main, clients, log >>
    BY <1>3 DEF Accept
  <1>4. CASE Listen
    <2>1. CASE ListenAdvertised \/ ListenExits
      BY <1>4, <2>1 DEF ListenAdvertised, ListenExits
    <2>2. CASE DispatchEnd
      BY <2>2 DEF DispatchEnd
    <2>3. ASSUME NEW t \in Thread, Dispatch(t)
          PROVE  /\ UNCHANGED << strategy, peer, sent, queue, available, pipe, removeSet, wake >>
                 /\ UNCHANGED << exit, pool, recv, main, clients, log >>
      BY <2>3 DEF Dispatch
    <2>4. CASE Counting
      BY <2>4 DEF Counting, DispatchBegin, DispatchCount
    <2> QED BY <1>4, <2>1, <2>2, <2>3, <2>4 DEF Listen, Counting
  <1>5. ASSUME NEW t \in Thread, ReceiveThread(t) \/ RecvInterrupted(t)
        PROVE  /\ UNCHANGED << strategy, peer, exit, pool, listen, main, clients, log >>
               /\ UNCHANGED sent \/ \E a \in Addr : RecvMessage(t, a)
               /\ UNCHANGED sock \/ RecvDelete(t) \/ \E a \in Addr : RecvBroken(t, a)
               /\ UNCHANGED << queue, available >> \/ \E a \in Addr : RecvMessage(t, a)
               /\ UNCHANGED pipe \/ RecvPushed(t)
               /\ UNCHANGED << connections, removeSet >> \/ RecvDelete(t)
               /\ UNCHANGED wake \/ RecvLoop(t)
    <2>1. CASE RecvClear(t) \/ RecvCopy(t) \/ RecvSelect(t) \/ RecvInterrupted(t) \/ RecvExits(t)
      BY <2>1 DEF RecvClear, RecvCopy, RecvSelect, RecvInterrupted, RecvExits
    <2>2. CASE RecvDelete(t) \/ RecvPushed(t) \/ RecvLoop(t)
      BY <2>2 DEF RecvDelete, RecvPushed, RecvLoop
    <2>3. ASSUME NEW a \in Addr, RecvMessage(t, a)
          PROVE  /\ UNCHANGED << strategy, peer, sock, pipe, connections, removeSet, wake >>
                 /\ UNCHANGED << exit, pool, listen, main, clients, log >>
      BY <2>3 DEF RecvMessage
    <2>4. ASSUME NEW a \in Addr, RecvPart(t, a) \/ RecvBroken(t, a)
          PROVE  /\ UNCHANGED << strategy, peer, sent, queue, available, pipe >>
                 /\ UNCHANGED << connections, removeSet, wake, exit, pool, listen, main >>
                 /\ UNCHANGED << clients, log >>
                 /\ UNCHANGED sock \/ RecvBroken(t, a)
      BY <2>4 DEF RecvPart, RecvBroken
    <2> QED BY <1>5, <2>1, <2>2, <2>3, <2>4 DEF ReceiveThread
  <1>6. CASE DataAvailable
    <2>1. CASE Poll \/ ConnectionDone
      BY <1>6, <2>1 DEF Poll, ConnectionDone, Main
    <2>2. CASE MessageAvailable \/ ConnectionEvent \/ DisconnectionEvent
      BY <1>6, <2>2 DEF MessageAvailable, ConnectionEvent, DisconnectionEvent, Main
    <2>3. CASE DisconnectionDone \/ WakeUp \/ Extract
      BY <1>6, <2>3 DEF DisconnectionDone, WakeUp, Extract, Main
    <2> QED BY <1>6, <2>1, <2>2, <2>3 DEF DataAvailable
  <1>7. CASE Update
    <2>1. CASE UpdateBegin \/ UpdateThread \/ UpdateThreadEnd \/ UpdateEnd \/ UpdateAdvertised
      BY <1>7, <2>1
      DEF UpdateBegin, UpdateThread, UpdateThreadEnd, UpdateEnd, UpdateAdvertised, Main
    <2>2. ASSUME NEW a \in Addr, UpdateSent(a) \/ UpdateFailed(a)
          PROVE  /\ UNCHANGED << strategy, peer, sent, sock, pipe, connections, removeSet, wake >>
                 /\ UNCHANGED << exit, pool, listen, recv, clients, log >>
                 /\ UNCHANGED << queue, available >> \/ UpdateFailed(a)
      BY <2>2 DEF UpdateSent, UpdateFailed
    <2> QED BY <1>7, <2>1, <2>2 DEF Update, Main
  <1>8. CASE UserUpdates \/ Receive \/ MessageDone \/ RequireExit \/ Destroyed \/ Destroy
    BY <1>8 DEF UserUpdates, Receive, MessageDone, RequireExit, Destroyed, Destroy, Main
  <1>9. ASSUME NEW a \in Addr, Disconnect(a)
        PROVE  /\ UNCHANGED << strategy, peer, sent, queue, available, pipe, connections >>
               /\ UNCHANGED << removeSet, wake, exit, pool, listen, recv, main, clients, log >>
    BY <1>9 DEF Disconnect
  <1>10. CASE DisconnectAll
    BY <1>10 DEF DisconnectAll
  <1> QED
    BY <1>1, <1>2, <1>3, <1>4, <1>5, <1>6, <1>7, <1>8, <1>9, <1>10 DEF Next, Main

-----------------------------------------------------------------------------
(* Types.                                                                  *)
(* The front of the queue, and what is left when it is popped.             *)
LEMMA FrontTypes ==
  ASSUME TypeOK, queue # << >>
  PROVE  /\ Head(queue) \in Event
         /\ Head(queue) = queue[1]
         /\ Tail(queue) \in Seq(Event)
         /\ Len(Tail(queue)) = Len(queue) - 1
         /\ \A i \in 1 .. Len(Tail(queue)) : Tail(queue)[i] = queue[i + 1]
         /\ Len(queue) \in Nat \ {0}
  BY HeadTailProperties, EmptySeq DEF TypeOK, QueueOK

(* The sockets that a receive thread serves, and those that update goes    *)
(* through, are allocated and belong to the thread.                        *)
LEMMA ServedSockets ==
  ASSUME TypeOK, OwnerInv, main.pc # "destroyed", NEW t \in Thread, NEW a \in Addr,
         \/ Works(t) /\ a \in recv[t].ready \union recv[t].copy
         \/ main.pc \in {"sockets", "advertised"} /\ t = main.thread /\ a \in main.socks
  PROVE  a \in connections[t] /\ sock[a].conn \in Connection /\ sock[a].owner = t
PROOF
  <1>1. a \in connections[t]
    BY DEF OwnerInv, WorkListed, SweepListed
  <1>2. sock[a].conn # 0 /\ sock[a].owner = t
    BY <1>1 DEF OwnerInv, OwnedInv, Listed
  <1> QED BY <1>1, <1>2 DEF TypeOK, SockOK, SockState

(* The event that is made for a socket.                                    *)
LEMMA OfTypes ==
  ASSUME NEW a \in Addr, sock[a].conn \in Connection,
         NEW type \in {"Connection", "Disconnection", "User"}
  PROVE  Of(type, a) \in Event /\ Of(type, a).type = type /\ Of(type, a).sock = a
         /\ Of(type, a).conn = sock[a].conn
  BY DEF Of, Event

(* The type invariant, one group of variables at a time.                   *)
LEMMA NetworkTypes ==
  ASSUME TypeOK, [Next]_vars
  PROVE  NetworkOK'
PROOF
  <1> USE DEF TypeOK, NetworkOK
  <1>1. peer' \in [Connection -> {"none", "here", "gone"}]
    BY Frame DEF PeerLeaves, Accept
  <1>2. sent' \in [Connection -> Nat]
    <2>1. \A c \in Connection : sent[c] + 1 \in Nat
      OBVIOUS
    <2>2. ASSUME NEW t \in Thread, NEW a \in Addr, RecvMessage(t, a)
          PROVE  sent' \in [Connection -> Nat]
      BY <2>1, <2>2 DEF RecvMessage
    <2> QED BY <2>2, Frame
  <1> QED BY <1>1, <1>2, Frame

(* The sockets after a step, address by address.                           *)
LEMMA SockTypes ==
  ASSUME TypeOK, [Next]_vars
  PROVE  SockOK'
PROOF
  <1> USE DEF TypeOK, SockOK
  <1>1. Freed \in SockState
    BY DEF Freed, SockState
  <1>2. ASSUME NEW c \in Connection, NEW a \in Addr, Accept(c, a)
        PROVE  SockOK'
    BY <1>1, <1>2 DEF Accept, SockState, Freed
  <1>3. CASE ListenAdvertised \/ UpdateAdvertised
    <2>1. \A s \in SockState, b \in BOOLEAN : [s EXCEPT !.know = b] \in SockState
      BY DEF SockState
    <2>2. ASSUME NEW x, NEW b \in BOOLEAN, sock' = [sock EXCEPT ![x].know = b]
          PROVE  SockOK'
      <3>1. \A a \in Addr : sock'[a] = sock[a] \/ sock'[a] = [sock[a] EXCEPT !.know = b]
        BY <2>2
      <3>2. sock' = [a \in Addr |-> sock'[a]]
        BY <2>2
      <3> QED BY <2>1, <3>1, <3>2
    <2> QED BY <1>3, <2>2 DEF ListenAdvertised, UpdateAdvertised
  <1>4. CASE ConnectionEvent \/ DisconnectionEvent
    <2>1. \A s \in SockState, b \in BOOLEAN : [s EXCEPT !.state = b] \in SockState
      BY DEF SockState
    <2>2. ASSUME NEW x, NEW b \in BOOLEAN, sock' = [sock EXCEPT ![x].state = b]
          PROVE  SockOK'
      <3>1. \A a \in Addr : sock'[a] = sock[a] \/ sock'[a] = [sock[a] EXCEPT !.state = b]
        BY <2>2
      <3>2. sock' = [a \in Addr |-> sock'[a]]
        BY <2>2
      <3> QED BY <2>1, <3>1, <3>2
    <2> QED BY <1>4, <2>2 DEF ConnectionEvent, DisconnectionEvent
  <1>5. ASSUME NEW t \in Thread, Dispatch(t)
        PROVE  SockOK'
    BY <1>5 DEF Dispatch, SockState
  <1>6. ASSUME NEW S, sock' = [a \in Addr |-> IF a \in S THEN Freed ELSE sock[a]]
        PROVE  SockOK'
    BY <1>1, <1>6
  <1>7. ASSUME NEW t \in Thread, RecvDelete(t)
        PROVE  SockOK'
    BY <1>6, <1>7 DEF RecvDelete
  <1>8. CASE Destroyed
    BY <1>1, <1>8 DEF Destroyed
  <1>9. ASSUME NEW S, sock' = ShutDown(S)
        PROVE  SockOK'
    BY <1>9 DEF ShutDown, SockState
  <1>10. ASSUME NEW t \in Thread, NEW a \in Addr, RecvBroken(t, a)
         PROVE  SockOK'
    BY <1>9, <1>10 DEF RecvBroken
  <1>11. CASE (\E a \in Addr : Disconnect(a)) \/ DisconnectAll
    BY <1>9, <1>11 DEF Disconnect, DisconnectAll
  <1> QED
    BY <1>2, <1>3, <1>4, <1>5, <1>7, <1>8, <1>10, <1>11, Frame

(* What is pushed is an event, and the pipe never overflows.               *)
LEMMA QueueTypes ==
  ASSUME IInv, [Next]_vars
  PROVE  QueueOK'
PROOF
  <1> USE DEF IInv, TypeOK, QueueOK
  <1>1. pipe' \in 0 .. PipeCapacity
    BY ServerAssumption, Frame
    DEF ListenAdvertised, RecvPushed, MessageAvailable, ConnectionEvent, DisconnectionEvent,
        UpdateAdvertised, WritePipe, ReadPipe
  <1>2. ASSUME NEW e \in Event, PushMessage(e)
        PROVE  queue' \in Seq(Event) /\ available' \in BOOLEAN
    BY <1>2 DEF PushMessage
  <1>3. ASSUME NEW c \in Connection, NEW a \in Addr, Accept(c, a)
        PROVE  queue' \in Seq(Event) /\ available' \in BOOLEAN
    <2>1. [type |-> "Connection", sock |-> a, conn |-> c] \in Event
      BY DEF Event
    <2> QED BY <1>2, <1>3, <2>1 DEF Accept
  <1>4. ASSUME NEW t \in Thread, NEW a \in Addr, RecvMessage(t, a)
        PROVE  queue' \in Seq(Event) /\ available' \in BOOLEAN
    <2>1. main.pc # "destroyed" /\ Works(t) /\ a \in recv[t].ready
      BY <1>4 DEF RecvMessage, ThreadsInv, Works
    <2>2. Of("User", a) \in Event
      BY <2>1, ServedSockets, OfTypes
    <2> QED BY <1>2, <1>4, <2>2 DEF RecvMessage
  <1>5. CASE Extract \/ Receive
    BY <1>5, FrontTypes DEF Extract, Receive, PopMessage, EventInv
  <1>6. ASSUME NEW a \in Addr, UpdateFailed(a)
        PROVE  queue' \in Seq(Event) /\ available' \in BOOLEAN
    <2>1. main.thread \in Thread /\ Of("Disconnection", a) \in Event
      BY <1>6, ServedSockets, OfTypes DEF UpdateFailed, ThreadsInv
    <2> QED BY <1>2, <1>6, <2>1 DEF UpdateFailed
  <1> QED BY <1>1, <1>3, <1>4, <1>5, <1>6, Frame

(* A receive thread reads a byte of its wake-up pipe only when there is    *)
(* one, and the pool stays within its bound.                               *)
LEMMA TasksTypes ==
  ASSUME IInv, [Next]_vars
  PROVE  TasksOK'
PROOF
  <1> USE DEF IInv, TypeOK, TasksOK
  <1>1. connections' \in [Thread -> SUBSET Addr]
    <2>1. ASSUME NEW t \in Thread, Dispatch(t)
          PROVE  connections' \in [Thread -> SUBSET Addr]
      BY <2>1 DEF Dispatch, ThreadsInv
    <2>2. ASSUME NEW t \in Thread, RecvDelete(t)
          PROVE  connections' \in [Thread -> SUBSET Addr]
      BY <2>2 DEF RecvDelete
    <2> QED BY <2>1, <2>2, Frame
  <1>2. removeSet' \in [Thread -> SUBSET Addr]
    <2>1. CASE DisconnectionDone
      <3>1. main.event.sock \in Addr
        BY <2>1, FrontTypes DEF DisconnectionDone, EventInv, Event
      <3> QED BY <2>1, <3>1 DEF DisconnectionDone
    <2> QED BY <2>1, Frame DEF RecvDelete
  <1>3. wake' \in [Thread -> Nat]
    <2>1. \A t \in Thread : wake[t] + 1 \in Nat /\ (wake[t] > 0 => wake[t] - 1 \in Nat)
      OBVIOUS
    <2>2. CASE DispatchEnd \/ WakeUp \/ RequireExit
      BY <2>1, <2>2 DEF DispatchEnd, WakeUp, RequireExit
    <2>3. ASSUME NEW t \in Thread, RecvLoop(t)
          PROVE  wake' \in [Thread -> Nat]
      BY <2>1, <2>3 DEF RecvLoop, ThreadsInv
    <2> QED BY <2>2, <2>3, Frame
  <1>4. exit' \in BOOLEAN
    BY Frame DEF RequireExit
  <1>5. pool' \in 0 .. NbThreads
    <2>1. CASE DispatchEnd
      <3>1. sock[listen.sock].owner \in Thread \union {0}
        BY <2>1 DEF DispatchEnd, ThreadsInv, SockOK, SockState
      <3> QED BY <2>1, <3>1, ServerAssumption DEF DispatchEnd, Thread
    <2> QED BY <2>1, Frame
  <1> QED BY <1>1, <1>2, <1>3, <1>4, <1>5

(* The listen thread.                                                      *)
LEMMA ListenTypes ==
  ASSUME IInv, [Next]_vars
  PROVE  listen' \in ListenState
PROOF
  <1> USE DEF IInv, TypeOK, ListenState
  <1>1. ASSUME NEW c \in Connection, NEW a \in Addr, Accept(c, a)
        PROVE  listen' \in ListenState
    BY <1>1 DEF Accept
  <1>2. CASE ListenAdvertised \/ DispatchEnd \/ ListenExits \/ DispatchBegin
    BY <1>2 DEF ListenAdvertised, DispatchEnd, ListenExits, DispatchBegin
  <1>3. ASSUME NEW t \in Thread, Dispatch(t)
        PROVE  listen' \in ListenState
    <2>1. << >> \in Seq(Nat)
      BY EmptySeq
    <2> QED BY <1>3, <2>1 DEF Dispatch
  <1>4. CASE DispatchCount
    <2> DEFINE t == Len(listen.counts) + 1
    <2>1. Len(listen.counts) \in Nat /\ Len(listen.counts) < pool /\ pool \in 0 .. NbThreads
      BY <1>4 DEF DispatchCount, Counted, PoolInv, CountsInv, TasksOK
    <2>2. t \in Thread
      BY <2>1, ServerAssumption DEF Thread
    <2>3. Load(t) \in Nat
      BY <2>2, FS_CardinalityType DEF PoolInv, Load
    <2>4. Append(listen.counts, Load(t)) \in Seq(Nat)
      BY <2>3, AppendProperties
    <2> QED BY <1>4, <2>4 DEF DispatchCount
  <1> QED BY <1>1, <1>2, <1>3, <1>4, Frame DEF Counting

(* The receive threads.                                                    *)
LEMMA RecvTypes ==
  ASSUME IInv, [Next]_vars
  PROVE  recv' \in [Thread -> RecvState]
PROOF
  <1> USE DEF IInv, TypeOK
  <1>1. ASSUME NEW t \in Thread, NEW pc, GoTo(t, pc),
               pc \in {"clear", "delete", "copy", "serve", "ended"}
        PROVE  recv' \in [Thread -> RecvState]
    BY <1>1 DEF GoTo, RecvState
  <1>2. CASE DispatchEnd
    BY <1>2 DEF DispatchEnd, RecvState
  <1>3. ASSUME NEW t \in Thread,
               \/ RecvClear(t) \/ RecvDelete(t) \/ RecvPushed(t) \/ RecvLoop(t) \/ RecvExits(t)
               \/ RecvInterrupted(t)
        PROVE  recv' \in [Thread -> RecvState]
    BY <1>1, <1>3
    DEF RecvClear, RecvDelete, RecvPushed, RecvLoop, RecvExits, RecvInterrupted
  <1>4. ASSUME NEW t \in Thread, RecvCopy(t)
        PROVE  recv' \in [Thread -> RecvState]
    BY <1>4 DEF RecvCopy, RecvState, TasksOK
  <1>5. ASSUME NEW t \in Thread, RecvSelect(t)
        PROVE  recv' \in [Thread -> RecvState]
    <2>1. PICK R \in SUBSET recv[t].copy :
            recv' = [recv EXCEPT ![t].pc = "serve", ![t].ready = R, ![t].woken = wake[t] > 0]
      BY <1>5 DEF RecvSelect
    <2>2. R \in SUBSET Addr /\ (wake[t] > 0) \in BOOLEAN
      BY DEF RecvState
    <2> HIDE DEF TypeOK, IInv
    <2>3. recv \in [Thread -> RecvState]
      BY DEF IInv, TypeOK
    <2>4. \A r \in RecvState, b \in BOOLEAN :
            [r EXCEPT !.pc = "serve", !.ready = R, !.woken = b] \in RecvState
      BY <2>2 DEF RecvState
    <2>5. recv' = [recv EXCEPT ![t] = [recv[t] EXCEPT !.pc = "serve", !.ready = R,
                                                      !.woken = wake[t] > 0]]
      BY <2>1, <2>3
    <2> QED BY <2>2, <2>3, <2>4, <2>5
  <1>6. ASSUME NEW t \in Thread, NEW a \in Addr,
               RecvMessage(t, a) \/ RecvPart(t, a) \/ RecvBroken(t, a)
        PROVE  recv' \in [Thread -> RecvState]
    BY <1>6 DEF RecvMessage, RecvPart, RecvBroken, RecvState
  <1> QED
    BY <1>2, <1>3, <1>4, <1>5, <1>6, Frame DEF ReceiveThread

(* The main thread: the event it takes is the front of the queue.          *)
LEMMA MainTypes ==
  ASSUME IInv, [Next]_vars
  PROVE  main' \in MainState
PROOF
  <1> USE DEF IInv, TypeOK, MainState, MainGoes
  <1>1. NoEvent \in Event \union {NoEvent}
    OBVIOUS
  <1>2. CASE UserUpdates \/ MessageDone \/ RequireExit \/ Destroyed \/ Destroy
    BY <1>2 DEF UserUpdates, MessageDone, RequireExit, Destroyed, Destroy
  <1>3. CASE Receive
    BY <1>3, FrontTypes DEF Receive, EventInv
  <1>4. CASE Poll
    <2>1. available => queue # << >>
      BY DEF PipeAccounting
    <2> QED BY <1>4, <2>1, FrontTypes DEF Poll
  <1>5. CASE MessageAvailable \/ ConnectionEvent \/ DisconnectionEvent \/ ConnectionDone
    BY <1>5 DEF MessageAvailable, ConnectionEvent, DisconnectionEvent, ConnectionDone
  <1>6. CASE DisconnectionDone \/ WakeUp \/ Extract
    BY <1>6 DEF DisconnectionDone, WakeUp, Extract
  <1>7. CASE UpdateBegin \/ UpdateThreadEnd \/ UpdateEnd \/ UpdateAdvertised
    BY <1>7 DEF UpdateBegin, UpdateThreadEnd, UpdateEnd, UpdateAdvertised
  <1>8. CASE UpdateThread
    <2>1. main.thread + 1 \in Thread
      BY <1>8, ServerAssumption DEF UpdateThread, Thread, TasksOK
    <2> QED BY <1>8, <2>1 DEF UpdateThread, TasksOK
  <1>9. ASSUME NEW a \in Addr, UpdateSent(a) \/ UpdateFailed(a)
        PROVE  main' \in MainState
    <2>1. main.thread \in Thread /\ Of("Disconnection", a) \in Event
      BY <1>9, ServedSockets, OfTypes DEF UpdateSent, UpdateFailed, ThreadsInv
    <2> QED BY <1>9, <2>1 DEF UpdateSent, UpdateFailed
  <1> QED
    BY <1>2, <1>3, <1>4, <1>5, <1>6, <1>7, <1>8, <1>9, Frame DEF Main, DataAvailable, Update

(* What the user has seen.                                                 *)
LEMMA UserTypes ==
  ASSUME IInv, [Next]_vars
  PROVE  UserOK'
PROOF
  <1> USE DEF IInv, TypeOK, UserOK
  <1> DEFINE T == {"Connection", "Disconnection", "User"}
  <1>1. ASSUME NEW e \in Event, Logged(e)
        PROVE  log' \in [Connection -> Seq(T)]
    <2>1. e.conn \in Connection /\ e.type \in T
      BY DEF Event
    <2>2. Append(log[e.conn], e.type) \in Seq(T)
      BY <2>1
    <2> QED BY <1>1, <2>1, <2>2 DEF Logged
  <1>2. CASE ConnectionEvent \/ DisconnectionEvent
    <2>1. main.event \in Event
      BY <1>2, FrontTypes DEF ConnectionEvent, DisconnectionEvent, EventInv
    <2> QED BY <1>1, <1>2, <2>1 DEF ConnectionEvent, DisconnectionEvent, Event
  <1>3. CASE Receive
    BY <1>1, <1>3, FrontTypes DEF Receive, EventInv
  <1>4. CASE DisconnectionDone
    BY <1>4 DEF DisconnectionDone
  <1> QED BY <1>2, <1>3, <1>4, Frame

(* The type invariant is preserved.                                        *)
LEMMA Types ==
  ASSUME IInv, [Next]_vars
  PROVE  TypeOK'
  BY NetworkTypes, SockTypes, QueueTypes, TasksTypes, ListenTypes, RecvTypes, MainTypes, UserTypes
  DEF IInv, TypeOK

-----------------------------------------------------------------------------
(* How a step changes the sockets, and the receive threads.                *)
FieldsKept ==
  \A a \in Addr : /\ sock'[a].conn = sock[a].conn
                  /\ sock'[a].owner = sock[a].owner
                  /\ sock'[a].know = sock[a].know

(* All steps but these leave the connection, the owner and the flag        *)
(* _KnowConnected of every socket alone.                                   *)
LEMMA Fields ==
  ASSUME TypeOK, [Next]_vars
  PROVE  \/ FieldsKept
         \/ \E c \in Connection, a \in Addr : Accept(c, a)
         \/ \E t \in Thread : Dispatch(t) \/ RecvDelete(t)
         \/ ListenAdvertised \/ UpdateAdvertised \/ Destroyed
PROOF
  <1> USE DEF TypeOK, SockOK, FieldsKept
  <1>1. CASE UNCHANGED sock
    BY <1>1
  <1>2. ASSUME NEW x, NEW b, sock' = [sock EXCEPT ![x].state = b]
        PROVE  FieldsKept
    BY <1>2 DEF SockState
  <1>3. CASE ConnectionEvent \/ DisconnectionEvent
    BY <1>2, <1>3 DEF ConnectionEvent, DisconnectionEvent
  <1>4. ASSUME NEW S, sock' = ShutDown(S)
        PROVE  FieldsKept
    BY <1>4 DEF ShutDown, SockState
  <1>5. ASSUME NEW t \in Thread, NEW a \in Addr, RecvBroken(t, a)
        PROVE  FieldsKept
    BY <1>4, <1>5 DEF RecvBroken
  <1>6. CASE (\E a \in Addr : Disconnect(a)) \/ DisconnectAll
    BY <1>4, <1>6 DEF Disconnect, DisconnectAll
  <1> QED BY <1>1, <1>3, <1>5, <1>6, Frame

(* A new object is made at an address that is free.                        *)
LEMMA AcceptFields ==
  ASSUME TypeOK, NEW c \in Connection, NEW a \in Addr, Accept(c, a)
  PROVE  /\ sock[a].conn = 0 /\ sock'[a].conn = c /\ sock'[a].owner = 0 /\ ~sock'[a].know
         /\ \A b \in Addr : b # a => sock'[b] = sock[b]
  BY DEF TypeOK, SockOK, Accept, Freed

(* The flag _KnowConnected is all that the two threads that advertise      *)
(* change in a socket.                                                     *)
LEMMA KnowFields ==
  ASSUME TypeOK, NEW x \in Addr, NEW b, sock' = [sock EXCEPT ![x].know = b]
  PROVE  /\ sock'[x].know = b
         /\ \A a \in Addr : sock'[a].conn = sock[a].conn /\ sock'[a].owner = sock[a].owner
         /\ \A a \in Addr : a # x => sock'[a] = sock[a]
  BY DEF TypeOK, SockOK, SockState

(* A new socket gets its owner, and the owner the socket.                  *)
LEMMA DispatchFields ==
  ASSUME TypeOK, listen.sock \in Addr, NEW t \in Thread, Dispatch(t)
  PROVE  /\ sock'[listen.sock].owner = t
         /\ \A a \in Addr : sock'[a].conn = sock[a].conn /\ sock'[a].know = sock[a].know
         /\ \A a \in Addr : a # listen.sock => sock'[a] = sock[a]
         /\ connections'[t] = connections[t] \union {listen.sock}
         /\ \A u \in Thread : u # t => connections'[u] = connections[u]
  BY DEF TypeOK, SockOK, SockState, TasksOK, Dispatch

(* clearClosedConnections deletes the sockets of _RemoveSet.               *)
LEMMA DeleteFields ==
  ASSUME TypeOK, NEW t \in Thread, RecvDelete(t)
  PROVE  /\ \A a \in removeSet[t] : sock'[a] = Freed
         /\ \A a \in Addr : a \notin removeSet[t] => sock'[a] = sock[a]
         /\ connections'[t] = connections[t] \ removeSet[t]
         /\ removeSet'[t] = {}
         /\ \A u \in Thread : u # t => connections'[u] = connections[u]
                                       /\ removeSet'[u] = removeSet[u]
  BY DEF TypeOK, SockOK, TasksOK, RecvDelete

(* A step of a receive thread: where it was and where it goes.             *)
LEMMA RecvStep ==
  ASSUME TypeOK, NEW t \in Thread, ReceiveThread(t) \/ RecvInterrupted(t)
  PROVE  /\ recv[t].pc \notin {"off", "ended"}
         /\ recv'[t].pc # "off"
         /\ \A u \in Thread : u # t => recv'[u] = recv[u]
         /\ recv'[t].pc \in {"serve", "pushed"} =>
              \/ recv'[t].woken = (wake[t] > 0)
              \/ recv[t].pc \in {"serve", "pushed"} /\ recv'[t].woken = recv[t].woken
         /\ recv[t].pc = "delete" <=> RecvDelete(t)
         /\ recv[t].pc = "pushed" => RecvPushed(t)
         /\ recv'[t].pc = "pushed" => \E a \in Addr : RecvMessage(t, a)
         /\ Works(t)' =>
              \/ RecvCopy(t) /\ recv'[t].copy \subseteq connections[t] /\ recv'[t].ready = {}
              \/ Works(t) /\ recv'[t].copy = recv[t].copy
                 /\ recv'[t].ready \subseteq recv[t].ready \union recv[t].copy
PROOF
  <1> USE DEF TypeOK, Works
  <1>1. ASSUME NEW pc, GoTo(t, pc)
        PROVE  /\ recv'[t].pc = pc /\ recv'[t].copy = recv[t].copy
               /\ recv'[t].ready = recv[t].ready /\ recv'[t].woken = recv[t].woken
               /\ \A u \in Thread : u # t => recv'[u] = recv[u]
    BY <1>1 DEF GoTo, RecvState
  <1>2. CASE RecvClear(t) \/ RecvExits(t) \/ RecvLoop(t) \/ RecvInterrupted(t)
    BY <1>1, <1>2 DEF RecvClear, RecvExits, RecvLoop, RecvInterrupted, RecvDelete
  <1>3. CASE RecvDelete(t) \/ RecvPushed(t)
    BY <1>1, <1>3 DEF RecvDelete, RecvPushed
  <1>4. CASE RecvCopy(t)
    BY <1>4 DEF RecvCopy, RecvState, RecvDelete
  <1>5. CASE RecvSelect(t)
    <2>1. PICK R \in SUBSET recv[t].copy :
            recv' = [recv EXCEPT ![t].pc = "serve", ![t].ready = R, ![t].woken = wake[t] > 0]
      BY <1>5 DEF RecvSelect
    <2>2. /\ recv'[t].pc = "serve" /\ recv'[t].ready = R /\ recv'[t].woken = (wake[t] > 0)
          /\ recv'[t].copy = recv[t].copy
          /\ \A u \in Thread : u # t => recv'[u] = recv[u]
      BY <2>1 DEF RecvState
    <2>3. recv[t].pc = "select"
      BY <1>5 DEF RecvSelect
    <2> QED BY <2>2, <2>3 DEF RecvDelete
  <1>6. ASSUME NEW a \in Addr, RecvMessage(t, a)
        PROVE  /\ recv[t].pc = "serve" /\ recv'[t].pc = "pushed"
               /\ recv'[t].copy = recv[t].copy /\ recv'[t].ready \subseteq recv[t].ready
               /\ recv'[t].woken = recv[t].woken
               /\ \A u \in Thread : u # t => recv'[u] = recv[u]
    BY <1>6 DEF RecvMessage, RecvState
  <1>7. ASSUME NEW a \in Addr, RecvPart(t, a) \/ RecvBroken(t, a)
        PROVE  /\ recv[t].pc = "serve" /\ recv'[t].pc = "serve"
               /\ recv'[t].copy = recv[t].copy /\ recv'[t].ready \subseteq recv[t].ready
               /\ recv'[t].woken = recv[t].woken
               /\ \A u \in Thread : u # t => recv'[u] = recv[u]
    BY <1>7 DEF RecvPart, RecvBroken, RecvState
  <1>8. CASE (\E a \in Addr : RecvMessage(t, a)) \/ (\E a \in Addr : RecvPart(t, a))
             \/ (\E a \in Addr : RecvBroken(t, a))
    BY <1>6, <1>7, <1>8 DEF RecvDelete
  <1> QED BY <1>2, <1>3, <1>4, <1>5, <1>8 DEF ReceiveThread

(* Where the main thread was and where it goes.                            *)
LEMMA Ended ==
  ASSUME IInv, main.pc = "destroyed", [Next]_vars
  PROVE  UNCHANGED << strategy, sock, queue, available, pipe, tasks, listen, recv, main, clients,
                      log >>
PROOF
  <1>1. /\ listen.pc = "ended" /\ \A t \in Thread : recv[t].pc \in {"off", "ended"}
        /\ TypeOK
    BY DEF IInv, ThreadsInv
  <1>2. ~Listen /\ \A c \in Connection, a \in Addr : ~Accept(c, a)
    BY <1>1 DEF Listen, ListenAdvertised, DispatchBegin, DispatchCount, Dispatch, DispatchEnd,
                ListenExits, Accept
  <1>3. \A t \in Thread : ~(ReceiveThread(t) \/ RecvInterrupted(t))
    BY <1>1, RecvStep
  <1>4. ~DataAvailable
    BY DEF DataAvailable, Poll, MessageAvailable, ConnectionEvent, DisconnectionEvent,
           ConnectionDone, DisconnectionDone, WakeUp, Extract
  <1>5. ~Update
    BY DEF Update, UpdateBegin, UpdateThread, UpdateSent, UpdateFailed, UpdateAdvertised,
           UpdateThreadEnd, UpdateEnd
  <1>6. ~Main /\ ~Destroy
    BY <1>4, <1>5 DEF Main, UserUpdates, Receive, MessageDone, RequireExit, Destroyed, Destroy
  <1>7. ~DisconnectAll /\ \A a \in Addr : ~Disconnect(a)
    BY DEF Disconnect, DisconnectAll, UserRuns
  <1>8. (\E c \in Connection : PeerLeaves(c)) \/ UNCHANGED vars
    BY <1>2, <1>3, <1>6, <1>7 DEF Next
  <1> QED BY <1>8 DEF PeerLeaves, vars, tasks

-----------------------------------------------------------------------------
(* The threads.                                                            *)
LEMMA PoolStep ==
  ASSUME IInv, DispatchEnd
  PROVE  LET t == sock[listen.sock].owner
         IN  IF t > pool
               THEN /\ t = pool + 1 /\ pool' = t /\ t \in Thread
                    /\ recv'[t].pc = "clear"
                    /\ \A u \in Thread : u # t => recv'[u] = recv[u]
               ELSE UNCHANGED << pool, recv >>
PROOF
  <1> USE DEF IInv, ThreadsInv
  <1> DEFINE t == sock[listen.sock].owner
  <1>1. t \in 1 .. pool + 1 /\ t \in Thread \union {0}
    BY DEF DispatchEnd, OwnerInv, OwnedInv, Dealt, TypeOK, SockOK, SockState
  <1>2. pool \in Nat
    BY DEF TypeOK, TasksOK
  <1> HIDE DEF t
  <1>3. t > pool => t = pool + 1
    BY <1>1, <1>2
  <1>4. t \in Thread
    BY <1>1, <1>2
  <1>5. t > pool => recv' = [recv EXCEPT ![t].pc = "clear"] /\ pool' = t
    BY DEF DispatchEnd, t
  <1>6. t > pool => recv'[t].pc = "clear" /\ \A u \in Thread : u # t => recv'[u] = recv[u]
    BY <1>4, <1>5 DEF TypeOK, RecvState
  <1>7. ~(t > pool) => UNCHANGED << pool, recv >>
    BY DEF DispatchEnd, t
  <1> QED BY <1>3, <1>4, <1>5, <1>6, <1>7 DEF t

(* The lives of the threads go on as ThreadsInv says.                      *)
LEMMA ThreadsKept ==
  ASSUME IInv, [Next]_vars
  PROVE  ThreadsInv'
PROOF
  <1> USE DEF IInv, ThreadsInv
  <1>1. CASE main.pc = "destroyed"
    BY <1>1, Ended DEF tasks
  <1> SUFFICES ASSUME main.pc # "destroyed" PROVE ThreadsInv'
    BY <1>1
  <1>2. \A t \in Thread : recv'[t].pc = "off" <=> t > pool'
    <2>1. CASE DispatchEnd
      <3> DEFINE u == sock[listen.sock].owner
      <3>1. pool \in Nat /\ \A t \in Thread : t \in Nat
        BY DEF TypeOK, TasksOK, Thread
      <3>2. CASE u > pool
        <4>1. /\ u = pool + 1 /\ pool' = u /\ recv'[u].pc = "clear"
              /\ \A t \in Thread : t # u => recv'[t] = recv[t]
          BY <2>1, <3>2, PoolStep
        <4> HIDE DEF u
        <4> QED BY <3>1, <4>1
      <3>3. CASE ~(u > pool)
        BY <2>1, <3>3, PoolStep
      <3> QED BY <3>2, <3>3
    <2>2. CASE ~DispatchEnd
      BY <2>2, Frame, RecvStep
    <2> QED BY <2>1, <2>2
  <1>3. \A t \in Thread : recv'[t].pc \in {"serve", "pushed"} /\ recv'[t].woken => wake'[t] > 0
    <2>1. \A t \in Thread : wake[t] \in Nat /\ wake[t] + 1 > 0
      BY DEF TypeOK, TasksOK
    <2>2. CASE DispatchEnd
      <3>1. \A u \in Thread : wake'[u] = wake[u] \/ wake'[u] = wake[u] + 1
        BY <2>2 DEF DispatchEnd, TypeOK, TasksOK
      <3> QED BY PoolStep, <2>1, <2>2, <3>1
    <2>3. CASE WakeUp \/ RequireExit
      <3>1. UNCHANGED recv /\ \A u \in Thread : wake'[u] = wake[u] \/ wake'[u] = wake[u] + 1
        BY <2>3 DEF WakeUp, RequireExit, TypeOK, TasksOK
      <3> QED BY <2>1, <3>1
    <2>4. ASSUME NEW t \in Thread, RecvLoop(t)
          PROVE  \A u \in Thread :
                   recv'[u].pc \in {"serve", "pushed"} /\ recv'[u].woken => wake'[u] > 0
      <3>1. recv'[t].pc = "clear"
        BY <2>4 DEF RecvLoop, GoTo, TypeOK, RecvState
      <3>2. \A u \in Thread : u # t => recv'[u] = recv[u] /\ wake'[u] = wake[u]
        BY <2>4 DEF RecvLoop, GoTo, TypeOK, TasksOK
      <3> QED BY <3>1, <3>2
    <2>5. CASE UNCHANGED wake /\ ~DispatchEnd
      BY <2>1, <2>5, Frame, RecvStep
    <2> QED BY <2>2, <2>3, <2>4, <2>5, Frame
  <1>4. /\ listen'.pc \in {"advertised", "dispatch", "count", "wake"} => listen'.sock \in Addr
        /\ listen'.pc \in {"count", "wake"} =>
             main'.pc \notin {"sweep", "sockets", "advertised"}
        /\ listen'.pc = "ended" => main'.pc \in {"closing", "joining", "destroyed"}
        /\ main'.pc \in {"joining", "destroyed"} => listen'.pc = "ended"
    <2>1. CASE UNCHANGED main
      <3>1. ASSUME NEW c \in Connection, NEW a \in Addr, Accept(c, a)
            PROVE  listen'.pc = "advertised" /\ listen'.sock = a /\ listen.pc = "accept"
        BY <3>1 DEF Accept, TypeOK, ListenState
      <3>2. CASE ListenAdvertised \/ ListenExits
        BY <2>1, <3>2 DEF ListenAdvertised, ListenExits, TypeOK, ListenState
      <3>3. ASSUME NEW t \in Thread, Dispatch(t)
            PROVE  listen.pc = "count" /\ listen'.pc = "wake" /\ listen'.sock = listen.sock
        BY <3>3 DEF Dispatch, TypeOK, ListenState
      <3>4. CASE DispatchEnd
        BY <2>1, <3>4 DEF DispatchEnd, TypeOK, ListenState
      <3>5. CASE Counting
        <4>1. listen.pc = "count" \/ main.pc \notin {"sweep", "sockets", "advertised", "joining"}
          BY <3>5 DEF Counting, DispatchBegin, DispatchCount, PoolLocked
        <4> QED BY <2>1, <3>5, <4>1, CountingStep
      <3> QED BY <2>1, <3>1, <3>2, <3>3, <3>4, <3>5, Frame
    <2>2. CASE UNCHANGED listen
      <3>1. CASE DataAvailable \/ UserUpdates \/ Receive \/ MessageDone \/ Destroy
        BY <2>2, <3>1
        DEF DataAvailable, Poll, MessageAvailable, ConnectionEvent, DisconnectionEvent,
            ConnectionDone, DisconnectionDone, WakeUp, Extract, UserUpdates, Receive, MessageDone,
            Destroy, MainGoes, TypeOK, MainState
      <3>2. CASE Update
        BY <2>2, <3>2
        DEF Update, UpdateBegin, UpdateThread, UpdateSent, UpdateFailed, UpdateAdvertised,
            UpdateThreadEnd, UpdateEnd, MainGoes, TypeOK, MainState, PoolLocked
      <3>3. CASE RequireExit \/ Destroyed
        BY <2>2, <3>3 DEF RequireExit, Destroyed, MainGoes, TypeOK, MainState
      <3> QED BY <2>1, <2>2, <3>1, <3>2, <3>3, Frame DEF Main
    <2>3. UNCHANGED main \/ UNCHANGED listen
      BY Frame, CountingStep
      DEF Accept, ListenAdvertised, Dispatch, DispatchEnd, ListenExits, TypeOK
    <2> QED BY <2>1, <2>2, <2>3
  <1>5. main'.pc = "destroyed" => \A t \in Thread : recv'[t].pc \in {"off", "ended"}
    <2>1. ASSUME main'.pc = "destroyed" PROVE Destroyed
      <3>1. ~DataAvailable /\ ~Update
        BY <2>1
        DEF DataAvailable, Poll, MessageAvailable, ConnectionEvent, DisconnectionEvent,
            ConnectionDone, DisconnectionDone, WakeUp, Extract, Update, UpdateBegin, UpdateThread,
            UpdateSent, UpdateFailed, UpdateAdvertised, UpdateThreadEnd, UpdateEnd, MainGoes,
            TypeOK, MainState
      <3>2. ~UserUpdates /\ ~Receive /\ ~MessageDone /\ ~RequireExit /\ ~Destroy
        BY <2>1 DEF UserUpdates, Receive, MessageDone, RequireExit, Destroy, MainGoes, TypeOK,
                    MainState
      <3> QED BY <2>1, <3>1, <3>2, Frame DEF Main
    <2>2. CASE Destroyed
      BY <2>2 DEF Destroyed, TypeOK, TasksOK, Thread
    <2> QED BY <2>1, <2>2
  <1>6. main'.pc \in {"sweep", "sockets", "advertised"} => main'.thread <= pool'
    <2>1. pool \in Nat /\ pool <= pool'
      BY PoolStep, Frame DEF TypeOK, TasksOK
    <2>2. CASE UNCHANGED main
      <3>1. main.thread \in Nat /\ pool' \in Nat
        BY Types DEF TypeOK, TasksOK, MainState, Thread
      <3> QED BY <2>1, <2>2, <3>1
    <2>3. ASSUME main'.pc \in {"sweep", "sockets", "advertised"} PROVE main'.thread <= pool
      <3>1. CASE Update
        <4>1. main.thread \in Nat
          BY DEF TypeOK, MainState, Thread
        <4>2. CASE UpdateBegin \/ UpdateThread
          <5>1. \/ main'.thread = 0
                \/ main.thread < pool /\ main'.thread = main.thread + 1
            BY <4>2 DEF UpdateBegin, UpdateThread, TypeOK, MainState
          <5> QED BY <2>1, <4>1, <5>1
        <4>3. CASE UpdateAdvertised \/ UpdateThreadEnd \/ UpdateEnd
          BY <2>3, <4>3 DEF UpdateAdvertised, UpdateThreadEnd, UpdateEnd, MainGoes, TypeOK,
                            MainState
        <4>4. ASSUME NEW a \in Addr, UpdateSent(a) \/ UpdateFailed(a)
              PROVE  main'.thread <= pool
          BY <4>4 DEF UpdateSent, UpdateFailed, TypeOK, MainState
        <4> QED BY <3>1, <4>2, <4>3, <4>4 DEF Update
      <3>2. ~DataAvailable
        BY <2>3
        DEF DataAvailable, Poll, MessageAvailable, ConnectionEvent, DisconnectionEvent,
            ConnectionDone, DisconnectionDone, WakeUp, Extract, MainGoes, TypeOK, MainState
      <3>3. ~UserUpdates /\ ~Receive /\ ~MessageDone /\ ~RequireExit /\ ~Destroy /\ ~Destroyed
        BY <2>3 DEF UserUpdates, Receive, MessageDone, RequireExit, Destroy, Destroyed, MainGoes,
                    TypeOK, MainState
      <3> QED BY <2>3, <3>1, <3>2, <3>3, Frame DEF Main
    <2>4. pool' \in Nat /\ main' \in MainState
      BY Types DEF TypeOK, TasksOK
    <2> QED BY <2>1, <2>3, <2>4 DEF MainState, Thread
  <1>7. main'.pc \in {"sockets", "advertised", "wakeup"} => main'.thread \in Thread
    <2>1. CASE UNCHANGED main
      BY <2>1
    <2>2. CASE Update
      <3>1. CASE UpdateThread
        <4>1. main.thread + 1 \in Thread
          BY <3>1, ServerAssumption DEF UpdateThread, TypeOK, TasksOK, MainState, Thread
        <4> QED BY <3>1, <4>1 DEF UpdateThread, TypeOK, MainState
      <3>2. CASE UpdateBegin \/ UpdateAdvertised \/ UpdateThreadEnd \/ UpdateEnd
        BY <3>2 DEF UpdateBegin, UpdateAdvertised, UpdateThreadEnd, UpdateEnd, MainGoes, TypeOK,
                    MainState
      <3>3. ASSUME NEW a \in Addr, UpdateSent(a) \/ UpdateFailed(a)
            PROVE  main'.thread \in Thread
        BY <3>3 DEF UpdateSent, UpdateFailed, TypeOK, MainState
      <3> QED BY <2>2, <3>1, <3>2, <3>3 DEF Update
    <2>3. CASE DataAvailable
      BY <2>3
      DEF DataAvailable, Poll, MessageAvailable, ConnectionEvent, DisconnectionEvent,
          ConnectionDone, DisconnectionDone, WakeUp, Extract, MainGoes, TypeOK, MainState
    <2>4. CASE UserUpdates \/ Receive \/ MessageDone \/ RequireExit \/ Destroy \/ Destroyed
      BY <2>4 DEF UserUpdates, Receive, MessageDone, RequireExit, Destroy, Destroyed, MainGoes,
                  TypeOK, MainState
    <2> QED BY <2>1, <2>2, <2>3, <2>4, Frame DEF Main
  <1> QED BY <1>2, <1>3, <1>4, <1>5, <1>6, <1>7

(* The event the main thread handles stays at the front of the queue: the  *)
(* other threads only append.                                              *)
LEMMA QueueStep ==
  ASSUME IInv, [Next]_vars
  PROVE  \/ UNCHANGED << queue, available >>
         \/ /\ Extract \/ Receive
            /\ queue # << >> /\ queue' = Tail(queue) /\ available' = (queue' # << >>)
         \/ \E e \in Event :
              /\ queue' = Append(queue, e) /\ available' = TRUE
              /\ \/ \E c \in Connection, a \in Addr :
                      Accept(c, a) /\ e = [type |-> "Connection", sock |-> a, conn |-> c]
                 \/ \E t \in Thread, a \in Addr :
                      RecvMessage(t, a) /\ a \in connections[t] /\ sock[a].conn \in Connection
                      /\ e = Of("User", a)
                 \/ \E a \in Addr :
                      UpdateFailed(a) /\ a \in connections[main.thread] /\ sock[a].know
                      /\ sock[a].conn \in Connection /\ e = Of("Disconnection", a)
PROOF
  <1> USE DEF IInv, PushMessage
  <1>1. ASSUME NEW c \in Connection, NEW a \in Addr, Accept(c, a)
        PROVE  [type |-> "Connection", sock |-> a, conn |-> c] \in Event
    BY DEF Event
  <1>2. CASE \E c \in Connection, a \in Addr : Accept(c, a)
    <2>1. PICK c \in Connection, a \in Addr : Accept(c, a)
      BY <1>2
    <2>2. /\ queue' = Append(queue, [type |-> "Connection", sock |-> a, conn |-> c])
          /\ available' = TRUE
      BY <2>1 DEF Accept
    <2> QED BY <1>1, <2>1, <2>2
  <1>3. ASSUME NEW t \in Thread, NEW a \in Addr, RecvMessage(t, a)
        PROVE  /\ a \in connections[t] /\ sock[a].conn \in Connection /\ Of("User", a) \in Event
               /\ queue' = Append(queue, Of("User", a)) /\ available' = TRUE
    <2>1. main.pc # "destroyed" /\ Works(t) /\ a \in recv[t].ready
      BY <1>3 DEF RecvMessage, ThreadsInv, Works
    <2> QED BY <1>3, <2>1, ServedSockets, OfTypes DEF RecvMessage
  <1>4. CASE Extract \/ Receive
    BY <1>4, FrontTypes DEF Extract, Receive, PopMessage, EventInv
  <1>5. ASSUME NEW a \in Addr, UpdateFailed(a), ~UNCHANGED << queue, available >>
        PROVE  /\ a \in connections[main.thread] /\ sock[a].know /\ sock[a].conn \in Connection
               /\ Of("Disconnection", a) \in Event
               /\ queue' = Append(queue, Of("Disconnection", a)) /\ available' = TRUE
    <2>1. main.thread \in Thread /\ a \in connections[main.thread] /\ sock[a].conn \in Connection
      BY <1>5, ServedSockets DEF UpdateFailed, ThreadsInv
    <2> QED BY <1>5, <2>1, OfTypes DEF UpdateFailed
  <1> QED BY <1>2, <1>3, <1>4, <1>5, Frame

(* Appending to a queue that is not empty leaves its front alone.          *)
LEMMA HeadOfAppend ==
  ASSUME TypeOK, queue # << >>, NEW e \in Event
  PROVE  Append(queue, e) # << >> /\ Head(Append(queue, e)) = Head(queue)
  BY FrontTypes DEF TypeOK, QueueOK

(* So the event that is handled is still the front of the queue.           *)
LEMMA EventKept ==
  ASSUME IInv, [Next]_vars
  PROVE  EventInv'
PROOF
  <1> USE DEF IInv, EventInv
  <1>1. CASE UNCHANGED main
    <2>1. ~Extract /\ ~Receive
      BY <1>1 DEF Extract, Receive, EventInv, TypeOK, MainState
    <2> QED BY <1>1, <2>1, QueueStep, HeadOfAppend
  <1>2. CASE UserUpdates \/ MessageDone \/ RequireExit \/ Destroy \/ Destroyed
    BY <1>2 DEF UserUpdates, MessageDone, RequireExit, Destroy, Destroyed, MainGoes, TypeOK,
                MainState
  <1>3. CASE Receive
    BY <1>3, FrontTypes DEF Receive, TypeOK, MainState
  <1>4. CASE Poll
    BY <1>4 DEF Poll, MainGoes, TypeOK, MainState, PipeAccounting
  <1>5. CASE MessageAvailable \/ ConnectionEvent \/ DisconnectionEvent \/ ConnectionDone
    BY <1>5 DEF MessageAvailable, ConnectionEvent, DisconnectionEvent, ConnectionDone, MainGoes,
                TypeOK, MainState
  <1>6. CASE DisconnectionDone \/ WakeUp \/ Extract
    BY <1>6 DEF DisconnectionDone, WakeUp, Extract, TypeOK, MainState
  <1>7. CASE UpdateBegin \/ UpdateThread \/ UpdateThreadEnd \/ UpdateEnd \/ UpdateAdvertised
    BY <1>7 DEF UpdateBegin, UpdateThread, UpdateThreadEnd, UpdateEnd, UpdateAdvertised, MainGoes,
                TypeOK, MainState
  <1>8. ASSUME NEW a \in Addr, UpdateSent(a) \/ UpdateFailed(a)
        PROVE  EventInv'
    <2>1. Of("Disconnection", a) \in Event /\ Of("Disconnection", a).type = "Disconnection"
      BY <1>8, ServedSockets, OfTypes DEF UpdateSent, UpdateFailed, ThreadsInv
    <2> QED BY <1>8, <2>1 DEF UpdateSent, UpdateFailed, TypeOK, MainState
  <1> QED
    BY <1>1, <1>2, <1>3, <1>4, <1>5, <1>6, <1>7, <1>8, Frame DEF Main, DataAvailable, Update

-----------------------------------------------------------------------------
(* The bytes of the data available pipe: who is about to write one, and    *)
(* whether the main thread has read that of the event at the front.        *)
Pushing == {t \in Thread : recv[t].pc = "pushed"}
Advertises(pc) == IF pc = "advertised" THEN 1 ELSE 0
HasRead == IF main.pc \in {"receive", "callback", "wakeup", "extract"} THEN 1 ELSE 0

(* How the number of receive threads that owe a byte changes.              *)
LEMMA PushingCount ==
  ASSUME IInv, [Next]_vars
  PROVE  /\ Cardinality(Pushing) \in Nat /\ Cardinality(Pushing') \in Nat
         /\ \A t \in Thread, a \in Addr :
              RecvMessage(t, a) => Cardinality(Pushing') = Cardinality(Pushing) + 1
         /\ \A t \in Thread :
              RecvPushed(t) => Cardinality(Pushing') = Cardinality(Pushing) - 1
         /\ \/ Pushing' = Pushing
            \/ \E t \in Thread : RecvPushed(t) \/ \E a \in Addr : RecvMessage(t, a)
PROOF
  <1> USE DEF IInv, TypeOK
  <1>1. IsFiniteSet(Pushing) /\ IsFiniteSet(Pushing')
    <2>1. IsFiniteSet(Thread)
      BY FS_Interval, ServerAssumption DEF Thread
    <2> QED BY <2>1, FS_Subset DEF Pushing
  <1>2. ASSUME NEW t \in Thread, NEW a \in Addr, RecvMessage(t, a)
        PROVE  Cardinality(Pushing') = Cardinality(Pushing) + 1
    <2>1. t \notin Pushing /\ Pushing' = Pushing \union {t}
      BY <1>2 DEF RecvMessage, Pushing, RecvState
    <2> QED BY <1>1, <2>1, FS_AddElement
  <1>3. ASSUME NEW t \in Thread, RecvPushed(t)
        PROVE  Cardinality(Pushing') = Cardinality(Pushing) - 1
    <2>1. t \in Pushing /\ Pushing' = Pushing \ {t}
      BY <1>3 DEF RecvPushed, GoTo, Pushing, RecvState
    <2> QED BY <1>1, <2>1, FS_RemoveElement
  <1>4. ASSUME DispatchEnd
        PROVE  Pushing' = Pushing
    <2> DEFINE t == sock[listen.sock].owner
    <2>1. CASE t > pool
      <3>1. recv' = [recv EXCEPT ![t].pc = "clear"]
        BY <1>4, <2>1 DEF DispatchEnd
      <3>2. t \in Thread => recv[t].pc = "off" /\ recv'[t].pc = "clear"
        BY <2>1, <3>1 DEF ThreadsInv, RecvState
      <3> HIDE DEF t
      <3>3. \A u \in Thread : u # t => recv'[u] = recv[u]
        BY <3>1
      <3> QED BY <3>2, <3>3 DEF Pushing
    <2>2. CASE ~(t > pool)
      BY <1>4, <2>2 DEF DispatchEnd, Pushing
    <2> QED BY <2>1, <2>2
  <1>5. ASSUME NEW t \in Thread, ReceiveThread(t) \/ RecvInterrupted(t), ~RecvPushed(t),
               \A a \in Addr : ~RecvMessage(t, a)
        PROVE  Pushing' = Pushing
    <2>1. \A u \in Thread : u # t => recv'[u] = recv[u]
      BY <1>5, RecvStep
    <2>2. recv[t].pc # "pushed" /\ recv'[t].pc # "pushed"
      BY <1>5, RecvStep
    <2> QED BY <2>1, <2>2 DEF Pushing
  <1>6. ASSUME UNCHANGED recv
        PROVE  Pushing' = Pushing
    BY <1>6 DEF Pushing
  <1> QED BY <1>1, <1>2, <1>3, <1>4, <1>5, <1>6, FS_CardinalityType, Frame

(* The bytes of the pipe are those of the events of the queue.             *)
LEMMA PipeKept ==
  ASSUME IInv, [Next]_vars
  PROVE  PipeAccounting'
PROOF
  <1> DEFINE n == Cardinality(Pushing)
             l == Advertises(listen.pc)
             m == Advertises(main.pc)
  <1> USE DEF IInv, Advertises, HasRead
  <1>1. available' <=> queue' # << >>
    <2>1. \A e \in Event : Append(queue, e) # << >>
      BY DEF TypeOK, QueueOK
    <2>2. \/ UNCHANGED << queue, available >>
          \/ available' = (queue' # << >>)
          \/ \E e \in Event : queue' = Append(queue, e) /\ available' = TRUE
      BY QueueStep
    <2>3. CASE UNCHANGED << queue, available >>
      BY <2>3 DEF PipeAccounting
    <2>4. CASE available' = (queue' # << >>)
      BY <2>4
    <2>5. ASSUME NEW e \in Event, queue' = Append(queue, e), available' = TRUE
          PROVE  available' <=> queue' # << >>
      BY <2>1, <2>5
    <2> QED BY <2>2, <2>3, <2>4, <2>5
  <1>2. pipe + l + m + n + HasRead = Len(queue)
    BY DEF PipeAccounting, Pushing
  <1>3. /\ pipe \in Nat /\ pipe' \in Nat /\ Len(queue) \in Nat /\ n \in Nat /\ n' \in Nat
        /\ \A e \in Event : Len(Append(queue, e)) = Len(queue) + 1
        /\ {l, l', m, m', HasRead, HasRead'} \subseteq {0, 1}
    BY Types, PushingCount, LenProperties, ServerAssumption DEF TypeOK, QueueOK
  <1> USE DEF Pushing
  <1> SUFFICES pipe' + l' + m' + n' + HasRead' = Len(queue')
    BY <1>1 DEF PipeAccounting
  <1> HIDE DEF IInv, n, Pushing
  <1>4. ASSUME UNCHANGED << pipe, queue, l, m, n, HasRead >>
        PROVE  pipe' + l' + m' + n' + HasRead' = Len(queue')
    BY <1>2, <1>4
  <1>5. ASSUME NEW c \in Connection, NEW a \in Addr, Accept(c, a)
        PROVE  pipe' + l' + m' + n' + HasRead' = Len(queue')
    <2>1. UNCHANGED << pipe, main, recv >> /\ l = 0 /\ l' = 1 /\ n' = n
      BY <1>5 DEF Accept, tasks, n, Pushing
    <2>2. Len(queue') = Len(queue) + 1
      <3>1. [type |-> "Connection", sock |-> a, conn |-> c] \in Event
        BY DEF Event
      <3> QED BY <1>3, <1>5, <3>1 DEF Accept, PushMessage
    <2> QED BY <1>2, <1>3, <2>1, <2>2
  <1>6. ASSUME NEW t \in Thread, NEW a \in Addr, RecvMessage(t, a)
        PROVE  pipe' + l' + m' + n' + HasRead' = Len(queue')
    <2>1. UNCHANGED << pipe, main, listen >> /\ n' = n + 1
      BY <1>6, PushingCount DEF RecvMessage, n
    <2>2. Len(queue') = Len(queue) + 1
      BY <1>3, <1>6, OfTypes, ServedSockets
      DEF RecvMessage, PushMessage, IInv, ThreadsInv, Works
    <2> QED BY <1>2, <1>3, <2>1, <2>2
  <1>7. ASSUME NEW t \in Thread, RecvPushed(t)
        PROVE  pipe' + l' + m' + n' + HasRead' = Len(queue')
    <2>1. UNCHANGED << queue, main, listen >> /\ n' = n - 1 /\ pipe' = pipe + 1
      BY <1>7, PushingCount DEF RecvPushed, n, WritePipe
    <2> QED BY <1>2, <1>3, <2>1
  <1>8. CASE ListenAdvertised
    <2>1. UNCHANGED << queue, main, recv >> /\ pipe' = pipe + 1 /\ l = 1 /\ l' = 0 /\ n' = n
      BY <1>8 DEF ListenAdvertised, WritePipe, IInv, TypeOK, ListenState, n, Pushing
    <2> QED BY <1>2, <1>3, <2>1
  <1>9. ASSUME n' = n
        PROVE  Main \/ Destroy => pipe' + l' + m' + n' + HasRead' = Len(queue')
    <2> USE DEF MainGoes, IInv, TypeOK, MainState
    <2>1. CASE MessageAvailable \/ ConnectionEvent \/ DisconnectionEvent
      <3>1. /\ UNCHANGED << queue, l >> /\ pipe' = pipe - 1
            /\ m = 0 /\ m' = 0 /\ HasRead = 0 /\ HasRead' = 1
        BY <2>1 DEF MessageAvailable, ConnectionEvent, DisconnectionEvent, ReadPipe
      <3> HIDE DEF IInv, HasRead, l, m
      <3> QED BY <1>2, <1>3, <1>9, <3>1
    <2>2. CASE Extract \/ Receive
      <3>1. /\ UNCHANGED << pipe, l >> /\ m = 0 /\ m' = 0 /\ HasRead = 1 /\ HasRead' = 0
            /\ queue' = Tail(queue) /\ queue # << >>
        BY <2>2 DEF Extract, Receive, PopMessage, EventInv
      <3>2. Len(queue') = Len(queue) - 1
        BY <3>1, FrontTypes
      <3> HIDE DEF IInv, HasRead, l, m
      <3> QED BY <1>2, <1>3, <1>9, <3>1, <3>2
    <2>3. CASE UpdateAdvertised
      <3>1. /\ UNCHANGED << queue, l >> /\ pipe' = pipe + 1
            /\ m = 1 /\ m' = 0 /\ HasRead = 0 /\ HasRead' = 0
        BY <2>3 DEF UpdateAdvertised, WritePipe
      <3> HIDE DEF IInv, HasRead, l, m
      <3> QED BY <1>2, <1>3, <1>9, <3>1
    <2>4. ASSUME NEW a \in Addr, UpdateFailed(a)
          PROVE  pipe' + l' + m' + n' + HasRead' = Len(queue')
      <3>1. CASE sock[a].know
        <4>1. UNCHANGED << pipe, l >> /\ m = 0 /\ m' = 1 /\ HasRead = 0 /\ HasRead' = 0
          BY <2>4, <3>1 DEF UpdateFailed
        <4>2. Len(queue') = Len(queue) + 1
          BY <1>3, <2>4, <3>1, OfTypes, ServedSockets
          DEF UpdateFailed, PushMessage, ThreadsInv
        <4> HIDE DEF IInv, HasRead, l, m
        <4> QED BY <1>2, <1>3, <1>9, <4>1, <4>2
      <3>2. CASE ~sock[a].know
        BY <1>4, <1>9, <2>4, <3>2 DEF UpdateFailed
      <3> QED BY <3>1, <3>2
    <2>5. CASE UserUpdates \/ MessageDone \/ RequireExit \/ Destroyed \/ Destroy
      BY <1>4, <1>9, <2>5 DEF UserUpdates, MessageDone, RequireExit, Destroyed, Destroy
    <2>6. CASE Poll \/ ConnectionDone \/ DisconnectionDone \/ WakeUp
      BY <1>4, <1>9, <2>6 DEF Poll, ConnectionDone, DisconnectionDone, WakeUp
    <2>7. CASE UpdateBegin \/ UpdateThread \/ UpdateThreadEnd \/ UpdateEnd
      BY <1>4, <1>9, <2>7 DEF UpdateBegin, UpdateThread, UpdateThreadEnd, UpdateEnd
    <2>8. ASSUME NEW a \in Addr, UpdateSent(a)
          PROVE  pipe' + l' + m' + n' + HasRead' = Len(queue')
      BY <1>4, <1>9, <2>8 DEF UpdateSent
    <2> QED
      BY <2>1, <2>2, <2>3, <2>4, <2>5, <2>6, <2>7, <2>8 DEF Main, DataAvailable, Update
  <1>10. CASE DispatchEnd \/ ListenExits \/ Counting \/ \E t \in Thread : Dispatch(t)
    <2>1. UNCHANGED << pipe, queue, main >> /\ l = 0 /\ l' = 0
      BY <1>10, CountingStep DEF DispatchEnd, ListenExits, Dispatch, IInv, TypeOK, ListenState
    <2>2. n' = n
      <3>1. listen' # listen
        <4>1. CASE DispatchEnd \/ ListenExits \/ DispatchBegin \/ \E t \in Thread : Dispatch(t)
          BY <4>1 DEF DispatchEnd, ListenExits, DispatchBegin, Dispatch, IInv, TypeOK, ListenState
        <4>2. CASE DispatchCount
          <5>1. /\ Len(listen'.counts) = Len(listen.counts) + 1
                /\ Len(listen.counts) \in Nat
            BY <4>2, AppendProperties DEF DispatchCount, IInv, TypeOK, ListenState
          <5> QED BY <5>1
        <4> QED BY <1>10, <4>1, <4>2 DEF Counting
      <3>2. \A t \in Thread : ~RecvPushed(t) /\ \A a \in Addr : ~RecvMessage(t, a)
        BY <3>1 DEF RecvPushed, RecvMessage
      <3> QED BY <3>2, PushingCount DEF n
    <2> QED BY <1>4, <2>1, <2>2
  <1>11. CASE UNCHANGED << pipe, queue, main, listen >> /\ Pushing' = Pushing
    BY <1>4, <1>11 DEF n
  <1>12. Main \/ Destroy => n' = n
    <2>1. ASSUME Main \/ Destroy PROVE UNCHANGED recv
      BY <2>1
      DEF Main, Destroy, UserUpdates, Receive, MessageDone, RequireExit, Destroyed, DataAvailable,
          Update, Poll, MessageAvailable, ConnectionEvent, DisconnectionEvent, ConnectionDone,
          DisconnectionDone, WakeUp, Extract, UpdateBegin, UpdateThread, UpdateSent, UpdateFailed,
          UpdateAdvertised, UpdateThreadEnd, UpdateEnd
    <2> QED BY <2>1 DEF n, Pushing
  <1> QED
    BY <1>5, <1>6, <1>7, <1>8, <1>9, <1>10, <1>11, <1>12, Frame, PushingCount DEF Main,
       DataAvailable, Update

-----------------------------------------------------------------------------
(* Sockets and their owners.                                               *)

(* Only advertiseDisconnection sends a socket to the set of the sockets to *)
(* remove, so that one that has just been dealt out is in none.            *)
LEMMA NewIsKept ==
  ASSUME IInv, listen.pc = "wake", NEW t \in Thread
  PROVE  listen.sock \notin removeSet[t]
PROOF
  <1> SUFFICES ASSUME listen.sock \in removeSet[t] PROVE FALSE
    OBVIOUS
  <1>1. /\ main.pc \notin {"sweep", "sockets", "advertised", "joining", "destroyed"}
        /\ listen.sock \in Addr
    BY DEF IInv, ThreadsInv
  <1>2. Told(sock[listen.sock].conn, "Disconnection") /\ sock[listen.sock].conn # 0
    BY <1>1 DEF IInv, RemoveInv, OwnerInv, OwnedInv, Dealt
  <1> QED BY <1>1, <1>2 DEF IInv, KnowInv, Before

(* A server that is not destroyed after a step was not before it.          *)
LEMMA OwnerStep ==
  ASSUME IInv, [Next]_vars, main'.pc # "destroyed"
  PROVE  /\ main.pc # "destroyed" /\ ~Destroyed
         /\ main.pc = "advertised" => main.event.sock \in Addr
         /\ UNCHANGED removeSet \/ (\E t \in Thread : RecvDelete(t)) \/ DisconnectionDone
PROOF
  <1>1. main.pc # "destroyed"
    BY Ended
  <1>2. ~Destroyed
    BY DEF Destroyed, MainGoes, IInv, TypeOK, MainState
  <1> QED BY <1>1, <1>2, Frame DEF IInv, EventInv, Event

(* Every object is in the list of its owner, or in the hands of the listen *)
(* thread.                                                                 *)
LEMMA OwnedKept ==
  ASSUME IInv, [Next]_vars, main'.pc # "destroyed"
  PROVE  OwnedInv'
PROOF
  <1>1. Listed /\ Held /\ Accepted /\ Dealt /\ Unused /\ TypeOK /\ main.pc # "destroyed"
    BY OwnerStep DEF IInv, OwnerInv, OwnedInv
  <1>2. ASSUME NEW c \in Connection, NEW a \in Addr, Accept(c, a)
        PROVE  OwnedInv'
    <2>1. UNCHANGED << connections, pool >> /\ listen.pc = "accept"
          /\ listen'.pc = "advertised" /\ listen'.sock = a
      BY <1>1, <1>2 DEF Accept, tasks, TypeOK, ListenState
    <2>2. \A t \in Thread : a \notin connections[t]
      BY <1>1, <1>2, AcceptFields DEF Listed
    <2>3. /\ sock'[a].conn # 0 /\ sock'[a].owner = 0
          /\ \A b \in Addr : b # a => sock'[b] = sock[b]
      BY <1>1, <1>2, AcceptFields, ServerAssumption DEF Connection
    <2>4. connections \in [Thread -> SUBSET Addr]
      BY <1>1 DEF TypeOK, TasksOK
    <2>5. Listed'
      BY <1>1, <2>1, <2>2, <2>3, <2>4 DEF Listed
    <2>6. Held'
      BY <1>1, <2>1, <2>3 DEF Held, Fresh
    <2>7. Accepted' /\ Dealt' /\ Unused'
      BY <1>1, <2>1, <2>3 DEF Accepted, Dealt, Unused, Fresh
    <2> QED BY <2>5, <2>6, <2>7 DEF OwnedInv
  <1>3. CASE ListenAdvertised
    <2>1. /\ UNCHANGED << connections, pool >> /\ listen.pc = "advertised"
          /\ listen'.pc = "dispatch" /\ listen'.sock = listen.sock /\ listen.sock \in Addr
      BY <1>1, <1>3 DEF ListenAdvertised, tasks, TypeOK, ListenState, IInv, ThreadsInv
    <2>2. \A a \in Addr : sock'[a].conn = sock[a].conn /\ sock'[a].owner = sock[a].owner
      BY <1>1, <1>3, <2>1, KnowFields DEF ListenAdvertised
    <2>3. \A a \in Addr : Fresh(a)' <=> Fresh(a)
      BY <2>1 DEF Fresh
    <2>4. connections \in [Thread -> SUBSET Addr]
      BY <1>1 DEF TypeOK, TasksOK
    <2>5. Listed' /\ Accepted' /\ Held'
      BY <1>1, <2>1, <2>2, <2>3, <2>4 DEF Listed, Accepted, Held
    <2>6. Dealt' /\ Unused'
      BY <1>1, <2>1 DEF Dealt, Unused
    <2> QED BY <2>5, <2>6 DEF OwnedInv
  <1>4. ASSUME NEW t \in Thread, Dispatch(t)
        PROVE  OwnedInv'
    <2>1. /\ UNCHANGED pool /\ listen.pc = "count"
          /\ listen'.pc = "wake" /\ listen'.sock = listen.sock /\ listen.sock \in Addr
      BY <1>1, <1>4 DEF Dispatch, TypeOK, ListenState, IInv, ThreadsInv
    <2>2. t \in 1 .. pool + 1 /\ pool \in Nat /\ \A u \in Thread : u \in Nat
      BY <1>1, <1>4, TargetInRange DEF Dispatch, IInv, TypeOK, TasksOK, Thread
    <2>3. connections \in [Thread -> SUBSET Addr] /\ connections' \in [Thread -> SUBSET Addr]
      BY <1>1, Types DEF TypeOK, TasksOK
    <2>4. /\ sock'[listen.sock].owner = t
          /\ \A a \in Addr : sock'[a].conn = sock[a].conn /\ sock'[a].know = sock[a].know
          /\ \A a \in Addr : a # listen.sock => sock'[a] = sock[a]
          /\ connections'[t] = connections[t] \union {listen.sock}
          /\ \A u \in Thread : u # t => connections'[u] = connections[u]
      BY <1>1, <1>4, <2>1, DispatchFields
    <2>5. sock[listen.sock].conn # 0 /\ sock[listen.sock].owner = 0 /\ 0 \notin Thread
      BY <1>1, <2>1 DEF Accepted, Held, Fresh, Thread
    <2>6. \A u \in Thread : listen.sock \notin connections[u]
      BY <1>1, <2>5 DEF Listed
    <2>7. Listed'
      BY <1>1, <2>3, <2>4, <2>5, <2>6 DEF Listed
    <2>8. Held'
      <3> SUFFICES ASSUME NEW a \in Addr, sock'[a].conn # 0
                   PROVE  sock'[a].owner \in Thread /\ a \in connections'[sock'[a].owner]
        BY <2>1 DEF Held, Fresh
      <3>1. CASE a = listen.sock
        BY <2>4, <3>1
      <3>2. CASE a # listen.sock
        <4>1. sock[a].conn # 0 /\ sock'[a].owner = sock[a].owner /\ ~Fresh(a)
          BY <2>4, <3>2 DEF Fresh
        <4>2. sock[a].owner \in Thread /\ a \in connections[sock[a].owner]
          BY <1>1, <4>1 DEF Held
        <4>3. \A u \in Thread : connections[u] \subseteq connections'[u]
          BY <2>4
        <4> QED BY <4>1, <4>2, <4>3
      <3> QED BY <3>1, <3>2
    <2>9. Accepted' /\ Dealt'
      BY <2>1, <2>2, <2>4, <2>5 DEF Accepted, Dealt, Fresh
    <2>10. Unused'
      <3>1. \A u \in Thread : u > pool => connections[u] = {}
        BY <1>1, <2>1 DEF Unused
      <3> QED BY <2>1, <2>4, <3>1 DEF Unused
    <2> QED BY <2>7, <2>8, <2>9, <2>10 DEF OwnedInv
  <1>5. CASE DispatchEnd
    <2>1. /\ UNCHANGED << connections, sock >> /\ listen.pc = "wake"
          /\ listen'.pc \in {"accept", "ended"}
      BY <1>1, <1>5 DEF DispatchEnd, TypeOK, ListenState
    <2>2. ASSUME NEW t \in Thread, t > pool', connections[t] # {}
          PROVE  FALSE
      <3>1. pool' \in Nat /\ pool \in Nat /\ t \in Nat
        BY Types DEF IInv, TypeOK, TasksOK, Thread
      <3>2. pool <= pool' /\ (sock[listen.sock].owner > pool => pool' = sock[listen.sock].owner)
        BY <1>5, <3>1, PoolStep
      <3>3. t > pool
        BY <2>2, <3>1, <3>2
      <3>4. t = sock[listen.sock].owner
        BY <1>1, <2>2, <3>3 DEF Unused
      <3> QED BY <2>2, <3>1, <3>2, <3>3, <3>4
    <2>3. Unused'
      BY <2>1, <2>2 DEF Unused
    <2>4. Listed' /\ Accepted' /\ Dealt'
      BY <1>1, <2>1 DEF Listed, Accepted, Dealt, Fresh
    <2>5. Held'
      BY <1>1, <2>1 DEF Held, Fresh
    <2> QED BY <2>3, <2>4, <2>5 DEF OwnedInv
  <1>6. ASSUME NEW t \in Thread, RecvDelete(t)
        PROVE  OwnedInv'
    <2>1. UNCHANGED << pool, listen >>
      BY <1>6 DEF RecvDelete
    <2>2. listen.pc = "wake" => listen.sock \notin removeSet[t] /\ listen.sock \in Addr
      BY NewIsKept DEF IInv, ThreadsInv
    <2>3. /\ removeSet[t] \subseteq connections[t] /\ Freed.conn = 0
          /\ connections \in [Thread -> SUBSET Addr]
      BY <1>1 DEF IInv, OwnerInv, RemoveListed, Freed, TypeOK, TasksOK
    <2>4. /\ \A a \in removeSet[t] : sock'[a].conn = 0
          /\ \A a \in Addr : a \notin removeSet[t] => sock'[a] = sock[a]
          /\ connections'[t] = connections[t] \ removeSet[t]
          /\ \A u \in Thread : u # t => connections'[u] = connections[u]
      BY <1>1, <1>6, <2>3, DeleteFields
    <2>5. \A u \in Thread : \A a \in connections'[u] : a \in connections[u] /\ a \notin removeSet[t]
      BY <1>1, <2>3, <2>4 DEF Listed
    <2>6. Listed'
      BY <1>1, <2>3, <2>4, <2>5 DEF Listed
    <2>7. ASSUME NEW a \in Addr, sock'[a].conn # 0
          PROVE  a \notin removeSet[t] /\ sock'[a] = sock[a]
      BY <2>4, <2>7
    <2>8. Held'
      BY <1>1, <2>1, <2>4, <2>7 DEF Held, Fresh
    <2>9. ASSUME NEW a \in Addr, Fresh(a)
          PROVE  sock'[a].conn # 0
      <3>1. sock[a].conn # 0 /\ sock[a].owner = 0
        BY <1>1, <2>9 DEF Accepted, Held
      <3>2. a \notin connections[t]
        BY <1>1, <3>1 DEF Listed, Thread
      <3> QED BY <2>3, <2>4, <3>1, <3>2
    <2>10. Accepted' /\ Dealt'
      BY <1>1, <2>1, <2>2, <2>4, <2>9 DEF Accepted, Dealt, Fresh
    <2>11. Unused'
      <3>1. \A u \in Thread : connections'[u] # {} => connections[u] # {}
        BY <2>5
      <3> QED BY <1>1, <2>1, <2>2, <2>4, <3>1 DEF Unused
    <2> QED BY <2>6, <2>8, <2>10, <2>11 DEF OwnedInv
  <1>7. ASSUME UNCHANGED << connections, pool, listen >>,
               \A a \in Addr : sock'[a].conn = sock[a].conn /\ sock'[a].owner = sock[a].owner
        PROVE  OwnedInv'
    <2>1. connections \in [Thread -> SUBSET Addr] /\ (listen.pc = "wake" => listen.sock \in Addr)
      BY <1>1 DEF TypeOK, TasksOK, IInv, ThreadsInv
    <2>2. Listed' /\ Accepted'
      BY <1>1, <1>7, <2>1 DEF Listed, Accepted, Fresh
    <2>3. Held'
      BY <1>1, <1>7 DEF Held, Fresh
    <2>4. Dealt' /\ Unused'
      BY <1>1, <1>7, <2>1 DEF Dealt, Unused
    <2> QED BY <2>2, <2>3, <2>4 DEF OwnedInv
  <1>8. CASE UpdateAdvertised
    <2>1. UNCHANGED << connections, pool, listen >> /\ main.event.sock \in Addr
      BY <1>8, OwnerStep DEF UpdateAdvertised, tasks
    <2>2. \A a \in Addr : sock'[a].conn = sock[a].conn /\ sock'[a].owner = sock[a].owner
      BY <1>1, <1>8, <2>1, KnowFields DEF UpdateAdvertised
    <2> QED BY <1>7, <2>1, <2>2
  <1>9. CASE ListenExits
    <2>1. /\ UNCHANGED << connections, pool, sock >> /\ listen.pc = "accept"
          /\ listen'.pc = "ended"
      BY <1>1, <1>9 DEF ListenExits, tasks, TypeOK, ListenState
    <2>2. Held'
      BY <1>1, <2>1 DEF Held, Fresh
    <2> QED BY <1>1, <2>1, <2>2 DEF OwnedInv, Listed, Accepted, Dealt, Unused, Fresh
  <1>10. \/ FieldsKept /\ UNCHANGED << connections, pool, listen >>
         \/ \E c \in Connection, a \in Addr : Accept(c, a)
         \/ \E t \in Thread : Dispatch(t)
         \/ \E t \in Thread : RecvDelete(t)
         \/ ListenAdvertised \/ Counting \/ DispatchEnd \/ UpdateAdvertised \/ ListenExits
    BY <1>1, Frame, Fields, OwnerStep
  <1>11. CASE FieldsKept /\ UNCHANGED << connections, pool, listen >>
    BY <1>7, <1>11 DEF FieldsKept
  <1>12. CASE Counting
    <2>1. /\ UNCHANGED << connections, pool, sock >> /\ listen.pc \in {"dispatch", "count"}
          /\ listen'.pc = "count" /\ listen'.sock = listen.sock
      BY <1>1, <1>12, CountingStep
    <2>2. \A a \in Addr : Fresh(a)' <=> Fresh(a)
      BY <2>1 DEF Fresh
    <2>3. Held' /\ Accepted' /\ Listed'
      BY <1>1, <2>1, <2>2 DEF Held, Accepted, Listed
    <2>4. Dealt' /\ Unused'
      BY <1>1, <2>1 DEF Dealt, Unused
    <2> QED BY <2>3, <2>4 DEF OwnedInv
  <1> QED
    BY <1>2, <1>3, <1>4, <1>5, <1>6, <1>8, <1>9, <1>10, <1>11, <1>12

(* A socket goes to the set of those to remove from the connections of its *)
(* owner, as its event is still alive.                                     *)
LEMMA RemoveListedKept ==
  ASSUME IInv, [Next]_vars, main'.pc # "destroyed"
  PROVE  RemoveListed'
PROOF
  <1>1. RemoveListed /\ TypeOK /\ main.pc # "destroyed"
    BY OwnerStep DEF IInv, OwnerInv
  <1>2. ASSUME NEW t \in Thread, RecvDelete(t)
        PROVE  RemoveListed'
    BY <1>1, <1>2, DeleteFields DEF RemoveListed
  <1>3. ASSUME NEW t \in Thread, Dispatch(t)
        PROVE  RemoveListed'
    <2>1. listen.sock \in Addr /\ UNCHANGED removeSet
      BY <1>3 DEF Dispatch, IInv, ThreadsInv
    <2> QED BY <1>1, <1>3, <2>1, DispatchFields DEF RemoveListed
  <1>4. CASE DisconnectionDone
    <2> DEFINE a == main.event.sock
               t == sock[a].owner
    <2>1. main.event \in Event /\ Alive(main.event)
      BY <1>1, <1>4, FrontTypes DEF DisconnectionDone, IInv, EventInv, AliveInv
    <2>2. a \in Addr /\ sock[a].conn # 0 /\ t \in Thread
      BY <1>4, <2>1 DEF DisconnectionDone, Alive, Event, Connection
    <2>3. a \in connections[t]
      BY <1>1, <2>2 DEF IInv, OwnerInv, OwnedInv, Held, Thread
    <2>4. UNCHANGED connections /\ removeSet' = [removeSet EXCEPT ![t] = @ \union {a}]
      BY <1>4 DEF DisconnectionDone
    <2> HIDE DEF a, t
    <2> QED BY <1>1, <2>2, <2>3, <2>4 DEF RemoveListed, TypeOK, TasksOK
  <1>5. CASE UNCHANGED << connections, removeSet >>
    BY <1>1, <1>5 DEF RemoveListed
  <1> QED BY <1>2, <1>3, <1>4, <1>5, Frame

(* The copy of the connections that a receive thread works on.             *)
LEMMA WorkListedKept ==
  ASSUME IInv, [Next]_vars, main'.pc # "destroyed"
  PROVE  WorkListed'
PROOF
  <1>1. WorkListed /\ TypeOK /\ main.pc # "destroyed"
    BY OwnerStep DEF IInv, OwnerInv
  <1> SUFFICES ASSUME NEW t \in Thread, Works(t)'
               PROVE  /\ recv'[t].copy \subseteq connections'[t]
                      /\ recv'[t].ready \subseteq recv'[t].copy
    BY DEF WorkListed
  <1>2. CASE ReceiveThread(t) \/ RecvInterrupted(t)
    <2>1. recv[t].pc # "delete" /\ UNCHANGED connections
      <3>1. ~RecvDelete(t)
        <4>1. RecvDelete(t) => recv'[t].pc = "copy"
          BY <1>1 DEF RecvDelete, GoTo, TypeOK, RecvState
        <4> QED BY <4>1 DEF Works
      <3>2. UNCHANGED connections
        BY <1>2, <3>1 DEF ReceiveThread, RecvClear, RecvCopy, RecvSelect, RecvInterrupted,
                          RecvExits, RecvPushed, RecvLoop, RecvMessage, RecvPart, RecvBroken, tasks
      <3> QED BY <1>1, <1>2, <3>1, <3>2, RecvStep
    <2>2. Works(t) => recv[t].copy \subseteq connections[t] /\ recv[t].ready \subseteq recv[t].copy
      BY <1>1 DEF WorkListed
    <2>3. \/ recv'[t].copy \subseteq connections[t] /\ recv'[t].ready = {}
          \/ Works(t) /\ recv'[t].copy = recv[t].copy
             /\ recv'[t].ready \subseteq recv[t].ready \union recv[t].copy
      BY <1>1, <1>2, RecvStep
    <2> QED BY <2>1, <2>2, <2>3
  <1>3. ASSUME recv'[t] = recv[t], connections[t] \subseteq connections'[t]
        PROVE  /\ recv'[t].copy \subseteq connections'[t]
               /\ recv'[t].ready \subseteq recv'[t].copy
    BY <1>1, <1>3 DEF WorkListed, Works
  <1>4. CASE DispatchEnd
    <2>1. UNCHANGED connections /\ recv'[t].pc # "clear"
      BY <1>4 DEF DispatchEnd, Works
    <2>2. recv'[t] = recv[t]
      BY <1>4, <2>1, PoolStep
    <2> QED BY <1>3, <2>1, <2>2
  <1>5. ASSUME NEW u \in Thread, Dispatch(u)
        PROVE  recv'[t] = recv[t] /\ connections[t] \subseteq connections'[t]
    <2>1. listen.sock \in Addr /\ UNCHANGED recv
      BY <1>5 DEF Dispatch, IInv, ThreadsInv
    <2> QED BY <1>1, <1>5, <2>1, DispatchFields
  <1>6. ASSUME NEW u \in Thread, u # t, ReceiveThread(u) \/ RecvInterrupted(u)
        PROVE  recv'[t] = recv[t] /\ connections[t] \subseteq connections'[t]
    <2>1. recv'[t] = recv[t]
      BY <1>1, <1>6, RecvStep
    <2>2. CASE RecvDelete(u)
      BY <1>1, <1>6, <2>1, <2>2, DeleteFields
    <2>3. CASE ~RecvDelete(u)
      BY <1>6, <2>1, <2>3
      DEF ReceiveThread, RecvClear, RecvCopy, RecvSelect, RecvInterrupted, RecvExits, RecvPushed,
          RecvLoop, RecvMessage, RecvPart, RecvBroken, tasks
    <2> QED BY <2>2, <2>3
  <1>7. \/ DispatchEnd
        \/ \E u \in Thread : ReceiveThread(u) \/ RecvInterrupted(u)
        \/ \E u \in Thread : Dispatch(u)
        \/ UNCHANGED << recv, connections >>
    <2>1. \A u \in Thread : RecvDelete(u) => ReceiveThread(u)
      BY DEF ReceiveThread
    <2> QED BY <2>1, Frame
  <1> QED BY <1>2, <1>3, <1>4, <1>5, <1>6, <1>7

(* The sockets that update has still to look at.                           *)
LEMMA SweepListedKept ==
  ASSUME IInv, [Next]_vars, main'.pc # "destroyed"
  PROVE  SweepListed'
PROOF
  <1>1. SweepListed /\ TypeOK /\ main.pc # "destroyed"
    BY OwnerStep DEF IInv, OwnerInv
  <1>2. CASE UNCHANGED main
    <2> SUFFICES ASSUME main.pc \in {"sockets", "advertised"}
                 PROVE  connections[main.thread] \subseteq connections'[main.thread]
      BY <1>1, <1>2 DEF SweepListed
    <2>1. main.thread \in Thread
      BY DEF IInv, ThreadsInv
    <2>2. ASSUME NEW t \in Thread, Dispatch(t)
          PROVE  FALSE
      BY <2>2 DEF Dispatch, IInv, ThreadsInv
    <2>3. ASSUME NEW t \in Thread, RecvDelete(t)
          PROVE  connections[main.thread] \subseteq connections'[main.thread]
      <3>1. t # main.thread
        BY <2>3 DEF RecvDelete, ConnectionsLocked
      <3> QED BY <1>1, <2>1, <2>3, <3>1, DeleteFields
    <2> QED BY <2>2, <2>3, Frame
  <1>3. CASE Update
    <2> USE DEF TypeOK, MainState
    <2>1. UNCHANGED connections
      BY <1>3 DEF Update, UpdateBegin, UpdateThread, UpdateSent, UpdateFailed, UpdateAdvertised,
                  UpdateThreadEnd, UpdateEnd, tasks
    <2>2. CASE UpdateThread
      BY <1>1, <2>1, <2>2 DEF UpdateThread, SweepListed
    <2>3. CASE UpdateBegin \/ UpdateThreadEnd \/ UpdateEnd
      BY <1>1, <2>3 DEF UpdateBegin, UpdateThreadEnd, UpdateEnd, MainGoes, SweepListed
    <2>4. CASE UpdateAdvertised
      BY <1>1, <2>1, <2>4 DEF UpdateAdvertised, SweepListed
    <2>5. ASSUME NEW a \in Addr, UpdateSent(a) \/ UpdateFailed(a)
          PROVE  SweepListed'
      <3>1. /\ main.pc = "sockets" /\ a \in main.socks
            /\ main'.thread = main.thread /\ main'.socks = main.socks \ {a}
        BY <1>1, <2>5 DEF UpdateSent, UpdateFailed
      <3>2. main'.pc = "advertised" => main'.event = Of("Disconnection", a)
        BY <1>1, <2>5 DEF UpdateSent, UpdateFailed
      <3> QED BY <1>1, <2>1, <3>1, <3>2 DEF Of, SweepListed
    <2> QED BY <1>3, <2>2, <2>3, <2>4, <2>5 DEF Update
  <1>4. CASE DataAvailable
    BY <1>1, <1>4
    DEF DataAvailable, Poll, MessageAvailable, ConnectionEvent, DisconnectionEvent,
        ConnectionDone, DisconnectionDone, WakeUp, Extract, MainGoes, TypeOK, MainState,
        SweepListed
  <1>5. CASE UserUpdates \/ Receive \/ MessageDone \/ RequireExit \/ Destroy \/ Destroyed
    BY <1>1, <1>5 DEF UserUpdates, Receive, MessageDone, RequireExit, Destroy, Destroyed, MainGoes,
                      TypeOK, MainState, SweepListed
  <1> QED BY <1>2, <1>3, <1>4, <1>5, Frame DEF Main

(* So no list holds a socket that was deleted.                             *)
LEMMA OwnerKept ==
  ASSUME IInv, [Next]_vars
  PROVE  OwnerInv'
  BY OwnedKept, RemoveListedKept, WorkListedKept, SweepListedKept DEF OwnerInv

-----------------------------------------------------------------------------
(* The connections of a thread grow only when a socket is dealt to it.     *)
LEMMA LoadStep ==
  ASSUME IInv, [Next]_vars, NEW u \in Thread
  PROVE  /\ Load(u) \in Nat /\ Load(u)' \in Nat /\ IsFiniteSet(connections'[u])
         /\ \/ Load(u)' <= Load(u)
            \/ Dispatch(u) /\ Load(u)' <= Load(u) + 1
PROOF
  <1>1. TypeOK /\ IsFiniteSet(connections[u])
    BY DEF IInv, PoolInv
  <1>2. Load(u) \in Nat
    BY <1>1, FS_CardinalityType DEF Load
  <1>3. CASE connections'[u] = connections[u]
    BY <1>1, <1>2, <1>3 DEF Load
  <1>4. CASE Dispatch(u)
    <2>1. connections'[u] = connections[u] \union {listen.sock}
      BY <1>1, <1>4, DispatchFields DEF Dispatch, IInv, ThreadsInv
    <2>2. /\ IsFiniteSet(connections'[u])
          /\ Cardinality(connections'[u]) \in
               {Cardinality(connections[u]), Cardinality(connections[u]) + 1}
      BY <1>1, <2>1, FS_AddElement
    <2> QED BY <1>2, <1>4, <2>2 DEF Load
  <1>5. ASSUME NEW t \in Thread, Dispatch(t), t # u
        PROVE  connections'[u] = connections[u]
    BY <1>1, <1>5, DispatchFields DEF Dispatch, IInv, ThreadsInv
  <1>6. ASSUME NEW t \in Thread, RecvDelete(t)
        PROVE  connections'[u] \subseteq connections[u]
    BY <1>1, <1>6, DeleteFields
  <1>7. CASE connections'[u] \subseteq connections[u]
    <2>1. IsFiniteSet(connections'[u]) /\ Load(u)' \in Nat /\ Load(u)' <= Load(u)
      BY <1>1, <1>7, FS_Subset, FS_CardinalityType DEF Load
    <2> QED BY <1>2, <2>1
  <1> QED BY <1>3, <1>4, <1>5, <1>6, <1>7, Frame

(* A count that was taken stays an upper bound: while there are counts, no *)
(* socket is dealt.                                                        *)
LEMMA CountsKept ==
  ASSUME IInv, [Next]_vars
  PROVE  CountsInv'
PROOF
  <1>1. /\ TypeOK /\ CountsInv /\ pool \in Nat /\ 1 .. pool \subseteq Thread
        /\ listen.counts \in Seq(Nat) /\ Len(listen.counts) \in Nat
    BY ServerAssumption DEF IInv, PoolInv, TypeOK, ListenState, TasksOK, Thread
  <1>2. pool <= pool' /\ pool' \in Nat
    <2>1. UNCHANGED pool \/ DispatchEnd
      BY Frame
    <2>2. pool' \in Nat
      BY Types DEF TypeOK, TasksOK
    <2> QED BY <1>1, <2>1, <2>2, PoolStep
  <1>3. ASSUME UNCHANGED << listen >>
        PROVE  CountsInv'
    <2>1. ASSUME NEW t \in Thread PROVE ~Dispatch(t)
      BY <1>1, <1>3 DEF Dispatch, TypeOK, ListenState
    <2>2. ASSUME NEW t \in 1 .. Len(listen.counts)
          PROVE  Load(t)' <= Count(t)
      <3>1. t \in Thread /\ Count(t) \in Nat /\ Load(t) <= Count(t)
        BY <1>1 DEF Count, CountsInv
      <3>2. Load(t)' \in Nat /\ Load(t) \in Nat /\ Load(t)' <= Load(t)
        BY <2>1, <3>1, LoadStep
      <3> QED BY <3>1, <3>2
    <2> QED BY <1>1, <1>2, <1>3, <2>2 DEF CountsInv, Count
  <1>4. ASSUME listen'.counts = << >>
        PROVE  CountsInv'
    BY <1>2, <1>4 DEF CountsInv
  <1>5. CASE ListenAdvertised \/ DispatchEnd \/ ListenExits \/ DispatchBegin
    BY <1>1, <1>4, <1>5 DEF ListenAdvertised, DispatchEnd, ListenExits, DispatchBegin, CountsInv,
                            TypeOK, ListenState
  <1>6. ASSUME NEW c \in Connection, NEW a \in Addr, Accept(c, a)
        PROVE  CountsInv'
    BY <1>1, <1>4, <1>6 DEF Accept, CountsInv, TypeOK, ListenState
  <1>7. ASSUME NEW t \in Thread, Dispatch(t)
        PROVE  CountsInv'
    BY <1>1, <1>4, <1>7 DEF Dispatch, TypeOK, ListenState
  <1>8. CASE DispatchCount
    <2> DEFINE n == Len(listen.counts)
    <2>1. /\ UNCHANGED << connections, pool >> /\ listen'.pc = "count" /\ n < pool
          /\ listen'.counts = Append(listen.counts, Load(n + 1))
      BY <1>1, <1>8 DEF DispatchCount, Counted, tasks, TypeOK, ListenState, CountsInv
    <2>2. Load(n + 1) \in Nat
      BY <1>1, <2>1, LoadStep
    <2>3. /\ Len(listen'.counts) = n + 1
          /\ \A t \in 1 .. n : listen'.counts[t] = listen.counts[t]
          /\ listen'.counts[n + 1] = Load(n + 1)
      BY <1>1, <2>1, <2>2, AppendProperties
    <2>4. \A t \in 1 .. n + 1 : Load(t)' = Load(t) /\ (t \in 1 .. n \/ t = n + 1)
      BY <1>1, <2>1 DEF Load
    <2>5. ASSUME NEW t \in 1 .. n + 1
          PROVE  Load(t)' <= Count(t)'
      <3>1. CASE t \in 1 .. n
        <4>1. Load(t)' = Load(t) /\ Count(t)' = Count(t)
          BY <2>3, <2>4, <3>1 DEF Count
        <4>2. Load(t) <= Count(t)
          BY <1>1, <3>1 DEF CountsInv
        <4> QED BY <4>1, <4>2
      <3>2. CASE t = n + 1
        <4>1. Load(t)' = Load(t) /\ Count(t)' = Load(t) /\ Load(t) \in Nat
          BY <2>2, <2>3, <2>4, <3>2 DEF Count
        <4> QED BY <4>1
      <3> QED BY <2>4, <3>1, <3>2
    <2> QED BY <1>1, <2>1, <2>3, <2>5 DEF CountsInv
  <1> QED BY <1>3, <1>5, <1>6, <1>7, <1>8, Frame DEF Counting

(* The limits of the pool.                                                 *)
LEMMA LimitsKept ==
  ASSUME IInv, [Next]_vars
  PROVE  LimitsInv'
PROOF
  <1>1. TypeOK /\ LimitsInv /\ UNCHANGED strategy
    BY Frame DEF IInv, PoolInv
  <1>2. CASE strategy = "FillThreads"
    <2> SUFFICES ASSUME NEW u \in Thread
                 PROVE  Load(u)' <= MaxSocketsPerThread
      BY <1>1, <1>2 DEF LimitsInv
    <2>1. Load(u) <= MaxSocketsPerThread /\ MaxSocketsPerThread \in Nat \ {0}
      BY <1>1, <1>2, ServerAssumption DEF LimitsInv
    <2>2. ASSUME Dispatch(u)
          PROVE  Load(u) < MaxSocketsPerThread
      <3>1. u = Target /\ Counted /\ listen.pc = "count" /\ main.pc # "destroyed"
        BY <2>2 DEF Dispatch, IInv, ThreadsInv
      <3>2. ASSUME u = pool + 1
            PROVE  Load(u) = 0
        <4>1. u > pool
          BY <1>1, <3>2 DEF TypeOK, TasksOK
        <4>2. connections[u] = {}
          BY <3>1, <4>1 DEF IInv, OwnerInv, OwnedInv, Unused
        <4> QED BY <4>2, FS_EmptySet DEF Load
      <3> QED BY <1>1, <1>2, <2>1, <3>1, <3>2, TargetInRange DEF IInv
    <2>3. /\ Load(u) \in Nat /\ Load(u)' \in Nat
          /\ Load(u)' <= Load(u) \/ (Dispatch(u) /\ Load(u)' <= Load(u) + 1)
      BY LoadStep
    <2> QED BY <2>1, <2>2, <2>3
  <1>3. CASE strategy # "FillThreads"
    <2>1. UNCHANGED pool \/ DispatchEnd
      BY Frame
    <2>2. DispatchEnd => UNCHANGED pool \/ pool' = sock[listen.sock].owner
      BY PoolStep
    <2>3. DispatchEnd => sock[listen.sock].owner <= MaxThreads
      BY <1>3 DEF DispatchEnd, IInv, PoolInv
    <2> QED BY <1>1, <1>3, <2>1, <2>2, <2>3 DEF LimitsInv
  <1> QED BY <1>2, <1>3

LEMMA PoolKept ==
  ASSUME IInv, [Next]_vars
  PROVE  PoolInv'
PROOF
  <1> DEFINE Finite == \A t \in Thread : IsFiniteSet(connections[t])
             Limited == strategy # "FillThreads" /\ listen.pc = "wake" =>
                          sock[listen.sock].owner <= MaxThreads
  <1>1. TypeOK /\ Limited
    BY DEF IInv, PoolInv
  <1>2. UNCHANGED strategy
    BY Frame
  <1>6. Finite' /\ CountsInv' /\ LimitsInv'
    BY LoadStep, CountsKept, LimitsKept
  <1>7. Limited'
    <2> SUFFICES ASSUME strategy # "FillThreads", listen'.pc = "wake"
                 PROVE  sock'[listen'.sock].owner <= MaxThreads
      BY <1>2
    <2>1. ASSUME NEW t \in Thread, Dispatch(t)
          PROVE  sock'[listen'.sock].owner <= MaxThreads
      <3>1. listen.sock \in Addr /\ t = Target /\ Counted /\ listen'.sock = listen.sock
        BY <1>1, <2>1 DEF Dispatch, IInv, ThreadsInv, TypeOK, ListenState
      <3>2. sock'[listen.sock].owner = t
        BY <1>1, <2>1, <3>1, DispatchFields
      <3> QED BY <3>1, <3>2, TargetInRange DEF IInv
    <2>2. CASE UNCHANGED listen
      <3>1. /\ listen.pc = "wake" /\ listen.sock \in Addr
            /\ main.pc \notin {"advertised", "joining"}
        BY <2>2 DEF IInv, ThreadsInv
      <3>2. sock[listen.sock].owner <= MaxThreads
        BY <1>1, <3>1
      <3>3. ~Destroyed /\ ~UpdateAdvertised /\ ~ListenAdvertised
            /\ ~(\E c \in Connection, a \in Addr : Accept(c, a)) /\ ~(\E t \in Thread : Dispatch(t))
        BY <3>1 DEF Destroyed, UpdateAdvertised, ListenAdvertised, Accept, Dispatch
      <3>4. ASSUME NEW t \in Thread, RecvDelete(t)
            PROVE  sock'[listen.sock] = sock[listen.sock]
        BY <1>1, <3>1, <3>4, NewIsKept, DeleteFields
      <3>5. sock'[listen.sock].owner = sock[listen.sock].owner
        BY <1>1, <3>1, <3>3, <3>4, Fields DEF FieldsKept
      <3> QED BY <2>2, <3>2, <3>5
    <2>3. CASE \/ ListenAdvertised \/ Counting \/ DispatchEnd \/ ListenExits
               \/ \E c \in Connection, a \in Addr : Accept(c, a)
      <3>1. ASSUME NEW c \in Connection, NEW a \in Addr, Accept(c, a)
            PROVE  listen'.pc # "wake"
        BY <1>1, <3>1 DEF Accept, TypeOK, ListenState
      <3>2. CASE ListenAdvertised \/ Counting \/ DispatchEnd \/ ListenExits
        BY <1>1, <3>2, CountingStep
        DEF ListenAdvertised, DispatchEnd, ListenExits, TypeOK, ListenState
      <3> QED BY <2>3, <3>1, <3>2
    <2> QED BY <2>1, <2>2, <2>3, Frame
  <1> QED BY <1>6, <1>7 DEF PoolInv

-----------------------------------------------------------------------------
(* Connections are numbered once.                                          *)
LEMMA ConnStep ==
  ASSUME IInv, [Next]_vars
  PROVE  /\ \A c \in Connection : peer[c] # "none" => peer'[c] # "none"
         /\ \/ \A a \in Addr : sock'[a].conn \in {sock[a].conn, 0}
            \/ \E c \in Connection, a \in Addr : Accept(c, a)
PROOF
  <1>1. TypeOK
    BY DEF IInv
  <1>2. \A c \in Connection : peer[c] # "none" => peer'[c] # "none"
    BY <1>1, Frame DEF PeerLeaves, Accept, TypeOK, NetworkOK
  <1>3. ASSUME FieldsKept
        PROVE  \A a \in Addr : sock'[a].conn \in {sock[a].conn, 0}
    BY <1>3 DEF FieldsKept
  <1>4. ASSUME NEW t \in Thread, Dispatch(t)
        PROVE  \A a \in Addr : sock'[a].conn = sock[a].conn
    BY <1>1, <1>4, DispatchFields DEF Dispatch, IInv, ThreadsInv
  <1>5. ASSUME NEW t \in Thread, RecvDelete(t)
        PROVE  \A a \in Addr : sock'[a].conn \in {sock[a].conn, 0}
    BY <1>1, <1>5, DeleteFields DEF Freed
  <1>6. ASSUME ListenAdvertised
        PROVE  \A a \in Addr : sock'[a].conn = sock[a].conn
    <2>1. listen.sock \in Addr /\ sock' = [sock EXCEPT ![listen.sock].know = TRUE]
      BY <1>6 DEF ListenAdvertised, IInv, ThreadsInv
    <2> QED BY <1>1, <2>1, KnowFields
  <1>7. ASSUME UpdateAdvertised
        PROVE  \A a \in Addr : sock'[a].conn = sock[a].conn
    <2>1. main.event.sock \in Addr /\ sock' = [sock EXCEPT ![main.event.sock].know = FALSE]
      BY <1>7 DEF UpdateAdvertised, IInv, EventInv, Event
    <2> QED BY <1>1, <2>1, KnowFields
  <1>8. ASSUME Destroyed
        PROVE  \A a \in Addr : sock'[a].conn \in {sock[a].conn, 0}
    BY <1>1, <1>8 DEF Destroyed, Freed, TypeOK, SockOK
  <1> QED BY <1>1, <1>2, <1>3, <1>4, <1>5, <1>6, <1>7, <1>8, Fields

(* Two objects never serve one connection, and nothing is known of one     *)
(* that is not accepted.                                                   *)
LEMMA UniqueKept ==
  ASSUME IInv, [Next]_vars
  PROVE  UniqueInv'
PROOF
  <1>1. TypeOK /\ UniqueInv
    BY DEF IInv
  <1>2. /\ \A a, b \in Addr : sock'[a].conn # 0 /\ sock'[a].conn = sock'[b].conn => a = b
        /\ \A a \in Addr : sock'[a].conn # 0 => peer'[sock'[a].conn] # "none"
    <2>1. \A a \in Addr : sock[a].conn \in Connection \union {0}
      BY <1>1 DEF TypeOK, SockOK, SockState
    <2>2. CASE \A a \in Addr : sock'[a].conn \in {sock[a].conn, 0}
      BY <1>1, <2>1, <2>2, ConnStep DEF UniqueInv
    <2>3. ASSUME NEW c \in Connection, NEW x \in Addr, Accept(c, x)
          PROVE  /\ \A a, b \in Addr : sock'[a].conn # 0 /\ sock'[a].conn = sock'[b].conn => a = b
                 /\ \A a \in Addr : sock'[a].conn # 0 => peer'[sock'[a].conn] # "none"
      <3>1. /\ sock'[x].conn = c /\ \A b \in Addr : b # x => sock'[b] = sock[b]
        BY <1>1, <2>3, AcceptFields
      <3>2. peer[c] = "none" /\ peer'[c] = "here"
        BY <1>1, <2>3 DEF Accept, TypeOK, NetworkOK
      <3>3. \A b \in Addr : sock[b].conn # c
        BY <1>1, <3>2, ServerAssumption DEF UniqueInv, Connection
      <3> QED BY <1>1, <2>1, <3>1, <3>2, <3>3, ConnStep DEF UniqueInv
    <2> QED BY <2>2, <2>3, ConnStep
  <1>3. \A i \in 1 .. Len(queue') : peer'[queue'[i].conn] # "none"
    <2>1. \A i \in 1 .. Len(queue) : queue[i] \in Event /\ peer[queue[i].conn] # "none"
      BY <1>1, ElementOfSeq DEF UniqueInv, TypeOK, QueueOK
    <2>2. \A i \in 1 .. Len(queue) : peer'[queue[i].conn] # "none"
      BY <2>1, ConnStep DEF Event
    <2>3. CASE queue # << >> /\ queue' = Tail(queue)
      BY <1>1, <2>2, <2>3, FrontTypes
    <2>4. ASSUME NEW e \in Event, queue' = Append(queue, e), peer'[e.conn] # "none"
          PROVE  \A i \in 1 .. Len(queue') : peer'[queue'[i].conn] # "none"
      BY <1>1, <2>2, <2>4 DEF TypeOK, QueueOK
    <2>5. ASSUME NEW c \in Connection, NEW a \in Addr, Accept(c, a)
          PROVE  peer'[c] # "none"
      BY <1>1, <2>5 DEF Accept, TypeOK, NetworkOK
    <2>6. ASSUME NEW a \in Addr, sock[a].conn \in Connection
          PROVE  peer'[sock[a].conn] # "none"
      BY <1>1, <2>6, ConnStep, ServerAssumption DEF UniqueInv, Connection
    <2>7. ASSUME NEW e \in Event, queue' = Append(queue, e),
                 \/ \E c \in Connection, a \in Addr :
                      Accept(c, a) /\ e = [type |-> "Connection", sock |-> a, conn |-> c]
                 \/ \E a \in Addr, type \in {"Disconnection", "User"} :
                      sock[a].conn \in Connection /\ e = Of(type, a)
          PROVE  peer'[e.conn] # "none"
      BY <2>5, <2>6, <2>7, OfTypes
    <2>8. CASE UNCHANGED queue
      BY <2>2, <2>8
    <2>9. \/ UNCHANGED queue
          \/ queue # << >> /\ queue' = Tail(queue)
          \/ \E e \in Event :
               /\ queue' = Append(queue, e)
               /\ \/ \E c \in Connection, a \in Addr :
                       Accept(c, a) /\ e = [type |-> "Connection", sock |-> a, conn |-> c]
                  \/ \E a \in Addr, type \in {"Disconnection", "User"} :
                       sock[a].conn \in Connection /\ e = Of(type, a)
      BY QueueStep
    <2> QED BY <2>3, <2>4, <2>7, <2>8, <2>9
  <1>4. \A c \in Connection : log'[c] # << >> => peer'[c] # "none"
    <2>1. CASE UNCHANGED log
      BY <1>1, <2>1, ConnStep DEF UniqueInv
    <2>2. ASSUME queue # << >>, Logged(queue[1])
          PROVE  \A c \in Connection : log'[c] # << >> => peer'[c] # "none"
      <3>1. queue[1] \in Event /\ peer[queue[1].conn] # "none"
        BY <1>1, <2>2, FrontTypes DEF UniqueInv
      <3>2. queue[1].conn \in Connection
        BY <3>1 DEF Event
      <3>3. \A c \in Connection : c # queue[1].conn => log'[c] = log[c]
        BY <1>1, <2>2, <3>2 DEF Logged, TypeOK, UserOK
      <3> QED BY <1>1, <3>1, <3>2, <3>3, ConnStep DEF UniqueInv
    <2>3. ConnectionEvent \/ DisconnectionEvent \/ Receive => queue # << >> /\ Logged(queue[1])
      BY <1>1, FrontTypes DEF ConnectionEvent, DisconnectionEvent, Receive, IInv, EventInv
    <2> QED BY <2>1, <2>2, <2>3, Frame
  <1> QED BY <1>2, <1>3, <1>4 DEF UniqueInv

-----------------------------------------------------------------------------
(* What the user was told and is to be told: a step adds an event at the   *)
(* end of what is pending, or tells the first of it, or changes neither.   *)
Handling == main.pc \in {"callback", "wakeup", "extract"}

Adds(e) == Pending' = Append(Pending, e) /\ UNCHANGED log
Tells(e) == Pending # << >> /\ e = Pending[1] /\ Pending' = Tail(Pending) /\ Logged(e)

(* What is pending is a sequence of events.                                *)
LEMMA PendingTypes ==
  ASSUME IInv
  PROVE  /\ Pending \in Seq(Event)
         /\ Len(Pending) \in Nat
         /\ \A i \in 1 .. Len(Pending) : Pending[i] \in Event
PROOF
  <1>1. Pending \in Seq(Event)
    BY FrontTypes DEF Pending, IInv, EventInv, TypeOK, QueueOK
  <1> QED BY <1>1, LenProperties, ElementOfSeq

(* Appending and dropping the front commute.                               *)
LEMMA AppendToTail ==
  ASSUME NEW s \in Seq(Event), s # << >>, NEW e \in Event
  PROVE  Tail(Append(s, e)) = Append(Tail(s), e)
PROOF
  <1>1. /\ Tail(s) \in Seq(Event) /\ Len(Tail(s)) = Len(s) - 1 /\ Len(s) \in Nat \ {0}
        /\ \A i \in 1 .. Len(Tail(s)) : Tail(s)[i] = s[i + 1]
    BY HeadTailProperties, EmptySeq
  <1>2. /\ Append(s, e) \in Seq(Event) /\ Append(s, e) # << >> /\ Len(Append(s, e)) = Len(s) + 1
        /\ \A i \in 1 .. Len(s) + 1 : Append(s, e)[i] = IF i = Len(s) + 1 THEN e ELSE s[i]
    OBVIOUS
  <1>3. /\ Tail(Append(s, e)) \in Seq(Event) /\ Len(Tail(Append(s, e))) = Len(s)
        /\ \A i \in 1 .. Len(s) : Tail(Append(s, e))[i] = Append(s, e)[i + 1]
    BY <1>1, <1>2, HeadTailProperties
  <1>4. /\ Append(Tail(s), e) \in Seq(Event) /\ Len(Append(Tail(s), e)) = Len(s)
        /\ \A i \in 1 .. Len(s) : Append(Tail(s), e)[i] = IF i = Len(s) THEN e ELSE Tail(s)[i]
    BY <1>1
  <1>5. \A i \in 1 .. Len(s) : Tail(Append(s, e))[i] = Append(Tail(s), e)[i]
    <2> SUFFICES ASSUME NEW i \in 1 .. Len(s)
                 PROVE  Tail(Append(s, e))[i] = Append(Tail(s), e)[i]
      OBVIOUS
    <2>1. i + 1 \in 1 .. Len(s) + 1 /\ (i + 1 = Len(s) + 1 <=> i = Len(s))
          /\ (i # Len(s) => i \in 1 .. Len(s) - 1)
      <3>1. \A n \in Nat : \A j \in 1 .. n : j + 1 \in 1 .. n + 1 /\ (j + 1 = n + 1 <=> j = n)
                                       /\ (j # n => j \in 1 .. n - 1)
        OBVIOUS
      <3>2. Len(s) \in Nat
        BY <1>1
      <3> QED BY <3>1, <3>2
    <2>2. i # Len(s) => i \in 1 .. Len(Tail(s))
      BY <1>1, <2>1
    <2>3. i # Len(s) => Tail(s)[i] = s[i + 1]
      BY <1>1, <2>2
    <2>4. Tail(Append(s, e))[i] = IF i = Len(s) THEN e ELSE s[i + 1]
      BY <1>2, <1>3, <2>1
    <2> QED BY <1>4, <2>3, <2>4
  <1> QED BY <1>3, <1>4, <1>5, SeqEqual

(* The event that is handled was told already: ConnectionEvent and         *)
(* DisconnectionEvent tell it, Extract drops it.                           *)
LEMMA HandlingStep ==
  ASSUME IInv, [Next]_vars
  PROVE  \/ Handling' <=> Handling
         \/ ConnectionEvent \/ DisconnectionEvent \/ Extract
PROOF
  <1> USE DEF IInv, TypeOK, MainState, Handling, MainGoes
  <1>1. CASE UNCHANGED main
    BY <1>1
  <1>2. CASE UserUpdates \/ Receive \/ MessageDone \/ RequireExit \/ Destroyed \/ Destroy
    BY <1>2 DEF UserUpdates, Receive, MessageDone, RequireExit, Destroyed, Destroy
  <1>3. CASE Poll \/ MessageAvailable \/ ConnectionDone \/ DisconnectionDone \/ WakeUp
    BY <1>3 DEF Poll, MessageAvailable, ConnectionDone, DisconnectionDone, WakeUp
  <1>4. CASE UpdateBegin \/ UpdateThread \/ UpdateThreadEnd \/ UpdateEnd \/ UpdateAdvertised
    BY <1>4 DEF UpdateBegin, UpdateThread, UpdateThreadEnd, UpdateEnd, UpdateAdvertised
  <1>5. ASSUME NEW a \in Addr, UpdateSent(a) \/ UpdateFailed(a)
        PROVE  Handling' <=> Handling
    <2>1. main.pc = "sockets" /\ main'.pc \in {"sockets", "advertised"}
      BY <1>5 DEF UpdateSent, UpdateFailed
    <2> QED BY <2>1
  <1> QED
    BY <1>1, <1>2, <1>3, <1>4, <1>5, Frame DEF Main, DataAvailable, Update

(* Where what is added comes from.                                         *)
Announces(e) ==
  \E c \in Connection, a \in Addr :
    Accept(c, a) /\ e = [type |-> "Connection", sock |-> a, conn |-> c]
Receives(e) ==
  \E t \in Thread, a \in Addr :
    RecvMessage(t, a) /\ a \in connections[t] /\ sock[a].conn \in Connection
    /\ e = Of("User", a)
Notices(e) ==
  \E a \in Addr :
    UpdateFailed(a) /\ a \in connections[main.thread] /\ sock[a].know
    /\ sock[a].conn \in Connection /\ e = Of("Disconnection", a)

(* Appending to the queue adds to what is pending.                         *)
LEMMA AppendAdds ==
  ASSUME IInv, NEW e \in Event, queue' = Append(queue, e), Handling' <=> Handling, UNCHANGED log
  PROVE  Adds(e)
PROOF
  <1>1. Pending = IF Handling THEN Tail(queue) ELSE queue
    BY DEF Pending, Handling
  <1>2. Handling => queue # << >> /\ queue \in Seq(Event)
    BY DEF Handling, IInv, EventInv, TypeOK, QueueOK
  <1>3. Handling => Pending' = Tail(Append(queue, e)) /\ Pending = Tail(queue)
    BY <1>1 DEF Pending, Handling
  <1>4. ~Handling => Pending' = Append(queue, e) /\ Pending = queue
    BY <1>1 DEF Pending, Handling
  <1>5. Handling => Tail(Append(queue, e)) = Append(Tail(queue), e)
    BY <1>2, AppendToTail
  <1> QED BY <1>3, <1>4, <1>5 DEF Adds

(* Every step is one of the three kinds.                                   *)
LEMMA StoryStep ==
  ASSUME IInv, [Next]_vars
  PROVE  \/ UNCHANGED << Pending, log >>
         \/ \E e \in Event : Adds(e) /\ (Announces(e) \/ Receives(e) \/ Notices(e))
         \/ \E e \in Event : /\ Tells(e)
                             /\ \/ (ConnectionEvent \/ DisconnectionEvent) /\ e = main.event
                                \/ Receive /\ e.type = "User"
PROOF
  <1>1. TypeOK /\ EventInv
    BY DEF IInv
  <1>2. Pending = IF Handling THEN Tail(queue) ELSE queue
    BY DEF Pending, Handling
  <1>3. CASE ConnectionEvent \/ DisconnectionEvent
    <2>1. /\ ~Handling /\ Handling' /\ UNCHANGED queue /\ queue # << >>
          /\ main.event = queue[1] /\ main.event \in Event /\ Logged(main.event)
      BY <1>1, <1>3, FrontTypes
      DEF ConnectionEvent, DisconnectionEvent, Handling, MainGoes, EventInv, TypeOK, MainState
    <2>2. Tells(main.event)
      BY <1>2, <2>1 DEF Tells, Pending, Handling
    <2> QED BY <1>3, <2>1, <2>2
  <1>4. CASE Receive
    <2>1. /\ ~Handling /\ ~Handling' /\ queue' = Tail(queue) /\ queue # << >>
          /\ main.event = queue[1] /\ main.event \in Event /\ Logged(main.event)
          /\ main.event.type = "User"
      BY <1>1, <1>4, FrontTypes DEF Receive, PopMessage, Handling, EventInv
    <2>2. Tells(main.event)
      BY <1>2, <2>1 DEF Tells, Pending, Handling
    <2> QED BY <1>4, <2>1, <2>2
  <1>5. CASE Extract
    <2>1. Handling /\ ~Handling' /\ queue' = Tail(queue) /\ UNCHANGED log
      BY <1>1, <1>5 DEF Extract, PopMessage, Handling
    <2> QED BY <1>2, <2>1 DEF Pending, Handling
  <1>6. CASE ~ConnectionEvent /\ ~DisconnectionEvent /\ ~Receive /\ ~Extract
    <2>1. (Handling' <=> Handling) /\ UNCHANGED log /\ (Handling => queue # << >>)
      BY <1>1, <1>6, HandlingStep, Frame DEF Handling, EventInv
    <2>2. CASE UNCHANGED queue
      BY <1>2, <2>1, <2>2 DEF Pending, Handling
    <2>3. ASSUME NEW e \in Event, queue' = Append(queue, e)
          PROVE  Adds(e)
      BY <2>1, <2>3, AppendAdds
    <2> QED BY <1>6, <2>2, <2>3, QueueStep DEF Announces, Receives, Notices
  <1> QED BY <1>3, <1>4, <1>5, <1>6

(* What was said of a connection, after such a step.                       *)
LEMMA ToldStep ==
  ASSUME IInv, NEW e \in Event, Logged(e)
  PROVE  \A c \in Connection : \A type : Told(c, type)' <=> Told(c, type) \/ Says(e, c, type)
PROOF
  <1>1. log \in [Connection -> Seq({"Connection", "Disconnection", "User"})]
        /\ e.conn \in Connection /\ e.type \in {"Connection", "Disconnection", "User"}
    BY DEF IInv, TypeOK, UserOK, Event
  <1> SUFFICES ASSUME NEW c \in Connection, NEW type
               PROVE  Told(c, type)' <=> Told(c, type) \/ Says(e, c, type)
    OBVIOUS
  <1>2. CASE c # e.conn
    BY <1>1, <1>2 DEF Told, Says, Logged
  <1>3. CASE c = e.conn
    <2>1. /\ log'[c] = Append(log[c], e.type)
          /\ log[c] \in Seq({"Connection", "Disconnection", "User"})
      BY <1>1, <1>3 DEF Logged
    <2>2. /\ Len(log[c]) \in Nat /\ Len(log'[c]) = Len(log[c]) + 1
          /\ \A i \in 1 .. Len(log[c]) : log'[c][i] = log[c][i]
          /\ log'[c][Len(log[c]) + 1] = e.type
      BY <1>1, <2>1
    <2>3. \A i \in 1 .. Len(log'[c]) : i \in 1 .. Len(log[c]) \/ i = Len(log[c]) + 1
      BY <2>2
    <2>4. Len(log[c]) + 1 \in 1 .. Len(log'[c]) /\ 1 .. Len(log[c]) \subseteq 1 .. Len(log'[c])
      BY <2>2
    <2> QED BY <1>3, <2>2, <2>3, <2>4 DEF Told, Says
  <1> QED BY <1>2, <1>3

(* Telling the first pending event moves it from what is to be told to     *)
(* what was told, and the others move up by one.                           *)
LEMMA TellsStep ==
  ASSUME IInv, NEW e \in Event, Tells(e)
  PROVE  /\ Len(Pending') = Len(Pending) - 1
         /\ \A n \in 1 .. Len(Pending') : n + 1 \in 1 .. Len(Pending)
                                          /\ Pending'[n] = Pending[n + 1]
         /\ 1 \in 1 .. Len(Pending)
         /\ \A c \in Connection : \A type :
              /\ Told(c, type)' <=> Told(c, type) \/ Says(e, c, type)
              /\ Before(c, type)' <=> Before(c, type)
              /\ \A n \in 1 .. Len(Pending') :
                   Told(c, type)' \/ PendsBefore(n, c, type)'
                     <=> Told(c, type) \/ PendsBefore(n + 1, c, type)
PROOF
  <1>1. /\ Len(Pending) \in Nat \ {0} /\ Len(Pending') = Len(Pending) - 1
        /\ \A n \in 1 .. Len(Pending') : Pending'[n] = Pending[n + 1]
    BY PendingTypes, EmptySeq, HeadTailProperties DEF Tells
  <1> DEFINE N == Len(Pending)
  <1>2. N \in Nat \ {0} /\ Len(Pending') = N - 1
    BY <1>1
  <1>3. e = Pending[1]
    BY DEF Tells
  <1> HIDE DEF N
  <1>4. /\ 1 \in 1 .. N
        /\ \A n \in 1 .. N - 1 : n + 1 \in 1 .. N
        /\ \A n \in 1 .. N : n = 1 \/ (n - 1 \in 1 .. N - 1 /\ n = (n - 1) + 1)
    BY <1>2
  <1>5. \A n \in 1 .. N - 1 : Pending'[n] = Pending[n + 1]
    BY <1>1, <1>2
  <1>6. ASSUME NEW c \in Connection, NEW type
        PROVE  /\ Told(c, type)' <=> Told(c, type) \/ Says(e, c, type)
               /\ Pends(c, type) <=> Pends(c, type)' \/ Says(e, c, type)
               /\ \A n \in 1 .. N - 1 :
                    PendsBefore(n + 1, c, type) <=> PendsBefore(n, c, type)' \/ Says(e, c, type)
    <2>1. Told(c, type)' <=> Told(c, type) \/ Says(e, c, type)
      BY ToldStep DEF Tells
    <2>2. Pends(c, type) <=> \E i \in 1 .. N : Says(Pending[i], c, type)
      BY DEF Pends, N
    <2>3. Pends(c, type)' <=> \E i \in 1 .. N - 1 : Says(Pending[i + 1], c, type)
      BY <1>2, <1>5 DEF Pends, Says
    <2>4. Pends(c, type) <=> Pends(c, type)' \/ Says(e, c, type)
      BY <1>3, <1>4, <2>2, <2>3
    <2>5. ASSUME NEW n \in 1 .. N - 1
          PROVE  PendsBefore(n + 1, c, type) <=> PendsBefore(n, c, type)' \/ Says(e, c, type)
      <3>1. PendsBefore(n + 1, c, type) <=> \E i \in 1 .. N : i < n + 1 /\ Says(Pending[i], c, type)
        BY DEF PendsBefore, N
      <3>2. PendsBefore(n, c, type)' <=>
              \E i \in 1 .. N - 1 : i < n /\ Says(Pending[i + 1], c, type)
        BY <1>2, <1>5 DEF PendsBefore, Says
      <3>3. /\ \A i \in 1 .. N - 1 : i < n <=> i + 1 < n + 1
            /\ 1 < n + 1
        BY <1>2
      <3>4. ASSUME PendsBefore(n, c, type)' \/ Says(e, c, type)
            PROVE  PendsBefore(n + 1, c, type)
        BY <1>3, <1>4, <3>1, <3>2, <3>3, <3>4
      <3>5. ASSUME PendsBefore(n + 1, c, type)
            PROVE  PendsBefore(n, c, type)' \/ Says(e, c, type)
        <4>1. PICK i \in 1 .. N : i < n + 1 /\ Says(Pending[i], c, type)
          BY <3>1, <3>5
        <4>2. CASE i = 1
          BY <1>3, <4>1, <4>2
        <4>3. CASE i # 1
          <5> DEFINE k == i - 1
          <5>1. k \in 1 .. N - 1 /\ i = k + 1
            BY <1>4, <4>3
          <5>2. k < n
            BY <1>2, <4>1, <5>1
          <5> QED BY <3>2, <4>1, <5>1, <5>2
        <4> QED BY <4>2, <4>3
      <3> QED BY <3>4, <3>5
    <2> QED BY <2>1, <2>4, <2>5
  <1>7. Len(Pending) = N
    BY DEF N
  <1> QED BY <1>2, <1>4, <1>5, <1>6, <1>7 DEF Before

(* Adding an event says it after all the others.                           *)
LEMMA AddsStep ==
  ASSUME IInv, NEW e \in Event, Adds(e)
  PROVE  /\ Len(Pending') = Len(Pending) + 1
         /\ \A n \in 1 .. Len(Pending) : n \in 1 .. Len(Pending') /\ Pending'[n] = Pending[n]
         /\ \A n \in 1 .. Len(Pending') : n \in 1 .. Len(Pending) \/ n = Len(Pending) + 1
         /\ Pending'[Len(Pending) + 1] = e
         /\ \A c, type :
              /\ Told(c, type)' <=> Told(c, type)
              /\ Before(c, type)' <=> Before(c, type) \/ Says(e, c, type)
              /\ \A n \in 1 .. Len(Pending) :
                   PendsBefore(n, c, type)' <=> PendsBefore(n, c, type)
              /\ \A n : n = Len(Pending) + 1 => (PendsBefore(n, c, type)' <=> Pends(c, type))
PROOF
  <1> DEFINE N == Len(Pending)
  <1>1. /\ N \in Nat /\ Len(Pending') = N + 1 /\ Pending'[N + 1] = e
        /\ \A n \in 1 .. N : Pending'[n] = Pending[n]
    BY PendingTypes DEF Adds
  <1> HIDE DEF N
  <1>2. /\ \A n \in 1 .. N : n \in 1 .. N + 1
        /\ \A n \in 1 .. N + 1 : n \in 1 .. N \/ n = N + 1
        /\ N + 1 \in 1 .. N + 1
    BY <1>1
  <1>3. \A c, type : Told(c, type)' <=> Told(c, type)
    BY DEF Told, Adds
  <1>4. ASSUME NEW c, NEW type
        PROVE  /\ Pends(c, type)' <=> Pends(c, type) \/ Says(e, c, type)
               /\ \A n \in 1 .. N : PendsBefore(n, c, type)' <=> PendsBefore(n, c, type)
               /\ \A n : n = N + 1 => (PendsBefore(n, c, type)' <=> Pends(c, type))
    <2>1. Pends(c, type) <=> \E i \in 1 .. N : Says(Pending[i], c, type)
      BY DEF Pends, N
    <2>2. Pends(c, type)' <=> \E i \in 1 .. N + 1 : Says(Pending'[i], c, type)
      BY <1>1 DEF Pends, Says
    <2>3. \A n : PendsBefore(n, c, type) <=> \E i \in 1 .. N : i < n /\ Says(Pending[i], c, type)
      BY DEF PendsBefore, N
    <2>4. \A n : PendsBefore(n, c, type)' <=>
                   \E i \in 1 .. N + 1 : i < n /\ Says(Pending'[i], c, type)
      BY <1>1 DEF PendsBefore, Says
    <2>5. Pends(c, type)' <=> Pends(c, type) \/ Says(e, c, type)
      BY <1>1, <1>2, <2>1, <2>2
    <2>6. ASSUME NEW n \in 1 .. N
          PROVE  PendsBefore(n, c, type)' <=> PendsBefore(n, c, type)
      <3>1. ~(N + 1 < n)
        BY <1>1
      <3> QED BY <1>1, <1>2, <2>3, <2>4, <3>1
    <2>7. ASSUME NEW n, n = N + 1
          PROVE  PendsBefore(n, c, type)' <=> Pends(c, type)
      <3>1. ~(N + 1 < n) /\ \A i \in 1 .. N : i < n
        BY <1>1, <2>7
      <3>2. (\E i \in 1 .. N + 1 : i < n /\ Says(Pending'[i], c, type))
              <=> \E i \in 1 .. N : Says(Pending[i], c, type)
        BY <1>1, <1>2, <3>1
      <3> QED BY <2>1, <2>4, <3>2
    <2> QED BY <2>5, <2>6, <2>7
  <1>5. \A c, type : Before(c, type)' <=> Before(c, type) \/ Says(e, c, type)
    BY <1>3, <1>4 DEF Before
  <1>6. /\ Len(Pending) = N
        /\ \A c, type :
             /\ \A n \in 1 .. N : PendsBefore(n, c, type)' <=> PendsBefore(n, c, type)
             /\ \A n : n = N + 1 => (PendsBefore(n, c, type)' <=> Pends(c, type))
    BY <1>4 DEF N
  <1> QED BY <1>1, <1>2, <1>3, <1>5, <1>6

-----------------------------------------------------------------------------
(* The protocol of the callbacks.                                          *)
LogInv ==
  \A c \in Connection :
    /\ log[c] # << >> => log[c][1] = "Connection"
    /\ \A i, j \in 1 .. Len(log[c]) : i # j /\ log[c][i] = log[c][j] => log[c][i] = "User"

InTurn(n) ==
  \A c \in Connection : Pending[n].conn = c =>
    /\ Pending[n].type = "Connection" <=>
         ~(Told(c, "Connection") \/ PendsBefore(n, c, "Connection"))
    /\ Pending[n].type = "Disconnection" =>
         ~(Told(c, "Disconnection") \/ PendsBefore(n, c, "Disconnection"))

(* The protocol, of what was told and of each pending event.               *)
LEMMA ProtocolParts ==
  CallbackProtocol <=> LogInv /\ \A n \in 1 .. Len(Pending) : InTurn(n)
  BY DEF CallbackProtocol, LogInv, InTurn

(* What pends first has its turn.                                          *)
LEMMA FirstInTurn ==
  ASSUME IInv, Pending # << >>
  PROVE  LET e == Pending[1]
         IN  /\ e \in Event
             /\ e.type = "Connection" <=> ~Told(e.conn, "Connection")
             /\ e.type = "Disconnection" => ~Told(e.conn, "Disconnection")
PROOF
  <1>1. 1 \in 1 .. Len(Pending) /\ Pending[1] \in Event
    BY PendingTypes, EmptySeq
  <1>2. InTurn(1) /\ Pending[1].conn \in Connection
    BY <1>1, ProtocolParts DEF IInv, ProtocolInv, Event
  <1>3. \A c, type : ~PendsBefore(1, c, type)
    <2>1. \A i \in 1 .. Len(Pending) : ~(i < 1)
      BY PendingTypes
    <2> QED BY <2>1 DEF PendsBefore
  <1> QED BY <1>1, <1>2, <1>3 DEF InTurn

(* A callback begins with a connection or disconnection event.             *)
LEMMA CallbackStep ==
  ASSUME IInv, [Next]_vars, main'.pc = "callback"
  PROVE  UNCHANGED main \/ ConnectionEvent \/ DisconnectionEvent
PROOF
  <1> USE DEF IInv, TypeOK, MainState, MainGoes
  <1>1. ~UserUpdates /\ ~Receive /\ ~MessageDone /\ ~RequireExit /\ ~Destroyed /\ ~Destroy
    BY DEF UserUpdates, Receive, MessageDone, RequireExit, Destroyed, Destroy
  <1>2. ~Poll /\ ~MessageAvailable /\ ~ConnectionDone /\ ~DisconnectionDone /\ ~WakeUp /\ ~Extract
    BY DEF Poll, MessageAvailable, ConnectionDone, DisconnectionDone, WakeUp, Extract
  <1>3. ~UpdateBegin /\ ~UpdateThread /\ ~UpdateThreadEnd /\ ~UpdateEnd /\ ~UpdateAdvertised
    BY DEF UpdateBegin, UpdateThread, UpdateThreadEnd, UpdateEnd, UpdateAdvertised
  <1>4. \A a \in Addr : ~UpdateSent(a) /\ ~UpdateFailed(a)
    BY DEF UpdateSent, UpdateFailed
  <1> QED BY <1>1, <1>2, <1>3, <1>4, Frame DEF Main, DataAvailable, Update

(* What the user is told next keeps the order and is not told twice.       *)
LEMMA LogKept ==
  ASSUME IInv, NEW e \in Event, Tells(e)
  PROVE  LogInv'
PROOF
  <1> DEFINE T == {"Connection", "Disconnection", "User"}
  <1>1. LogInv /\ log \in [Connection -> Seq(T)] /\ e.conn \in Connection /\ e.type \in T
    BY ProtocolParts DEF IInv, ProtocolInv, TypeOK, UserOK, Event
  <1>2. /\ e.type = "Connection" <=> ~Told(e.conn, "Connection")
        /\ e.type = "Disconnection" => ~Told(e.conn, "Disconnection")
    BY FirstInTurn DEF Tells
  <1> SUFFICES ASSUME NEW c \in Connection
               PROVE  /\ log'[c] # << >> => log'[c][1] = "Connection"
                      /\ \A i, j \in 1 .. Len(log'[c]) :
                           i # j /\ log'[c][i] = log'[c][j] => log'[c][i] = "User"
    BY DEF LogInv
  <1>3. CASE c # e.conn
    BY <1>1, <1>3 DEF Tells, Logged, LogInv
  <1>4. CASE c = e.conn
    <2> DEFINE l == log[c]
               N == Len(l)
    <2>1. l \in Seq(T) /\ N \in Nat
      BY <1>1
    <2>2. log'[c] = Append(l, e.type)
      BY <1>1, <1>4 DEF Tells, Logged
    <2>3. /\ Len(log'[c]) = N + 1 /\ log'[c][N + 1] = e.type
          /\ \A i \in 1 .. N : log'[c][i] = l[i]
      BY <1>1, <2>1, <2>2
    <2>4. \A i \in 1 .. N : l[i] = e.type => e.type = "User"
      BY <1>1, <1>2, <1>4 DEF Told
    <2>5. \A i, j \in 1 .. N : i # j /\ l[i] = l[j] => l[i] = "User"
      BY <1>1 DEF LogInv
    <2>6. N = 0 => e.type = "Connection"
      <3>1. N = 0 => ~Told(c, "Connection")
        BY DEF Told
      <3> QED BY <1>2, <1>4, <3>1
    <2>7. N # 0 => 1 \in 1 .. N /\ l[1] = "Connection"
      BY <1>1, <2>1, EmptySeq DEF LogInv
    <2> HIDE DEF N, l
    <2>8. /\ \A i \in 1 .. N + 1 : i \in 1 .. N \/ i = N + 1
          /\ N = 0 => N + 1 = 1
      BY <2>1
    <2>9. log'[c][1] = "Connection"
      BY <2>3, <2>6, <2>7, <2>8
    <2>10. \A i, j \in 1 .. N + 1 : i # j /\ log'[c][i] = log'[c][j] => log'[c][i] = "User"
      BY <2>3, <2>4, <2>5, <2>8
    <2> QED BY <2>3, <2>9, <2>10
  <1> QED BY <1>3, <1>4

(* Nothing is said of a connection before it is accepted.                  *)
LEMMA NothingBefore ==
  ASSUME IInv, NEW c \in Connection, peer[c] = "none", NEW type
  PROVE  ~Before(c, type)
PROOF
  <1>1. TypeOK
    BY DEF IInv
  <1>2. log[c] = << >>
    BY DEF IInv, UniqueInv
  <1>3. \A i \in 1 .. Len(queue) : queue[i].conn # c
    BY DEF IInv, UniqueInv
  <1>4. \A i \in 1 .. Len(Pending) : Pending[i].conn # c
    <2>1. CASE Handling
      <3>1. queue # << >> /\ Pending = Tail(queue)
        BY <2>1 DEF Handling, Pending, IInv, EventInv
      <3>2. \A i \in 1 .. Len(Tail(queue)) : i + 1 \in 1 .. Len(queue)
        BY <1>1, <3>1, FrontTypes
      <3> QED BY <1>1, <1>3, <3>1, <3>2, FrontTypes
    <2>2. CASE ~Handling
      BY <1>3, <2>2 DEF Handling, Pending
    <2> QED BY <2>1, <2>2
  <1>5. ~Told(c, type)
    BY <1>2 DEF Told
  <1> QED BY <1>4, <1>5 DEF Before, Pends, Says

(* What is added has its turn: a new connection was never spoken of, what  *)
(* is received comes from a connection that was announced, and the flag    *)
(* _KnowConnected stands for a disconnection that was not yet advertised.  *)
LEMMA AddedInTurn ==
  ASSUME IInv, [Next]_vars, NEW e \in Event, Announces(e) \/ Receives(e) \/ Notices(e)
  PROVE  /\ e.type = "Connection" <=> ~Before(e.conn, "Connection")
         /\ e.type = "Disconnection" => ~Before(e.conn, "Disconnection")
PROOF
  <1>1. /\ TypeOK /\ UniqueInv
        /\ \A c \in Connection : peer[c] # "none" => Before(c, "Connection")
    BY DEF IInv, ProtocolInv
  <1>3. CASE Announces(e)
    <2>1. PICK c \in Connection, a \in Addr :
            Accept(c, a) /\ e = [type |-> "Connection", sock |-> a, conn |-> c]
      BY <1>3 DEF Announces
    <2>2. peer[c] = "none" /\ e.conn = c /\ e.type = "Connection"
      BY <2>1 DEF Accept
    <2> QED BY <2>2, NothingBefore
  <1>4. ASSUME NEW a \in Addr, sock[a].conn \in Connection
        PROVE  Before(sock[a].conn, "Connection")
    BY <1>1, <1>4, ServerAssumption DEF UniqueInv, Connection
  <1>5. CASE Receives(e)
    BY <1>4, <1>5, OfTypes DEF Receives
  <1>6. CASE Notices(e)
    <2>1. PICK a \in Addr : UpdateFailed(a) /\ sock[a].know /\ sock[a].conn \in Connection
                            /\ e = Of("Disconnection", a)
      BY <1>6 DEF Notices
    <2>2. ~Before(sock[a].conn, "Disconnection")
      <3>1. main.pc = "sockets" /\ sock[a].conn # 0
        BY <2>1, ServerAssumption DEF UpdateFailed, Connection
      <3> QED BY <2>1, <3>1 DEF IInv, KnowInv
    <2> QED BY <1>4, <2>1, <2>2, OfTypes
  <1> QED BY <1>3, <1>5, <1>6

(* The protocol of the callbacks is preserved.                             *)
LEMMA ProtocolKept ==
  ASSUME IInv, [Next]_vars
  PROVE  ProtocolInv'
PROOF
  <1>1. /\ TypeOK /\ UniqueInv /\ LogInv /\ \A n \in 1 .. Len(Pending) : InTurn(n)
        /\ \A c \in Connection : peer[c] # "none" => Before(c, "Connection")
        /\ main.pc = "callback" => Told(main.event.conn, main.event.type)
    BY ProtocolParts DEF IInv, ProtocolInv
  <1>2. ASSUME UNCHANGED << Pending, log >>
        PROVE  /\ \A c, type : Told(c, type)' <=> Told(c, type)
               /\ \A c, type : Before(c, type)' <=> Before(c, type)
               /\ \A n, c, type : PendsBefore(n, c, type)' <=> PendsBefore(n, c, type)
    BY <1>2 DEF Told, Before, Pends, PendsBefore, Says
  <1>3. LogInv'
    <2>1. CASE UNCHANGED log
      BY <1>1, <2>1 DEF LogInv
    <2> QED BY <2>1, LogKept, StoryStep DEF Adds
  <1>4. ASSUME NEW n \in 1 .. Len(Pending')
        PROVE  InTurn(n)'
    <2>1. CASE UNCHANGED << Pending, log >>
      BY <1>1, <1>2, <2>1 DEF InTurn
    <2>2. ASSUME NEW e \in Event, Adds(e), Announces(e) \/ Receives(e) \/ Notices(e)
          PROVE  InTurn(n)'
      <3>1. CASE n \in 1 .. Len(Pending)
        BY <1>1, <2>2, <3>1, AddsStep DEF InTurn
      <3>2. CASE n = Len(Pending) + 1
        <4>1. Pending'[n] = e
          BY <2>2, <3>2, AddsStep
        <4>2. \A c, type : Told(c, type)' \/ PendsBefore(n, c, type)' <=> Before(c, type)
          BY <2>2, <3>2, AddsStep DEF Before
        <4> QED BY <2>2, <4>1, <4>2, AddedInTurn DEF InTurn
      <3> QED BY <2>2, <3>1, <3>2, AddsStep
    <2>3. ASSUME NEW e \in Event, Tells(e)
          PROVE  InTurn(n)'
      BY <1>1, <2>3, TellsStep DEF InTurn
    <2> QED BY <2>1, <2>2, <2>3, StoryStep
  <1>5. ASSUME NEW c \in Connection, peer'[c] # "none"
        PROVE  Before(c, "Connection")'
    <2>1. CASE peer[c] # "none"
      <3>1. Before(c, "Connection")
        BY <1>1, <2>1
      <3> QED BY <1>2, <3>1, AddsStep, TellsStep, StoryStep
    <2>2. CASE peer[c] = "none"
      <3>1. PICK a \in Addr : Accept(c, a)
        <4>1. \A d \in Connection : PeerLeaves(d) => peer'[c] = peer[c] \/ peer[c] # "none"
          BY <1>1 DEF PeerLeaves, TypeOK, NetworkOK
        <4>2. \A d \in Connection, a \in Addr : Accept(d, a) => d = c \/ peer'[c] = peer[c]
          BY <1>1 DEF Accept, TypeOK, NetworkOK
        <4> QED BY <1>5, <2>2, <4>1, <4>2, Frame
      <3> DEFINE e == [type |-> "Connection", sock |-> a, conn |-> c]
      <3>2. /\ e \in Event /\ queue' = Append(queue, e) /\ (Handling' <=> Handling)
            /\ UNCHANGED log /\ Says(e, c, "Connection")
        BY <3>1 DEF Accept, PushMessage, Handling, Event, Says
      <3> HIDE DEF e
      <3> QED BY <3>2, AppendAdds, AddsStep
    <2> QED BY <2>1, <2>2
  <1>6. ASSUME main'.pc = "callback"
        PROVE  Told(main.event.conn, main.event.type)'
    <2> DEFINE e == main.event
    <2>1. e \in Event /\ UNCHANGED e
      <3>1. CASE ConnectionEvent \/ DisconnectionEvent
        BY <1>1, <3>1, FrontTypes
        DEF ConnectionEvent, DisconnectionEvent, IInv, EventInv, MainGoes, TypeOK, MainState
      <3> QED BY <1>1, <1>6, <3>1, CallbackStep, FrontTypes DEF IInv, EventInv
    <2>2. PICK f \in Event : f = e
      BY <2>1
    <2>3. f.conn \in Connection
      BY DEF Event
    <2>4. Told(f.conn, f.type)'
      <3>1. CASE UNCHANGED main
        <4>1. Told(f.conn, f.type)
          BY <1>1, <1>6, <2>2, <3>1
        <4> QED BY <1>2, <2>3, <4>1, AddsStep, TellsStep, StoryStep
      <3>2. CASE ConnectionEvent \/ DisconnectionEvent
        <4>1. Logged(f) /\ Says(f, f.conn, f.type)
          BY <2>2, <3>2 DEF ConnectionEvent, DisconnectionEvent, Says
        <4> QED BY <2>3, <4>1, ToldStep
      <3> QED BY <1>6, <3>1, <3>2, CallbackStep
    <2>5. main'.event = f
      BY <2>1, <2>2
    <2> QED BY <2>4, <2>5 DEF Told
  <1>7. CallbackProtocol'
    BY <1>3, <1>4 DEF CallbackProtocol, LogInv, InTurn
  <1> QED BY <1>5, <1>6, <1>7 DEF ProtocolInv

-----------------------------------------------------------------------------
(* What stays true of the socket objects while their events are pending.   *)
LEMMA MainLeaves ==
  ASSUME IInv, [Next]_vars
  PROVE  /\ main.pc = "advertised" => UNCHANGED main \/ UpdateAdvertised
         /\ main.pc = "callback" => UNCHANGED main \/ ConnectionDone \/ DisconnectionDone
PROOF
  <1>1. CASE main.pc = "advertised"
    BY <1>1, Frame
    DEF Main, Destroy, UserUpdates, Receive, MessageDone, RequireExit, Destroyed, DataAvailable,
        Update, Poll, MessageAvailable, ConnectionEvent, DisconnectionEvent, ConnectionDone,
        DisconnectionDone, WakeUp, Extract, UpdateBegin, UpdateThread, UpdateSent, UpdateFailed,
        UpdateThreadEnd, UpdateEnd
  <1>2. CASE main.pc = "callback"
    BY <1>2, Frame
    DEF Main, Destroy, UserUpdates, Receive, MessageDone, RequireExit, Destroyed, DataAvailable,
        Update, Poll, MessageAvailable, ConnectionEvent, DisconnectionEvent, WakeUp, Extract,
        UpdateBegin, UpdateThread, UpdateSent, UpdateFailed, UpdateAdvertised, UpdateThreadEnd,
        UpdateEnd
  <1> QED BY <1>1, <1>2

(* Once the end of a connection was told, only its messages can follow.    *)
LEMMA NothingAfterEnd ==
  ASSUME IInv, NEW c \in Connection, Told(c, "Disconnection")
  PROVE  \A n \in 1 .. Len(Pending) : Pending[n].conn = c => Pending[n].type = "User"
PROOF
  <1>1. LogInv /\ \A n \in 1 .. Len(Pending) : InTurn(n)
    BY ProtocolParts DEF IInv, ProtocolInv
  <1>2. Told(c, "Connection")
    <2>1. log[c] \in Seq({"Connection", "Disconnection", "User"}) /\ log[c] # << >>
      BY EmptySeq DEF Told, IInv, TypeOK, UserOK
    <2>2. 1 \in 1 .. Len(log[c])
      BY <2>1, EmptySeq
    <2> QED BY <1>1, <2>1, <2>2 DEF Told, LogInv
  <1>3. ASSUME NEW n \in 1 .. Len(Pending), Pending[n].conn = c
        PROVE  Pending[n].type = "User"
    <2>1. Pending[n].type \notin {"Connection", "Disconnection"}
      BY <1>1, <1>2, <1>3 DEF InTurn
    <2> QED BY <2>1, PendingTypes DEF Event
  <1> QED BY <1>3

(* What was told stays told.                                               *)
LEMMA ToldOnce ==
  ASSUME IInv, [Next]_vars, NEW c \in Connection, NEW type, Told(c, type)
  PROVE  Told(c, type)'
PROOF
  <1>1. CASE UNCHANGED log
    BY <1>1 DEF Told
  <1> QED BY <1>1, StoryStep, AddsStep, TellsStep

(* Only its receive thread takes an object away from its connection.       *)
LEMMA ConnKept ==
  ASSUME IInv, [Next]_vars, main'.pc # "destroyed", NEW a \in Addr, sock[a].conn # 0
  PROVE  sock'[a].conn = sock[a].conn \/ \E t \in Thread : RecvDelete(t) /\ a \in removeSet[t]
PROOF
  <1>1. TypeOK /\ ~Destroyed
    BY OwnerStep DEF IInv
  <1>2. ASSUME NEW c \in Connection, NEW x \in Addr, Accept(c, x)
        PROVE  sock'[a].conn = sock[a].conn
    BY <1>1, <1>2, AcceptFields
  <1>3. ASSUME NEW t \in Thread, Dispatch(t)
        PROVE  sock'[a].conn = sock[a].conn
    BY <1>1, <1>3, DispatchFields DEF Dispatch, IInv, ThreadsInv
  <1>4. ASSUME NEW t \in Thread, RecvDelete(t), a \notin removeSet[t]
        PROVE  sock'[a].conn = sock[a].conn
    BY <1>1, <1>4, DeleteFields
  <1>5. CASE ListenAdvertised \/ UpdateAdvertised
    <2>1. \E x \in Addr, b \in BOOLEAN : sock' = [sock EXCEPT ![x].know = b]
      BY <1>5 DEF ListenAdvertised, UpdateAdvertised, IInv, ThreadsInv, EventInv, Event
    <2> QED BY <1>1, <2>1, KnowFields
  <1> QED BY <1>1, <1>2, <1>3, <1>4, <1>5, Fields DEF FieldsKept

(* A socket whose connection or disconnection is still to be told is not   *)
(* deleted: the sockets in _RemoveSet have had their end told, after which *)
(* nothing but messages can be pending.                                    *)
LEMMA AliveKept ==
  ASSUME IInv, [Next]_vars
  PROVE  AliveInv'
PROOF
  <1> SUFFICES ASSUME main'.pc # "destroyed"
               PROVE  /\ \A n \in 1 .. Len(Pending') : Alive(Pending[n])'
                      /\ main'.pc = "callback" => Alive(main.event)'
    BY DEF AliveInv
  <1>1. /\ TypeOK /\ main.pc # "destroyed" /\ ~Destroyed
        /\ \A i \in 1 .. Len(Pending) : Alive(Pending[i])
        /\ main.pc = "callback" => Alive(main.event)
    BY OwnerStep DEF IInv, AliveInv
  <1>2. ASSUME NEW e \in Event, Alive(e),
               \/ \E n \in 1 .. Len(Pending) : e = Pending[n]
               \/ main.pc = "callback" /\ e = main.event
        PROVE  Alive(e)'
    <2> SUFFICES ASSUME e.type # "User" PROVE sock'[e.sock].conn = e.conn
      BY DEF Alive
    <2>1. /\ e.sock \in Addr /\ e.conn \in Connection /\ e.conn # 0
          /\ sock[e.sock].conn = e.conn
      BY <1>2, ServerAssumption DEF Alive, Event, Connection
    <2>2. ASSUME NEW t \in Thread, e.sock \in removeSet[t]
          PROVE  FALSE
      <3>1. /\ Told(e.conn, "Disconnection")
            /\ main.pc = "callback" => main.event.conn # e.conn
        BY <1>1, <2>1, <2>2 DEF IInv, RemoveInv
      <3> QED BY <1>2, <2>1, <3>1, NothingAfterEnd
    <2> QED BY <2>1, <2>2, ConnKept
  <1>3. ASSUME NEW n \in 1 .. Len(Pending')
        PROVE  Alive(Pending[n])'
    <2>1. \A k \in 1 .. Len(Pending) : Pending[k] \in Event /\ Alive(Pending[k])
      BY <1>1, PendingTypes
    <2>2. ASSUME NEW k \in 1 .. Len(Pending), Pending'[n] = Pending[k]
          PROVE  Alive(Pending[n])'
      BY <1>2, <2>1, <2>2 DEF Alive
    <2>3. CASE UNCHANGED Pending
      BY <2>2, <2>3
    <2>4. ASSUME NEW e \in Event, Tells(e)
          PROVE  Alive(Pending[n])'
      BY <2>2, <2>4, TellsStep
    <2>5. ASSUME NEW e \in Event, Adds(e), Announces(e) \/ Receives(e) \/ Notices(e)
          PROVE  Alive(Pending[n])'
      <3>1. Alive(e)'
        <4>1. CASE Announces(e)
          BY <1>1, <4>1, AcceptFields DEF Announces, Alive
        <4>2. CASE Receives(e)
          BY <4>2, OfTypes DEF Receives, Alive
        <4>3. CASE Notices(e)
          BY <4>3, OfTypes DEF Notices, Alive, UpdateFailed
        <4> QED BY <2>5, <4>1, <4>2, <4>3
      <3>2. n \in 1 .. Len(Pending) \/ n = Len(Pending) + 1
        BY <2>5, AddsStep
      <3>3. CASE n \in 1 .. Len(Pending)
        BY <2>2, <2>5, <3>3, AddsStep
      <3>4. CASE n = Len(Pending) + 1
        BY <2>5, <3>1, <3>4, AddsStep DEF Alive
      <3> QED BY <3>2, <3>3, <3>4
    <2> QED BY <2>3, <2>4, <2>5, StoryStep
  <1>4. ASSUME main'.pc = "callback"
        PROVE  Alive(main.event)'
    <2>1. CASE UNCHANGED main
      <3>1. main.event \in Event /\ Alive(main.event) /\ main.pc = "callback"
        BY <1>1, <1>4, <2>1, FrontTypes DEF IInv, EventInv
      <3> QED BY <1>2, <2>1, <3>1 DEF Alive
    <2>2. CASE ConnectionEvent \/ DisconnectionEvent
      <3>1. /\ main.event = Pending[1] /\ 1 \in 1 .. Len(Pending) /\ main.event \in Event
            /\ main'.event = main.event
        <4>1. main.pc = "peeked" /\ main'.event = main.event
          BY <1>1, <2>2 DEF ConnectionEvent, DisconnectionEvent, MainGoes, TypeOK, MainState
        <4>2. queue # << >> /\ main.event = Head(queue) /\ Pending = queue
          BY <4>1 DEF IInv, EventInv, Pending
        <4>3. Len(queue) \in Nat \ {0} /\ Head(queue) = queue[1] /\ Head(queue) \in Event
          BY <1>1, <4>2, FrontTypes
        <4>4. 1 \in 1 .. Len(queue)
          BY <4>3
        <4> QED BY <4>1, <4>2, <4>3, <4>4
      <3> QED BY <1>1, <1>2, <3>1 DEF Alive
    <2> QED BY <1>4, <2>1, <2>2, CallbackStep
  <1> QED BY <1>3, <1>4

(* When a disconnection is said of a connection for the first time.        *)
LEMMA EndStep ==
  ASSUME IInv, [Next]_vars, NEW c \in Connection, Before(c, "Disconnection")'
  PROVE  \/ Before(c, "Disconnection")
         \/ \E a \in Addr : /\ UpdateFailed(a) /\ sock[a].conn = c /\ sock[a].know
                            /\ a \in connections[main.thread]
PROOF
  <1>1. CASE UNCHANGED << Pending, log >>
    BY <1>1 DEF Before, Told, Pends
  <1>2. ASSUME NEW e \in Event, Adds(e), Announces(e) \/ Receives(e) \/ Notices(e)
        PROVE  \/ Before(c, "Disconnection")
               \/ \E a \in Addr : /\ UpdateFailed(a) /\ sock[a].conn = c /\ sock[a].know
                                  /\ a \in connections[main.thread]
    <2>1. Before(c, "Disconnection") \/ Says(e, c, "Disconnection")
      BY <1>2, AddsStep
    <2>2. CASE Announces(e) \/ Receives(e)
      BY <2>1, <2>2, OfTypes DEF Announces, Receives, Says
    <2>3. CASE Notices(e)
      BY <2>1, <2>3, OfTypes DEF Notices, Says
    <2> QED BY <1>2, <2>2, <2>3
  <1>3. ASSUME NEW e \in Event, Tells(e)
        PROVE  Before(c, "Disconnection")
    BY <1>3, TellsStep
  <1> QED BY <1>1, <1>2, <1>3, StoryStep

(* Nor is one that is being advertised or dealt out deleted.               *)
LEMMA FreshIsKept ==
  ASSUME IInv, main.pc # "destroyed", NEW a \in Addr, Fresh(a), NEW t \in Thread
  PROVE  a \notin removeSet[t]
PROOF
  <1> SUFFICES ASSUME a \in removeSet[t] PROVE FALSE
    OBVIOUS
  <1>1. sock[a].conn # 0 /\ Told(sock[a].conn, "Disconnection")
    BY DEF IInv, RemoveInv, OwnerInv, OwnedInv, Accepted
  <1> QED BY <1>1 DEF IInv, KnowInv, Before

(* advertiseDisconnection goes with _KnowConnected.                        *)
LEMMA KnowKept ==
  ASSUME IInv, [Next]_vars
  PROVE  KnowInv'
PROOF
  <1> SUFFICES ASSUME main'.pc # "destroyed"
               PROVE  /\ \A a \in Addr :
                           sock'[a].conn # 0 /\ Before(sock[a].conn, "Disconnection")' =>
                             /\ sock'[a].know => main'.pc = "advertised" /\ main'.event.sock = a
                             /\ ~Fresh(a)'
                      /\ listen'.pc \in {"dispatch", "count", "wake"} => sock'[listen'.sock].know
    BY DEF KnowInv
  <1>1. /\ TypeOK /\ main.pc # "destroyed" /\ ~Destroyed
        /\ \A a \in Addr : sock[a].conn # 0 /\ Before(sock[a].conn, "Disconnection") =>
             /\ sock[a].know => main.pc = "advertised" /\ main.event.sock = a
             /\ ~Fresh(a)
        /\ listen.pc \in {"dispatch", "count", "wake"} => sock[listen.sock].know
    BY OwnerStep DEF IInv, KnowInv
  <1>2. ASSUME NEW a \in Addr, NEW c \in Connection, sock'[a].conn = c,
               Before(c, "Disconnection")'
        PROVE  /\ sock'[a].know => main'.pc = "advertised" /\ main'.event.sock = a
               /\ ~Fresh(a)'
    <2>1. \A b \in Addr : sock[b].conn = c => sock[b].conn # 0
      BY ServerAssumption DEF Connection
    <2>2. ASSUME NEW b \in Addr, UpdateFailed(b), sock[b].conn = c, sock[b].know,
                 b \in connections[main.thread]
          PROVE  main'.pc = "advertised" /\ main'.event.sock = a /\ ~Fresh(a)'
      <3>1. UNCHANGED << sock, listen >> /\ main.pc = "sockets"
        BY <2>2 DEF UpdateFailed
      <3>2. a = b
        BY <1>2, <2>1, <2>2, <3>1 DEF IInv, UniqueInv
      <3>3. main'.pc = "advertised" /\ main'.event.sock = a
        <4>1. main' = [main EXCEPT !.pc = "advertised", !.socks = @ \ {b},
                                   !.event = Of("Disconnection", b)]
          BY <2>2 DEF UpdateFailed
        <4>2. Of("Disconnection", b).sock = b
          BY DEF Of
        <4> QED BY <1>1, <3>2, <4>1, <4>2 DEF TypeOK, MainState
      <3>4. main.thread \in Thread /\ sock[b].owner = main.thread
        BY <1>1, <2>2, <3>1 DEF IInv, ThreadsInv, OwnerInv, OwnedInv, Listed
      <3>5. ~Fresh(a)
        BY <1>1, <2>1, <2>2, <3>2, <3>4, ServerAssumption
        DEF IInv, OwnerInv, OwnedInv, Held, Thread
      <3> QED BY <3>1, <3>3, <3>5 DEF Fresh
    <2>3. CASE Before(c, "Disconnection")
      <3>1. sock[a].conn = c
        <4>1. ASSUME NEW d \in Connection, NEW x \in Addr, Accept(d, x), sock[a].conn # c
              PROVE  FALSE
          <5>1. d = c /\ peer[d] = "none"
            <6>1. peer[d] = "none"
              BY <4>1 DEF Accept
            <6>2. sock'[x].conn = d /\ (a # x => sock'[a] = sock[a])
              BY <1>1, <4>1, AcceptFields
            <6> QED BY <1>2, <4>1, <6>1, <6>2
          <5> QED BY <2>3, <5>1, NothingBefore
        <4> QED BY <1>2, <2>1, <4>1, ConnStep, ServerAssumption DEF Connection
      <3>2. /\ sock[a].know => main.pc = "advertised" /\ main.event.sock = a
            /\ ~Fresh(a)
        BY <1>1, <2>1, <2>3, <3>1
      <3>3. ~Fresh(a)'
        <4>1. ASSUME NEW d \in Connection, NEW x \in Addr, Accept(d, x)
              PROVE  listen'.sock # a
          BY <1>1, <2>1, <3>1, <4>1, AcceptFields DEF Accept, TypeOK, ListenState
        <4>2. ASSUME NEW t \in Thread, Dispatch(t)
              PROVE  ~Fresh(a)'
          BY <1>1, <4>2 DEF Dispatch, Fresh, TypeOK, ListenState
        <4>3. CASE ListenAdvertised \/ Counting \/ DispatchEnd \/ ListenExits
          BY <1>1, <3>2, <4>3, CountingStep
          DEF ListenAdvertised, DispatchEnd, ListenExits, Fresh, TypeOK, ListenState
        <4> QED BY <3>2, <4>1, <4>2, <4>3, Frame DEF Fresh
      <3>4. CASE UpdateAdvertised
        <4>1. /\ main.event.sock \in Addr
              /\ sock' = [sock EXCEPT ![main.event.sock].know = FALSE]
          BY <3>4, OwnerStep DEF UpdateAdvertised
        <4> QED BY <1>1, <3>2, <3>3, <4>1, KnowFields
      <3>5. CASE ~UpdateAdvertised
        <4>1. sock'[a].know => sock[a].know
          <5>1. ASSUME NEW d \in Connection, NEW x \in Addr, Accept(d, x)
                PROVE  sock'[a] = sock[a]
            BY <1>1, <2>1, <3>1, <5>1, AcceptFields
          <5>2. ASSUME NEW t \in Thread, Dispatch(t)
                PROVE  sock'[a].know = sock[a].know
            BY <1>1, <5>2, DispatchFields DEF Dispatch, IInv, ThreadsInv
          <5>3. ASSUME NEW t \in Thread, RecvDelete(t)
                PROVE  sock'[a] = sock[a]
            BY <1>1, <1>2, <2>1, <3>1, <5>3, DeleteFields DEF Freed
          <5>4. CASE ListenAdvertised
            <6>1. /\ listen.sock \in Addr /\ Fresh(listen.sock)
                  /\ sock' = [sock EXCEPT ![listen.sock].know = TRUE]
              BY <5>4 DEF ListenAdvertised, IInv, ThreadsInv, Fresh
            <6> QED BY <1>1, <3>2, <6>1, KnowFields
          <5> QED BY <1>1, <3>5, <5>1, <5>2, <5>3, <5>4, Fields DEF FieldsKept
        <4> QED BY <3>2, <3>3, <3>5, <4>1, MainLeaves
      <3> QED BY <3>4, <3>5
    <2> QED BY <1>2, <2>2, <2>3, EndStep
  <1>3. ASSUME listen'.pc \in {"dispatch", "count", "wake"}
        PROVE  sock'[listen'.sock].know
    <2>1. CASE ListenAdvertised
      <3>1. /\ listen.sock \in Addr /\ listen'.sock = listen.sock
            /\ sock' = [sock EXCEPT ![listen.sock].know = TRUE]
        BY <1>1, <2>1 DEF ListenAdvertised, IInv, ThreadsInv, TypeOK, ListenState
      <3> QED BY <1>1, <3>1, KnowFields
    <2>2. ASSUME NEW t \in Thread, Dispatch(t)
          PROVE  sock'[listen'.sock].know
      <3>1. listen.pc = "count" /\ listen.sock \in Addr /\ listen'.sock = listen.sock
        BY <1>1, <2>2 DEF Dispatch, IInv, ThreadsInv, TypeOK, ListenState
      <3> QED BY <1>1, <2>2, <3>1, DispatchFields
    <2>3. CASE UNCHANGED listen
      <3>1. /\ listen.pc \in {"dispatch", "count", "wake"} /\ listen.sock \in Addr
            /\ sock[listen.sock].know
        BY <1>1, <1>3, <2>3 DEF IInv, ThreadsInv
      <3>2. ASSUME NEW t \in Thread, RecvDelete(t)
            PROVE  sock'[listen.sock] = sock[listen.sock]
        <4>1. listen.sock \notin removeSet[t]
          BY <1>1, <3>1, NewIsKept, FreshIsKept DEF Fresh
        <4> QED BY <1>1, <3>1, <3>2, <4>1, DeleteFields
      <3>3. ASSUME UpdateAdvertised
            PROVE  sock'[listen.sock].know = sock[listen.sock].know
        <4>1. /\ main.event.sock \in Addr /\ main.pc = "advertised" /\ main.thread \in Thread
              /\ sock' = [sock EXCEPT ![main.event.sock].know = FALSE]
          BY <3>3, OwnerStep DEF UpdateAdvertised, IInv, ThreadsInv
        <4>2. listen.sock # main.event.sock
          <5>1. listen.pc = "dispatch"
            BY <3>1, <4>1 DEF IInv, ThreadsInv
          <5>2. Fresh(listen.sock) /\ ~Fresh(main.event.sock)
            <6>1. /\ sock[main.event.sock].owner \in Thread
                  /\ sock[main.event.sock].conn # 0
              BY <1>1, <4>1 DEF IInv, OwnerInv, SweepListed, OwnedInv, Listed
            <6> QED BY <1>1, <4>1, <5>1, <6>1, ServerAssumption
                    DEF Fresh, IInv, OwnerInv, OwnedInv, Held, Thread
          <5> QED BY <5>2
        <4> QED BY <1>1, <3>1, <4>1, <4>2, KnowFields
      <3>4. /\ ~ListenAdvertised /\ ~(\E c \in Connection, a \in Addr : Accept(c, a))
            /\ ~(\E t \in Thread : Dispatch(t))
        <4>1. ASSUME NEW c \in Connection, NEW a \in Addr, Accept(c, a)
              PROVE  FALSE
          BY <3>1, <4>1 DEF Accept
        <4>2. ASSUME NEW t \in Thread, Dispatch(t)
              PROVE  FALSE
          <5>1. listen.pc = "count" /\ listen'.pc = "wake"
            BY <1>1, <4>2 DEF Dispatch, TypeOK, ListenState
          <5> QED BY <2>3, <5>1
        <4>3. ~ListenAdvertised
          BY <3>1 DEF ListenAdvertised
        <4> QED BY <4>1, <4>2, <4>3
      <3>5. sock'[listen.sock].know = sock[listen.sock].know
        BY <1>1, <3>1, <3>2, <3>3, <3>4, Fields DEF FieldsKept
      <3> QED BY <2>3, <3>1, <3>5
    <2>4. ASSUME NEW c \in Connection, NEW a \in Addr, Accept(c, a)
          PROVE  FALSE
      BY <1>1, <1>3, <2>4 DEF Accept, TypeOK, ListenState
    <2>5. CASE DispatchEnd \/ ListenExits
      <3>1. listen'.pc \in {"accept", "ended"}
        BY <1>1, <2>5 DEF DispatchEnd, ListenExits, TypeOK, ListenState
      <3> QED BY <1>3, <3>1
    <2>6. CASE Counting
      <3>1. listen.pc \in {"dispatch", "count"} /\ listen'.sock = listen.sock /\ UNCHANGED sock
        BY <1>1, <2>6, CountingStep
      <3> QED BY <1>1, <3>1
    <2> QED BY <2>1, <2>2, <2>3, <2>4, <2>5, <2>6, Frame
  <1>4. \A a \in Addr : sock'[a].conn \in Connection \union {0}
    BY Types DEF TypeOK, SockOK, SockState
  <1> QED BY <1>2, <1>3, <1>4

(* Only sockets whose end was told are to be removed.                      *)
LEMMA RemoveKept ==
  ASSUME IInv, [Next]_vars
  PROVE  RemoveInv'
PROOF
  <1> SUFFICES ASSUME main'.pc # "destroyed", NEW t \in Thread, NEW a \in removeSet'[t]
               PROVE  /\ Told(sock[a].conn, "Disconnection")'
                      /\ main'.pc = "callback" => main'.event.conn # sock'[a].conn
    BY DEF RemoveInv
  <1>1. /\ TypeOK /\ main.pc # "destroyed"
        /\ \A x \in Addr : sock[x].conn \in Connection \union {0}
        /\ a \in Addr
    BY OwnerStep, Types DEF IInv, TypeOK, SockOK, SockState, TasksOK
  <1>2. CASE a \in removeSet[t]
    <2>1. /\ Told(sock[a].conn, "Disconnection")
          /\ main.pc = "callback" => main.event.conn # sock[a].conn
          /\ a \in connections[t]
      BY <1>1, <1>2 DEF IInv, RemoveInv, OwnerInv, RemoveListed
    <2>2. PICK c \in Connection : sock[a].conn = c /\ sock[a].conn # 0
      BY <1>1, <2>1 DEF IInv, OwnerInv, OwnedInv, Listed
    <2>3. sock'[a].conn = c
      <3>1. ASSUME NEW u \in Thread, RecvDelete(u), a \in removeSet[u]
            PROVE  FALSE
        <4>1. u = t
          BY <1>1, <2>1, <3>1 DEF IInv, OwnerInv, RemoveListed, OwnedInv, Listed
        <4> QED BY <1>1, <3>1, <4>1, DeleteFields
      <3> QED BY <1>1, <2>2, <3>1, ConnKept
    <2>4. Told(c, "Disconnection")'
      BY <2>1, <2>2, ToldOnce
    <2>5. ASSUME ConnectionEvent \/ DisconnectionEvent
          PROVE  main'.event.conn # c
      <3>1. /\ main.pc = "peeked" /\ main'.event = main.event
            /\ main.event.type \in {"Connection", "Disconnection"}
        BY <1>1, <2>5 DEF ConnectionEvent, DisconnectionEvent, MainGoes, TypeOK, MainState
      <3>2. queue # << >> /\ main.event = Head(queue) /\ Pending = queue
        BY <3>1 DEF IInv, EventInv, Pending
      <3>3. main.event = Pending[1] /\ 1 \in 1 .. Len(Pending)
        BY <1>1, <3>2, FrontTypes, PendingTypes
      <3> QED BY <2>1, <2>2, <3>1, <3>3, NothingAfterEnd
    <2>6. main'.pc = "callback" => main'.event.conn # c
      BY <2>1, <2>2, <2>5, CallbackStep
    <2> QED BY <2>3, <2>4, <2>6 DEF Told
  <1>3. CASE a \notin removeSet[t]
    <2>1. DisconnectionDone
      <3>1. ASSUME NEW u \in Thread, RecvDelete(u)
            PROVE  FALSE
        BY <1>1, <1>3, <3>1, DeleteFields
      <3> QED BY <1>3, <3>1, Frame
    <2>2. /\ a = main.event.sock /\ main.pc = "callback" /\ main'.pc = "wakeup"
          /\ main.event.type = "Disconnection" /\ UNCHANGED << sock, log >>
      BY <1>1, <1>3, <2>1 DEF DisconnectionDone, TypeOK, TasksOK, MainState
    <2>3. sock[a].conn = main.event.conn
      BY <2>2 DEF IInv, AliveInv, Alive
    <2>4. Told(sock[a].conn, "Disconnection")
      BY <2>2, <2>3 DEF IInv, ProtocolInv
    <2> QED BY <2>2, <2>4 DEF Told
  <1> QED BY <1>2, <1>3

-----------------------------------------------------------------------------
(* The connected clients.                                                  *)
Client(a) ==
  LET c == sock[a].conn
  IN  /\ c # 0
      /\ Told(c, "Connection")
      /\ Told(c, "Disconnection") => main.pc = "callback" /\ main.event.conn = c

(* _ConnectedClients follows the callbacks.                                *)
LEMMA ClientsKept ==
  ASSUME IInv, [Next]_vars
  PROVE  ClientsInv'
PROOF
  <1> SUFFICES ASSUME main'.pc # "destroyed"
               PROVE  /\ clients' = {a \in Addr : Client(a)'}
                      /\ main'.pc = "callback" /\ main'.event.type = "Connection" =>
                           ~Told(main.event.conn, "Disconnection")'
    BY DEF ClientsInv, ClientsMatchCallbacks, Client
  <1>1. /\ TypeOK /\ main.pc # "destroyed" /\ clients = {a \in Addr : Client(a)}
        /\ \A x \in Addr : sock[x].conn \in Connection \union {0}
        /\ main.pc = "callback" /\ main.event.type = "Connection" =>
             ~Told(main.event.conn, "Disconnection")
    BY OwnerStep
    DEF IInv, TypeOK, SockOK, SockState, ClientsInv, ClientsMatchCallbacks, Client
  <1>2. ASSUME NEW a \in Addr, NEW b \in Addr, sock[a].conn = sock[b].conn, sock[a].conn # 0
        PROVE  a = b
    BY <1>2 DEF IInv, UniqueInv
  <1>3. ASSUME NEW a \in Addr, NEW e \in Event, Logged(e), sock'[a].conn = sock[a].conn,
               sock[a].conn # 0
        PROVE  \A type : Told(sock[a].conn, type)'
                           <=> Told(sock[a].conn, type) \/ Says(e, sock[a].conn, type)
    <2>1. PICK c \in Connection : sock[a].conn = c
      BY <1>1, <1>3
    <2>2. \A type : Told(c, type)' <=> Told(c, type) \/ Says(e, c, type)
      BY <1>3, ToldStep
    <2> QED BY <1>3, <2>1, <2>2 DEF Told
  <1>4. CASE ConnectionEvent \/ DisconnectionEvent
    <2> DEFINE e == main.event
    <2>1. /\ main.pc = "peeked" /\ main'.pc = "callback" /\ main'.event = e
          /\ e.type \in {"Connection", "Disconnection"} /\ Logged(e)
      BY <1>1, <1>4 DEF ConnectionEvent, DisconnectionEvent, MainGoes, TypeOK, MainState
    <2>2. e = Pending[1] /\ 1 \in 1 .. Len(Pending) /\ Pending # << >> /\ e \in Event
      <3>1. queue # << >> /\ main.event = Head(queue) /\ Pending = queue
        BY <2>1 DEF IInv, EventInv, Pending
      <3> QED BY <1>1, <3>1, FrontTypes, PendingTypes
    <2>3. e.sock \in Addr /\ e.conn \in Connection /\ e.conn # 0 /\ sock[e.sock].conn = e.conn
      <3>1. Alive(e)
        BY <1>1, <2>2 DEF IInv, AliveInv
      <3> QED BY <2>1, <2>2, <3>1, ServerAssumption DEF Alive, Event, Connection
    <2>4. \A a \in Addr : sock'[a].conn = sock[a].conn
      BY <1>1, <1>4 DEF ConnectionEvent, DisconnectionEvent, TypeOK, SockOK, SockState
    <2>5. /\ e.type = "Connection" <=> ~Told(e.conn, "Connection")
          /\ ~Told(e.conn, "Disconnection")
      BY <2>1, <2>2, <2>3, FirstInTurn, NothingAfterEnd
    <2>6. clients' = IF e.type = "Connection" THEN clients \union {e.sock} ELSE clients
      BY <1>4 DEF ConnectionEvent, DisconnectionEvent
    <2>7. PICK f \in Event : f = e
      BY <2>2
    <2> HIDE DEF e
    <2>8. ASSUME NEW a \in Addr
          PROVE  a \in clients' <=> Client(a)'
      <3>1. Client(a)' <=> /\ sock[a].conn # 0
                           /\ Told(sock[a].conn, "Connection")'
                           /\ Told(sock[a].conn, "Disconnection")' => e.conn = sock[a].conn
        BY <2>1, <2>4 DEF Client, Told
      <3>2. ASSUME sock[a].conn # 0
            PROVE  \A type : Told(sock[a].conn, type)'
                               <=> Told(sock[a].conn, type) \/ Says(e, sock[a].conn, type)
        BY <1>3, <2>1, <2>4, <2>7, <3>2
      <3>3. CASE a = e.sock
        BY <1>1, <2>1, <2>3, <2>5, <2>6, <3>1, <3>2, <3>3 DEF Client, Says
      <3>4. CASE a # e.sock /\ sock[a].conn # 0
        <4>1. sock[a].conn # e.conn
          BY <1>2, <2>3, <3>4
        <4>2. \A type : Told(sock[a].conn, type)' <=> Told(sock[a].conn, type)
          BY <3>2, <3>4, <4>1 DEF Says
        <4>3. Client(a)' <=> Client(a)
          BY <2>1, <3>1, <3>4, <4>1, <4>2 DEF Client
        <4> QED BY <1>1, <2>6, <3>4, <4>3
      <3>5. CASE a # e.sock /\ sock[a].conn = 0
        BY <1>1, <2>6, <3>1, <3>5 DEF Client
      <3> QED BY <3>3, <3>4, <3>5
    <2>9. ASSUME main'.event.type = "Connection"
          PROVE  ~Told(main.event.conn, "Disconnection")'
      <3>1. ~Told(f.conn, "Disconnection")' /\ main'.event = f
        BY <2>1, <2>3, <2>5, <2>7, <2>9, ToldStep DEF Says
      <3> QED BY <3>1 DEF Told
    <2>10. clients' \subseteq Addr
      BY Types DEF TypeOK, UserOK
    <2> QED BY <2>8, <2>9, <2>10
  <1>5. CASE DisconnectionDone
    <2>1. /\ main.pc = "callback" /\ main'.pc = "wakeup" /\ main.event.type = "Disconnection"
          /\ UNCHANGED << sock, log >> /\ clients' = clients \ {main.event.sock}
      BY <1>1, <1>5 DEF DisconnectionDone, TypeOK, MainState
    <2>2. /\ main.event.sock \in Addr /\ main.event.conn # 0
          /\ sock[main.event.sock].conn = main.event.conn
          /\ Told(main.event.conn, "Disconnection")
      BY <1>1, <2>1, FrontTypes, ServerAssumption
      DEF IInv, AliveInv, Alive, ProtocolInv, EventInv, Event, Connection
    <2>3. ASSUME NEW a \in Addr
          PROVE  a \in clients' <=> Client(a)'
      <3>1. Client(a)' <=> /\ sock[a].conn # 0
                           /\ Told(sock[a].conn, "Connection")
                           /\ ~Told(sock[a].conn, "Disconnection")
        BY <2>1 DEF Client, Told
      <3>2. sock[a].conn = main.event.conn => a = main.event.sock
        BY <1>2, <2>2
      <3> QED BY <1>1, <2>1, <2>2, <3>1, <3>2 DEF Client
    <2>4. clients' \subseteq Addr
      BY <1>1, <2>1
    <2> QED BY <2>1, <2>3, <2>4
  <1>6. CASE ConnectionDone
    <2>1. /\ main.pc = "callback" /\ main'.pc = "extract" /\ main.event.type = "Connection"
          /\ UNCHANGED << sock, log, clients >>
      BY <1>1, <1>6 DEF ConnectionDone, MainGoes, TypeOK, MainState
    <2>2. \A a \in Addr : Client(a)' <=> Client(a)
      BY <1>1, <2>1 DEF Client, Told
    <2> QED BY <1>1, <2>1, <2>2
  <1>7. CASE Receive
    <2>1. /\ main.pc = "receive" /\ main'.pc = "message" /\ UNCHANGED << sock, clients >>
          /\ \E e \in Event : Logged(e) /\ e.type = "User"
      BY <1>1, <1>7, FrontTypes DEF Receive, IInv, EventInv
    <2>2. \A a \in Addr : Client(a)' <=> Client(a)
      <3>1. \A a \in Addr : sock[a].conn # 0 =>
              /\ Told(sock[a].conn, "Connection")' <=> Told(sock[a].conn, "Connection")
              /\ Told(sock[a].conn, "Disconnection")' <=> Told(sock[a].conn, "Disconnection")
        BY <1>3, <2>1 DEF Says
      <3> QED BY <2>1, <3>1 DEF Client
    <2> QED BY <1>1, <2>1, <2>2
  <1>8. CASE ~ConnectionEvent /\ ~DisconnectionEvent /\ ~DisconnectionDone /\ ~ConnectionDone
             /\ ~Receive
    <2>1. UNCHANGED << log, clients >>
      BY <1>8, Frame
    <2>2. UNCHANGED main \/ (main.pc # "callback" /\ main'.pc # "callback")
      <3>1. main.pc = "callback" => UNCHANGED main
        BY <1>8, MainLeaves
      <3>2. main'.pc = "callback" => UNCHANGED main
        BY <1>8, CallbackStep
      <3> QED BY <3>1, <3>2
    <2>3. ASSUME NEW a \in Addr
          PROVE  Client(a)' <=> Client(a)
      <3>1. CASE sock'[a].conn = sock[a].conn
        BY <2>1, <2>2, <3>1 DEF Client, Told
      <3>2. CASE sock[a].conn # 0 /\ sock'[a].conn # sock[a].conn
        <4>1. PICK t \in Thread : RecvDelete(t) /\ a \in removeSet[t]
          BY <3>2, ConnKept
        <4>2. sock'[a].conn = 0
          BY <1>1, <4>1, DeleteFields DEF Freed
        <4>3. ~Client(a)
          BY <1>1, <4>1 DEF Client, IInv, RemoveInv
        <4> QED BY <4>2, <4>3 DEF Client
      <3>3. CASE sock[a].conn = 0 /\ sock'[a].conn # 0
        <4>1. PICK c \in Connection, x \in Addr : Accept(c, x)
          BY <3>3, ConnStep
        <4>2. a = x /\ sock'[a].conn = c /\ peer[c] = "none"
          <5>1. peer[c] = "none"
            BY <4>1 DEF Accept
          <5>2. sock'[x].conn = c /\ (a # x => sock'[a] = sock[a])
            BY <1>1, <4>1, AcceptFields
          <5> QED BY <3>3, <5>1, <5>2
        <4>3. ~Told(c, "Connection")
          BY <4>2, NothingBefore DEF Before
        <4> QED BY <2>1, <3>3, <4>2, <4>3 DEF Client, Told
      <3> QED BY <3>1, <3>2, <3>3
    <2>4. main'.pc = "callback" /\ main'.event.type = "Connection" =>
            ~Told(main.event.conn, "Disconnection")'
      BY <1>1, <2>1, <2>2 DEF Told
    <2> QED BY <1>1, <2>1, <2>3, <2>4
  <1> QED BY <1>4, <1>5, <1>6, <1>7, <1>8

-----------------------------------------------------------------------------
(* The invariant holds initially ...                                       *)
LEMMA InitIInv ==
  Init => IInv
PROOF
  <1> SUFFICES ASSUME Init PROVE IInv
    OBVIOUS
  <1> USE DEF Init
  <1>1. /\ 0 \in Nat /\ 0 <= PipeCapacity /\ 0 \in 0 .. PipeCapacity /\ 0 \in 0 .. NbThreads
        /\ \A t \in Thread : t > 0
        /\ << >> \in Seq(Event) /\ << >> \in Seq({"Connection", "Disconnection", "User"})
        /\ Len(<< >>) = 0
    BY ServerAssumption, EmptySeq DEF Thread
  <1>2. TypeOK
    <2>1. NetworkOK /\ SockOK /\ QueueOK
      BY <1>1 DEF NetworkOK, SockOK, QueueOK, SockState, Freed
    <2>2. TasksOK /\ UserOK
      BY <1>1 DEF TasksOK, UserOK
    <2>3. listen \in ListenState /\ recv \in [Thread -> RecvState] /\ main \in MainState
      BY EmptySeq DEF ListenState, RecvState, MainState
    <2> QED BY <2>1, <2>2, <2>3 DEF TypeOK
  <1>3. \A n : n \notin 1 .. 0
    OBVIOUS
  <1>4. ThreadsInv /\ EventInv
    BY <1>1 DEF ThreadsInv, EventInv
  <1>5. PipeAccounting
    <2>1. {t \in Thread : recv[t].pc = "pushed"} = {}
      OBVIOUS
    <2>2. Cardinality({t \in Thread : recv[t].pc = "pushed"}) = 0
      BY <2>1, FS_EmptySet
    <2> QED BY <1>1, <2>2 DEF PipeAccounting
  <1>6. OwnerInv
    BY DEF OwnerInv, OwnedInv, Listed, Held, Accepted, Dealt, Unused, RemoveListed, WorkListed,
           SweepListed, Fresh, Works, Freed
  <1>7. Pending = << >> /\ Len(Pending) = 0 /\ \A c \in Connection : Len(log[c]) = 0
    BY <1>1 DEF Pending
  <1>8. UniqueInv
    BY <1>1, <1>3 DEF UniqueInv, Freed
  <1>9. ProtocolInv
    BY <1>3, <1>7 DEF ProtocolInv, CallbackProtocol
  <1>10. AliveInv /\ KnowInv /\ RemoveInv
    BY <1>3, <1>7 DEF AliveInv, KnowInv, RemoveInv, Freed
  <1>11. ClientsInv
    BY DEF ClientsInv, ClientsMatchCallbacks, Freed
  <1>12. PoolInv
    <2>1. \A t \in Thread : IsFiniteSet(connections[t]) /\ Load(t) = 0
      BY FS_EmptySet DEF Load
    <2>2. 0 <= MaxSocketsPerThread /\ 0 <= MaxThreads
      BY ServerAssumption
    <2> QED BY <1>1, <1>3, <2>1, <2>2 DEF PoolInv, CountsInv, LimitsInv
  <1> QED BY <1>2, <1>4, <1>5, <1>6, <1>8, <1>9, <1>10, <1>11, <1>12 DEF IInv

(* ... and every step preserves it ...                                     *)
LEMMA NextIInv ==
  ASSUME IInv, [Next]_vars
  PROVE  IInv'
  BY Types, ThreadsKept, EventKept, PipeKept, OwnerKept, UniqueKept, ProtocolKept, AliveKept,
     KnowKept, RemoveKept, ClientsKept, PoolKept
  DEF IInv

(* ... so it holds in every behaviour of the server.                       *)
THEOREM Inductive ==
  Spec => []IInv
PROOF
  <1>1. Init => IInv
    BY InitIInv
  <1>2. IInv /\ [Next]_vars => IInv'
    BY NextIInv
  <1> QED BY <1>1, <1>2, PTL DEF Spec

-----------------------------------------------------------------------------
(* Every variable of the server keeps its type, the data available pipe is *)
(* never overfilled, and a receive thread never reads more from its wake-  *)
(* up pipe than was written (TypeOK).                                      *)
THEOREM TypesHold ==
  Spec => []TypeOK
PROOF
  <1>1. IInv => TypeOK
    BY DEF IInv
  <1> QED BY <1>1, Inductive, PTL

(* dataAvailable never blocks on the pipe for good: _DataAvailable is      *)
(* exact, and the pipe has, or is about to get, one byte for each event of *)
(* the queue.                                                              *)
THEOREM PipeIsExact ==
  Spec => []PipeAccounting
PROOF
  <1>1. IInv => PipeAccounting
    BY DEF IInv
  <1> QED BY <1>1, Inductive, PTL

(* dispatchNewSocket keeps the limits of its strategy, although it counts  *)
(* the connections of each thread in a critical section of its own, and    *)
(* adds the new one later in another: whatever the receive threads delete  *)
(* in between, no count is ever too low.                                   *)
THEOREM PoolIsLimited ==
  Spec => []PoolLimits
PROOF
  <1>1. IInv => PoolLimits
    BY DEF IInv, PoolInv, CountsInv, LimitsInv, PoolLimits
  <1> QED BY <1>1, Inductive, PTL

(* A receive thread never follows a pointer to a socket that was deleted,  *)
(* or that another thread owns.                                            *)
THEOREM NothingDangles ==
  Spec => []NoDangling
PROOF
  <1>1. IInv => NoDangling
    <2> SUFFICES ASSUME IInv, main.pc # "destroyed", NEW t \in Thread,
                        NEW a \in connections[t] \union removeSet[t]
                                    \union (IF Works(t) THEN recv[t].copy ELSE {})
                 PROVE  sock[a].conn # 0 /\ sock[a].owner = t
      BY DEF NoDangling, Works
    <2>1. a \in connections[t]
      BY DEF IInv, OwnerInv, RemoveListed, WorkListed
    <2> QED BY <2>1 DEF IInv, OwnerInv, OwnedInv, Listed
  <1> QED BY <1>1, Inductive, PTL

(* The socket of a connection or disconnection event is not deleted, nor   *)
(* its address reused, before the event is handled.                        *)
THEOREM EventsOfLiveSockets ==
  Spec => []EventsAlive
PROOF
  <1>1. IInv => EventsAlive
    <2> SUFFICES ASSUME IInv, main.pc # "destroyed", NEW i \in 1 .. Len(Unhandled)
                 PROVE  Alive(Unhandled[i])
      BY DEF EventsAlive, Alive
    <2>1. TypeOK /\ \A n \in 1 .. Len(Pending) : Alive(Pending[n])
      BY DEF IInv, AliveInv
    <2>2. CASE main.pc # "callback"
      BY <2>1, <2>2 DEF Unhandled, Pending
    <2>3. CASE main.pc = "callback"
      <3>1. /\ Unhandled = queue /\ Pending = Tail(queue) /\ queue # << >>
            /\ Alive(main.event) /\ main.event = Head(queue)
        BY <2>3 DEF Unhandled, Pending, IInv, AliveInv, EventInv
      <3>2. CASE i = 1
        BY <2>1, <3>1, <3>2, FrontTypes
      <3>3. CASE i # 1
        <4> DEFINE n == i - 1
        <4>1. n \in 1 .. Len(Tail(queue)) /\ i = n + 1
          BY <2>1, <3>1, <3>3, FrontTypes
        <4> QED BY <2>1, <3>1, <4>1, FrontTypes
      <3> QED BY <3>2, <3>3
    <2> QED BY <2>2, <2>3
  <1> QED BY <1>1, Inductive, PTL

(* A connection is announced before anything else is said of it, and is    *)
(* announced and ended at most once.                                       *)
THEOREM ProtocolHolds ==
  Spec => []CallbackProtocol
PROOF
  <1>1. IInv => CallbackProtocol
    BY DEF IInv, ProtocolInv
  <1> QED BY <1>1, Inductive, PTL

(* _ConnectedClients holds exactly the sockets whose connection was        *)
(* announced and whose end was not.                                        *)
THEOREM ClientsAreExact ==
  Spec => []ClientsMatchCallbacks
PROOF
  <1>1. IInv => ClientsMatchCallbacks
    BY DEF IInv, ClientsInv
  <1> QED BY <1>1, Inductive, PTL
=============================================================================
