----------------------------- MODULE BufServer ------------------------------
(***************************************************************************)
(* NLNET::CBufServer (nel/src/net/buf_server.cpp), layer 1 of the network  *)
(* library, as built on Unix: the listen thread accepts connections and    *)
(* deals them out to a growing pool of receive threads; these push what    *)
(* they receive into one queue; the user's main thread takes events and    *)
(* messages from the queue, advertises the disconnections it notices and   *)
(* hands dead sockets back to the receive threads, which delete them.      *)
(*                                                                         *)
(* A TSockId is the address of a CServerBufSock, so an address is reused   *)
(* once the object is deleted.  The connections are numbered, which the    *)
(* code does not do: the number tells whether the object at an address is  *)
(* still the one a TSockId was taken from.                                 *)
(*                                                                         *)
(* A step is what a thread does inside one critical section, or between    *)
(* two of them.  A mutex that is held across steps shows in the program    *)
(* counter of its holder (PoolLocked, ConnectionsLocked, RemoveSetLocked). *)
(***************************************************************************)
EXTENDS Naturals, FiniteSets, Sequences

CONSTANTS
  Addr,                  \* the addresses a socket object can have (TSockId)
  NbThreads,             \* bound on the receive threads that are created
  NbConnections,         \* bound on the connections that peers open
  NbMessages,            \* bound on the messages of each connection
  Strategies,            \* the values of _ThreadStrategy a server is made with
  MaxThreads,            \* _MaxThreads
  MaxSocketsPerThread,   \* _MaxSocketsPerThread
  PipeCapacity,          \* bytes the data available pipe holds before write blocks
  Signals                \* whether a signal can interrupt a receive thread

ASSUME ServerAssumption ==
  /\ NbThreads \in Nat \ {0}
  /\ NbConnections \in Nat
  /\ NbMessages \in [1 .. NbConnections -> Nat]
  /\ Strategies \subseteq {"FillThreads", "SpreadSockets"}
  /\ MaxThreads \in Nat \ {0}
  /\ MaxSocketsPerThread \in Nat \ {0}
  /\ PipeCapacity \in Nat \ {0}
  /\ Signals \in BOOLEAN

Thread == 1 .. NbThreads
Connection == 1 .. NbConnections

VARIABLES
  strategy,      \* _ThreadStrategy, which the constructor sets
  \* the network
  peer,          \* peer[c]: "none", then "here", then "gone"
  sent,          \* number of messages received so far on a connection
  \* shared memory
  sock,          \* the socket object at an address, or Freed
  queue,         \* _RecvFifo, of events
  available,     \* _DataAvailable
  pipe,          \* number of bytes in the data available pipe
  connections,   \* CServerReceiveTask::_Connections
  removeSet,     \* CServerReceiveTask::_RemoveSet
  wake,          \* number of bytes in the wake-up pipe of a receive thread
  exit,          \* CServerTask::_ExitRequired of the receive threads
  pool,          \* size of _ThreadPool
  \* the threads
  listen,        \* listen thread: [pc, sock, counts]
  recv,          \* receive threads: [pc, copy, skip, ready, woken]
  main,          \* main thread: [pc, event, thread, socks]
  clients,       \* _ConnectedClients
  \* history
  log            \* the events of a connection that reached the user

vars == << strategy, peer, sent, sock, queue, available, pipe, connections, removeSet, wake,
           exit, pool, listen, recv, main, clients, log >>

Freed == [conn |-> 0, up |-> FALSE, know |-> FALSE, state |-> FALSE, owner |-> 0]

Event == [type : {"Connection", "Disconnection", "User"}, sock : Addr, conn : Connection]
NoEvent == [type |-> "none", sock |-> "none", conn |-> 0]

Of(type, a) == [type |-> type, sock |-> a, conn |-> sock[a].conn]

Init ==
  /\ strategy \in Strategies
  /\ peer = [c \in Connection |-> "none"]
  /\ sent = [c \in Connection |-> 0]
  /\ sock = [a \in Addr |-> Freed]
  /\ queue = << >>
  /\ available = FALSE
  /\ pipe = 0
  /\ connections = [t \in Thread |-> {}]
  /\ removeSet = [t \in Thread |-> {}]
  /\ wake = [t \in Thread |-> 0]
  /\ exit = FALSE
  /\ pool = 0
  /\ listen = [pc |-> "accept", sock |-> "none", counts |-> << >>]
  /\ recv = [t \in Thread |-> [pc |-> "off", copy |-> {}, skip |-> FALSE,
                              ready |-> {}, woken |-> FALSE]]
  /\ main = [pc |-> "user", event |-> NoEvent, thread |-> 0, socks |-> {}]
  /\ clients = {}
  /\ log = [c \in Connection |-> << >>]

network == << strategy, peer, sent >>
tasks == << connections, removeSet, wake, exit, pool >>

-----------------------------------------------------------------------------
(* The mutexes that a thread keeps across several steps.                   *)
PoolLocked ==
  main.pc \in {"sweep", "sockets", "advertised", "joining"} \/ listen.pc \in {"count", "wake"}
ConnectionsLocked(t) == main.pc \in {"sockets", "advertised"} /\ main.thread = t
RemoveSetLocked(t) == recv[t].pc = "delete"

(* pushMessageIntoReceiveQueue: the queue and the flag change in one       *)
(* critical section; the byte is written to the pipe after it.             *)
PushMessage(e) == queue' = Append(queue, e) /\ available' = TRUE
WritePipe == pipe < PipeCapacity /\ pipe' = pipe + 1

(* pop and the new value of the flag, in one critical section.             *)
BadPopMessage == queue' = Tail(queue) /\ available' = FALSE

PopMessage == queue' = Tail(queue) /\ available' = (Tail(queue) # << >>)

(* CTcpSock::disconnect                                                    *)
ShutDown(S) == [a \in Addr |-> IF a \in S THEN [sock[a] EXCEPT !.up = FALSE] ELSE sock[a]]

-----------------------------------------------------------------------------
(* The remote end closes the connection, breaks it or breaks the protocol. *)
PeerLeaves(c) ==
  /\ peer[c] = "here"
  /\ peer' = [peer EXCEPT ![c] = "gone"]
  /\ UNCHANGED << strategy, sent, sock, queue, available, pipe, tasks, listen, recv, main,
                  clients, log >>

-----------------------------------------------------------------------------
(* Listen thread, CListenTask::run.  A new socket object is advertised,    *)
(* then dispatched to a receive thread.  The listen thread may accept a    *)
(* last connection after it was asked to exit, if select returned before.  *)
Accept(c, a) ==
  /\ listen.pc = "accept"
  /\ peer[c] = "none"
  /\ \A d \in Connection : d < c => peer[d] # "none"
  /\ sock[a] = Freed
  /\ peer' = [peer EXCEPT ![c] = "here"]
  /\ sock' = [sock EXCEPT ![a] = [Freed EXCEPT !.conn = c, !.up = TRUE]]
  /\ PushMessage([type |-> "Connection", sock |-> a, conn |-> c])
  /\ listen' = [listen EXCEPT !.pc = "advertised", !.sock = a]
  /\ UNCHANGED << strategy, sent, pipe, tasks, recv, main, clients, log >>

(* advertiseConnection ends: the byte, then the flag _KnowConnected.       *)
ListenAdvertised ==
  /\ listen.pc = "advertised"
  /\ WritePipe
  /\ sock' = [sock EXCEPT ![listen.sock].know = TRUE]
  /\ listen' = [listen EXCEPT !.pc = "dispatch"]
  /\ UNCHANGED << network, queue, available, tasks, recv, main, clients, log >>

Load(t) == Cardinality(connections[t])

(* dispatchNewSocket locks the pool until the socket is dealt.             *)
DispatchBegin ==
  /\ listen.pc = "dispatch"
  /\ ~PoolLocked
  /\ listen' = [listen EXCEPT !.pc = "count"]
  /\ UNCHANGED << network, sock, queue, available, pipe, tasks, recv, main, clients, log >>

(* FillThreads stops at the first thread with room.                        *)
BadHasRoom ==
  /\ listen.counts # << >>
  /\ listen.counts[Len(listen.counts)] <= MaxSocketsPerThread

HasRoom ==
  /\ listen.counts # << >>
  /\ listen.counts[Len(listen.counts)] < MaxSocketsPerThread

Counted == Len(listen.counts) = pool \/ (strategy = "FillThreads" /\ HasRoom)

(* numberOfConnections of the next thread: it locks _Connections for that  *)
(* call only, so that the thread may delete sockets once it is counted.    *)
DispatchCount ==
  LET t == Len(listen.counts) + 1
  IN  /\ listen.pc = "count"
      /\ ~Counted
      /\ ~ConnectionsLocked(t)
      /\ listen' = [listen EXCEPT !.counts = Append(@, Load(t))]
      /\ UNCHANGED << network, sock, queue, available, pipe, tasks, recv, main, clients, log >>

(* The thread that the counts choose, pool + 1 for a new one.              *)
Count(t) == listen.counts[t]

LeastLoaded ==
  CHOOSE t \in 1 .. pool :
    \A u \in 1 .. pool : Count(t) < Count(u) \/ (Count(t) = Count(u) /\ t <= u)

Spread ==
  IF pool = 0 \/ (pool < MaxThreads /\ \A t, u \in 1 .. pool : Count(t) = Count(u))
    THEN pool + 1
    ELSE LeastLoaded

Fill == IF HasRoom THEN Len(listen.counts) ELSE pool + 1

Target == IF strategy = "SpreadSockets" THEN Spread ELSE Fill

(* addNewSocket locks the _Connections of that thread anew.                *)
Dispatch(t) ==
  /\ listen.pc = "count"
  /\ Counted
  /\ t = Target
  /\ ~ConnectionsLocked(t)
  /\ sock' = [sock EXCEPT ![listen.sock].owner = t]
  /\ connections' = [connections EXCEPT ![t] = @ \union {listen.sock}]
  /\ listen' = [listen EXCEPT !.pc = "wake", !.counts = << >>]
  /\ UNCHANGED << network, queue, available, pipe, removeSet, wake, exit, pool, recv,
                  main, clients, log >>

(* The new thread starts, or the existing one is woken up; the listen      *)
(* thread loops, unless it was asked to exit.                              *)
DispatchEnd ==
  LET t == sock[listen.sock].owner
  IN  /\ listen.pc = "wake"
      /\ IF t > pool
           THEN /\ pool' = t
                /\ recv' = [recv EXCEPT ![t].pc = "clear"]
                /\ UNCHANGED wake
           ELSE /\ wake' = [wake EXCEPT ![t] = @ + 1]
                /\ UNCHANGED << pool, recv >>
      /\ listen' = [listen EXCEPT !.pc = IF main.pc = "closing" THEN "ended" ELSE "accept",
                                  !.sock = "none"]
      /\ UNCHANGED << network, sock, queue, available, pipe, connections, removeSet, exit,
                      main, clients, log >>

(* The wake-up pipe ends the select of the listen thread.                  *)
ListenExits ==
  /\ listen.pc = "accept"
  /\ main.pc = "closing"
  /\ listen' = [listen EXCEPT !.pc = "ended"]
  /\ UNCHANGED << network, sock, queue, available, pipe, tasks, recv, main, clients, log >>

-----------------------------------------------------------------------------
(* Receive threads, CServerReceiveTask::run.                               *)
GoTo(t, pc) == recv' = [recv EXCEPT ![t].pc = pc]

(* clearClosedConnections takes the mutex of _RemoveSet first ...          *)
RecvClear(t) ==
  /\ recv[t].pc = "clear"
  /\ ~exit
  /\ GoTo(t, IF removeSet[t] = {} THEN "copy" ELSE "delete")
  /\ UNCHANGED << network, sock, queue, available, pipe, tasks, listen, main, clients, log >>

BadRecvDelete(t) ==
  /\ recv[t].pc = "delete"
  /\ ~ConnectionsLocked(t)
  /\ sock' = [a \in Addr |-> IF a \in removeSet[t] THEN Freed ELSE sock[a]]
  /\ removeSet' = [removeSet EXCEPT ![t] = {}]
  /\ GoTo(t, "copy")
  /\ UNCHANGED << network, queue, available, pipe, connections, wake, exit, pool, listen,
                  main, clients, log >>

(* ... then the one of _Connections.                                       *)
RecvDelete(t) ==
  /\ recv[t].pc = "delete"
  /\ ~ConnectionsLocked(t)
  /\ connections' = [connections EXCEPT ![t] = @ \ removeSet[t]]
  /\ sock' = [a \in Addr |-> IF a \in removeSet[t] THEN Freed ELSE sock[a]]
  /\ removeSet' = [removeSet EXCEPT ![t] = {}]
  /\ GoTo(t, "copy")
  /\ UNCHANGED << network, queue, available, pipe, wake, exit, pool, listen, main,
                  clients, log >>

RecvCopy(t) ==
  /\ recv[t].pc = "copy"
  /\ ~ConnectionsLocked(t)
  /\ recv' = [recv EXCEPT ![t] = [pc |-> "select", ready |-> {}, woken |-> FALSE,
                                  copy |-> {a \in connections[t] : sock[a].up},
                                  skip |-> connections[t] = {}]]
  /\ UNCHANGED << network, sock, queue, available, pipe, tasks, listen, main, clients, log >>

(* What select reports: a socket that is closed or shut down for sure, one *)
(* whose peer has something to say perhaps.                                *)
Closed(a) == ~sock[a].up \/ peer[sock[a].conn] = "gone"
MaySpeak(a) == sent[sock[a].conn] < NbMessages[sock[a].conn]

RecvSelect(t) ==
  /\ recv[t].pc = "select"
  /\ \E R \in SUBSET recv[t].copy :
       /\ \A a \in recv[t].copy : (Closed(a) => a \in R) /\ (a \in R => Closed(a) \/ MaySpeak(a))
       /\ R # {} \/ wake[t] > 0
       /\ recv' = [recv EXCEPT ![t].pc = "serve", ![t].ready = R, ![t].woken = wake[t] > 0]
  /\ UNCHANGED << network, sock, queue, available, pipe, tasks, listen, main, clients, log >>

(* select fails, on Unix because a signal interrupts it: goto end.         *)
RecvInterrupted(t) ==
  /\ Signals
  /\ recv[t].pc = "select"
  /\ GoTo(t, "ended")
  /\ UNCHANGED << network, sock, queue, available, pipe, tasks, listen, main, clients, log >>

(* receivePart has a whole message: it is pushed into the queue.           *)
RecvMessage(t, a) ==
  /\ recv[t].pc = "serve"
  /\ a \in recv[t].ready
  /\ MaySpeak(a)
  /\ sent' = [sent EXCEPT ![sock[a].conn] = @ + 1]
  /\ PushMessage(Of("User", a))
  /\ recv' = [recv EXCEPT ![t].pc = "pushed", ![t].ready = @ \ {a}]
  /\ UNCHANGED << strategy, peer, sock, pipe, tasks, listen, main, clients, log >>

BadRecvPushed(t) ==
  /\ recv[t].pc = "pushed"
  /\ GoTo(t, "serve")
  /\ UNCHANGED << network, sock, queue, available, pipe, tasks, listen, main, clients, log >>

RecvPushed(t) ==
  /\ recv[t].pc = "pushed"
  /\ WritePipe
  /\ GoTo(t, "serve")
  /\ UNCHANGED << network, sock, queue, available, tasks, listen, main, clients, log >>

(* receivePart has only a part of a message.                               *)
RecvPart(t, a) ==
  /\ recv[t].pc = "serve"
  /\ a \in recv[t].ready
  /\ ~Closed(a)
  /\ recv' = [recv EXCEPT ![t].ready = @ \ {a}]
  /\ UNCHANGED << network, sock, queue, available, pipe, tasks, listen, main, clients, log >>

BadRecvBroken(t, a) ==
  /\ recv[t].pc = "serve"
  /\ a \in recv[t].ready
  /\ Closed(a)
  /\ recv' = [recv EXCEPT ![t].ready = @ \ {a}]
  /\ UNCHANGED << network, sock, queue, available, pipe, tasks, listen, main, clients, log >>

(* receivePart throws: the socket is disconnected.                         *)
RecvBroken(t, a) ==
  /\ recv[t].pc = "serve"
  /\ a \in recv[t].ready
  /\ Closed(a)
  /\ sock' = ShutDown({a})
  /\ recv' = [recv EXCEPT ![t].ready = @ \ {a}]
  /\ UNCHANGED << network, queue, available, pipe, tasks, listen, main, clients, log >>

BadRecvLoop(t) ==
  /\ recv[t].pc = "serve"
  /\ recv[t].ready = {}
  /\ wake' = [wake EXCEPT ![t] = @ - 1]
  /\ GoTo(t, "clear")
  /\ UNCHANGED << network, sock, queue, available, pipe, connections, removeSet, exit, pool,
                  listen, main, clients, log >>

(* The end of the loop: one byte of the wake-up pipe is read, unless there *)
(* were no connections when the loop began.                                *)
RecvLoop(t) ==
  /\ recv[t].pc = "serve"
  /\ recv[t].ready = {}
  /\ wake' = IF recv[t].woken /\ ~recv[t].skip THEN [wake EXCEPT ![t] = @ - 1] ELSE wake
  /\ GoTo(t, "clear")
  /\ UNCHANGED << network, sock, queue, available, pipe, connections, removeSet, exit, pool,
                  listen, main, clients, log >>

RecvExits(t) ==
  /\ recv[t].pc = "clear"
  /\ exit
  /\ GoTo(t, "ended")
  /\ UNCHANGED << network, sock, queue, available, pipe, tasks, listen, main, clients, log >>

-----------------------------------------------------------------------------
(* Main thread.  The user calls update of layer 3: dataAvailable and       *)
(* receive until the queue is empty or the time is over, then update.      *)
MainGoes(pc) == main' = [main EXCEPT !.pc = pc]

UserUpdates ==
  /\ main.pc = "user"
  /\ MainGoes("poll")
  /\ UNCHANGED << network, sock, queue, available, pipe, tasks, listen, recv, clients, log >>

(* dataAvailable: the flag, then the type of the front event.              *)
Poll ==
  /\ main.pc = "poll"
  /\ IF available THEN main' = [main EXCEPT !.pc = "peeked", !.event = Head(queue)]
                  ELSE MainGoes("flush")
  /\ UNCHANGED << network, sock, queue, available, pipe, tasks, listen, recv, clients, log >>

ReadPipe == pipe > 0 /\ pipe' = pipe - 1

MessageAvailable ==
  /\ main.pc = "peeked"
  /\ main.event.type = "User"
  /\ ReadPipe
  /\ MainGoes("receive")
  /\ UNCHANGED << network, sock, queue, available, tasks, listen, recv, clients, log >>

Logged(e) == log' = [log EXCEPT ![e.conn] = Append(@, e.type)]

ConnectionEvent ==
  /\ main.pc = "peeked"
  /\ main.event.type = "Connection"
  /\ ReadPipe
  /\ clients' = clients \union {main.event.sock}
  /\ sock' = [sock EXCEPT ![main.event.sock].state = TRUE]
  /\ Logged(main.event)
  /\ MainGoes("callback")
  /\ UNCHANGED << network, queue, available, tasks, listen, recv >>

DisconnectionEvent ==
  /\ main.pc = "peeked"
  /\ main.event.type = "Disconnection"
  /\ ReadPipe
  /\ sock' = [sock EXCEPT ![main.event.sock].state = FALSE]
  /\ Logged(main.event)
  /\ MainGoes("callback")
  /\ UNCHANGED << network, queue, available, tasks, listen, recv, clients >>

(* The callback of a connection returns.                                   *)
ConnectionDone ==
  /\ main.pc = "callback"
  /\ main.event.type = "Connection"
  /\ MainGoes("extract")
  /\ UNCHANGED << network, sock, queue, available, pipe, tasks, listen, recv, clients, log >>

BadDisconnectionDone ==
  LET a == main.event.sock
      t == sock[a].owner
  IN  /\ main.pc = "callback"
      /\ main.event.type = "Disconnection"
      /\ t \in Thread
      /\ ~RemoveSetLocked(t)
      /\ removeSet' = [removeSet EXCEPT ![t] = @ \union {a}]
      /\ main' = [main EXCEPT !.pc = "wakeup", !.thread = t]
      /\ UNCHANGED << network, sock, queue, available, pipe, connections, wake, exit, pool,
                      listen, recv, clients, log >>

(* The callback of a disconnection returns: addToRemoveSet, then wakeUp.   *)
DisconnectionDone ==
  LET a == main.event.sock
      t == sock[a].owner
  IN  /\ main.pc = "callback"
      /\ main.event.type = "Disconnection"
      /\ t \in Thread
      /\ ~RemoveSetLocked(t)
      /\ clients' = clients \ {a}
      /\ removeSet' = [removeSet EXCEPT ![t] = @ \union {a}]
      /\ main' = [main EXCEPT !.pc = "wakeup", !.thread = t]
      /\ UNCHANGED << network, sock, queue, available, pipe, connections, wake, exit, pool,
                      listen, recv, log >>

BadWakeUp ==
  /\ main.pc = "wakeup"
  /\ main' = [main EXCEPT !.pc = "extract", !.thread = 0]
  /\ UNCHANGED << network, sock, queue, available, pipe, tasks, listen, recv, clients, log >>

WakeUp ==
  /\ main.pc = "wakeup"
  /\ wake' = [wake EXCEPT ![main.thread] = @ + 1]
  /\ main' = [main EXCEPT !.pc = "extract", !.thread = 0]
  /\ UNCHANGED << network, sock, queue, available, pipe, connections, removeSet, exit, pool,
                  listen, recv, clients, log >>

Extract ==
  /\ main.pc = "extract"
  /\ PopMessage
  /\ main' = [main EXCEPT !.pc = "poll", !.event = NoEvent]
  /\ UNCHANGED << network, sock, pipe, tasks, listen, recv, clients, log >>

(* receive: the message goes to its callback, with its TSockId.            *)
Receive ==
  /\ main.pc = "receive"
  /\ PopMessage
  /\ main' = [main EXCEPT !.pc = "message", !.event = Head(queue)]
  /\ Logged(Head(queue))
  /\ UNCHANGED << network, sock, pipe, tasks, listen, recv, clients >>

MessageDone ==
  /\ main.pc = "message"
  /\ \E pc \in {"poll", "flush"} : main' = [main EXCEPT !.pc = pc, !.event = NoEvent]
  /\ UNCHANGED << network, sock, queue, available, pipe, tasks, listen, recv, clients, log >>

(* update: for each thread of the pool, for each of its sockets.           *)
UpdateBegin ==
  /\ main.pc = "flush"
  /\ ~PoolLocked
  /\ main' = [main EXCEPT !.pc = "sweep", !.thread = 0]
  /\ UNCHANGED << network, sock, queue, available, pipe, tasks, listen, recv, clients, log >>

UpdateThread ==
  /\ main.pc = "sweep"
  /\ main.thread < pool
  /\ main' = [main EXCEPT !.pc = "sockets", !.thread = @ + 1,
                          !.socks = connections[main.thread + 1]]
  /\ UNCHANGED << network, sock, queue, available, pipe, tasks, listen, recv, clients, log >>

(* The socket is connected and flushing succeeded.                         *)
UpdateSent(a) ==
  /\ main.pc = "sockets"
  /\ a \in main.socks
  /\ sock[a].up
  /\ main' = [main EXCEPT !.socks = @ \ {a}]
  /\ UNCHANGED << network, sock, queue, available, pipe, tasks, listen, recv, clients, log >>

BadUpdateFailed(a) ==
  /\ main.pc = "sockets"
  /\ a \in main.socks
  /\ Closed(a)
  /\ PushMessage(Of("Disconnection", a))
  /\ main' = [main EXCEPT !.pc = "advertised", !.socks = @ \ {a},
                          !.event = Of("Disconnection", a)]
  /\ UNCHANGED << network, sock, pipe, tasks, listen, recv, clients, log >>

(* It is not, or flushing failed: advertiseDisconnection, once.            *)
UpdateFailed(a) ==
  /\ main.pc = "sockets"
  /\ a \in main.socks
  /\ Closed(a)
  /\ IF sock[a].know
       THEN /\ PushMessage(Of("Disconnection", a))
            /\ main' = [main EXCEPT !.pc = "advertised", !.socks = @ \ {a},
                                    !.event = Of("Disconnection", a)]
       ELSE /\ main' = [main EXCEPT !.socks = @ \ {a}]
            /\ UNCHANGED << queue, available >>
  /\ UNCHANGED << network, sock, pipe, tasks, listen, recv, clients, log >>

BadUpdateAdvertised ==
  /\ main.pc = "advertised"
  /\ WritePipe
  /\ main' = [main EXCEPT !.pc = "sockets", !.event = NoEvent]
  /\ UNCHANGED << network, sock, queue, available, tasks, listen, recv, clients, log >>

UpdateAdvertised ==
  /\ main.pc = "advertised"
  /\ WritePipe
  /\ sock' = [sock EXCEPT ![main.event.sock].know = FALSE]
  /\ main' = [main EXCEPT !.pc = "sockets", !.event = NoEvent]
  /\ UNCHANGED << network, queue, available, tasks, listen, recv, clients, log >>

UpdateThreadEnd ==
  /\ main.pc = "sockets"
  /\ main.socks = {}
  /\ MainGoes("sweep")
  /\ UNCHANGED << network, sock, queue, available, pipe, tasks, listen, recv, clients, log >>

UpdateEnd ==
  /\ main.pc = "sweep"
  /\ main.thread = pool
  /\ main' = [main EXCEPT !.pc = "user", !.thread = 0]
  /\ UNCHANGED << network, sock, queue, available, pipe, tasks, listen, recv, clients, log >>

-----------------------------------------------------------------------------
(* disconnect(hostid), from a callback or between two updates: nothing     *)
(* unless hostid is one of the connected clients.                          *)
UserRuns == main.pc \in {"user", "callback", "message"}

Disconnect(a) ==
  /\ UserRuns
  /\ a \in clients
  /\ sock[a].up
  /\ sock' = ShutDown({a})
  /\ UNCHANGED << network, queue, available, pipe, tasks, listen, recv, main, clients, log >>

(* disconnect(InvalidSockId): all the sockets of the pool.                 *)
DisconnectAll ==
  /\ UserRuns
  /\ ~PoolLocked
  /\ sock' = ShutDown(UNION {connections[t] : t \in 1 .. pool})
  /\ UNCHANGED << network, queue, available, pipe, tasks, listen, recv, main, clients, log >>

-----------------------------------------------------------------------------
(* ~CBufServer: the listen thread is asked to exit and joined, then the    *)
(* receive threads are, then the sockets are deleted.                      *)
Destroy ==
  /\ main.pc = "user"
  /\ MainGoes("closing")
  /\ UNCHANGED << network, sock, queue, available, pipe, tasks, listen, recv, clients, log >>

BadRequireExitNoWakeUp ==
  /\ main.pc = "closing"
  /\ listen.pc = "ended"
  /\ exit' = TRUE
  /\ MainGoes("joining")
  /\ UNCHANGED << network, sock, queue, available, pipe, connections, removeSet, wake, pool,
                  listen, recv, clients, log >>

RequireExit ==
  /\ main.pc = "closing"
  /\ listen.pc = "ended"
  /\ exit' = TRUE
  /\ wake' = [t \in Thread |-> IF t <= pool THEN wake[t] + 1 ELSE wake[t]]
  /\ MainGoes("joining")
  /\ UNCHANGED << network, sock, queue, available, pipe, connections, removeSet, pool,
                  listen, recv, clients, log >>

Destroyed ==
  /\ main.pc = "joining"
  /\ \A t \in 1 .. pool : recv[t].pc = "ended"
  /\ sock' = [a \in Addr |->
                IF \E t \in 1 .. pool : a \in connections[t] THEN Freed ELSE sock[a]]
  /\ MainGoes("destroyed")
  /\ UNCHANGED << network, queue, available, pipe, tasks, listen, recv, clients, log >>

-----------------------------------------------------------------------------
Listen ==
  \/ ListenAdvertised
  \/ DispatchBegin
  \/ DispatchCount
  \/ \E t \in Thread : Dispatch(t)
  \/ DispatchEnd
  \/ ListenExits

ReceiveThread(t) ==
  \/ RecvClear(t)
  \/ RecvDelete(t)
  \/ RecvCopy(t)
  \/ RecvSelect(t)
  \/ \E a \in Addr : RecvMessage(t, a)
  \/ RecvPushed(t)
  \/ \E a \in Addr : RecvPart(t, a)
  \/ \E a \in Addr : RecvBroken(t, a)
  \/ RecvLoop(t)
  \/ RecvExits(t)

DataAvailable ==
  \/ Poll
  \/ MessageAvailable
  \/ ConnectionEvent
  \/ DisconnectionEvent
  \/ ConnectionDone
  \/ DisconnectionDone
  \/ WakeUp
  \/ Extract

Update ==
  \/ UpdateBegin
  \/ UpdateThread
  \/ \E a \in Addr : UpdateSent(a)
  \/ \E a \in Addr : UpdateFailed(a)
  \/ UpdateAdvertised
  \/ UpdateThreadEnd
  \/ UpdateEnd

Main == UserUpdates \/ DataAvailable \/ Receive \/ MessageDone \/ Update
        \/ RequireExit \/ Destroyed

Next ==
  \/ \E c \in Connection : PeerLeaves(c)
  \/ \E c \in Connection, a \in Addr : Accept(c, a)
  \/ Listen
  \/ \E t \in Thread : ReceiveThread(t) \/ RecvInterrupted(t)
  \/ Main
  \/ \E a \in Addr : Disconnect(a)
  \/ DisconnectAll
  \/ Destroy

(* Threads are scheduled, the mutexes are fair (CSynchronized uses         *)
(* CFairMutex), so that a thread that waits for one gets it although its   *)
(* holder takes it again and again, and the user calls update again and    *)
(* again.  Nothing makes a peer connect or leave, nor the user disconnect. *)
Fairness == SF_vars(Listen) /\ (\A t \in Thread : SF_vars(ReceiveThread(t))) /\ SF_vars(Main)

Spec == Init /\ [][Next]_vars /\ Fairness

-----------------------------------------------------------------------------
SockState == [conn : Connection \union {0}, up : BOOLEAN, know : BOOLEAN, state : BOOLEAN,
              owner : Thread \union {0}]
ListenState == [pc : {"accept", "advertised", "dispatch", "count", "wake", "ended"},
                sock : Addr \union {"none"}, counts : Seq(Nat)]
RecvState == [pc : {"off", "clear", "delete", "copy", "select", "serve", "pushed", "ended"},
              copy : SUBSET Addr, skip : BOOLEAN, ready : SUBSET Addr, woken : BOOLEAN]
MainState == [pc : {"user", "poll", "peeked", "receive", "message", "callback", "wakeup",
                    "extract", "flush", "sweep", "sockets", "advertised", "closing",
                    "joining", "destroyed"},
              event : Event \union {NoEvent}, thread : Thread \union {0}, socks : SUBSET Addr]

NetworkOK ==
  /\ strategy \in Strategies
  /\ peer \in [Connection -> {"none", "here", "gone"}]
  /\ sent \in [Connection -> Nat]

SockOK == sock \in [Addr -> SockState]

QueueOK ==
  /\ queue \in Seq(Event)
  /\ available \in BOOLEAN
  /\ pipe \in 0 .. PipeCapacity

TasksOK ==
  /\ connections \in [Thread -> SUBSET Addr]
  /\ removeSet \in [Thread -> SUBSET Addr]
  /\ wake \in [Thread -> Nat]
  /\ exit \in BOOLEAN
  /\ pool \in 0 .. NbThreads

UserOK ==
  /\ clients \subseteq Addr
  /\ log \in [Connection -> Seq({"Connection", "Disconnection", "User"})]

TypeOK ==
  /\ NetworkOK
  /\ SockOK
  /\ QueueOK
  /\ TasksOK
  /\ listen \in ListenState
  /\ recv \in [Thread -> RecvState]
  /\ main \in MainState
  /\ UserOK

(* No thread ever follows a dangling socket pointer taken from a list of   *)
(* sockets: what is in _Connections, in _RemoveSet or in the copy a        *)
(* receive thread works on is allocated and belongs to that thread.        *)
NoDangling ==
  main.pc # "destroyed" =>
    \A t \in Thread :
      \A a \in connections[t] \union removeSet[t]
               \union (IF recv[t].pc \in {"select", "serve", "pushed"} THEN recv[t].copy ELSE {}) :
        sock[a].conn # 0 /\ sock[a].owner = t

(* The events of the queue that the main thread has still to handle.       *)
Unhandled == IF main.pc \in {"wakeup", "extract"} THEN Tail(queue) ELSE queue

(* The socket of a connection or disconnection event is still allocated,   *)
(* for the same connection, when the main thread handles the event, though *)
(* a receive thread deletes sockets and the listen thread reuses addresses.*)
EventsAlive ==
  \A i \in 1 .. Len(Unhandled) :
    Unhandled[i].type # "User" /\ main.pc # "destroyed" =>
      sock[Unhandled[i].sock].conn = Unhandled[i].conn

(* What the user was told of a connection, and what it will be told.       *)
Told(c, type) == \E i \in 1 .. Len(log[c]) : log[c][i] = type
Pending == IF main.pc \in {"callback", "wakeup", "extract"} THEN Tail(queue) ELSE queue
Says(e, c, type) == e.conn = c /\ e.type = type
PendsBefore(n, c, type) == \E i \in 1 .. Len(Pending) : i < n /\ Says(Pending[i], c, type)

(* A connection is announced before anything else that is said of it, and  *)
(* it is announced and ended at most once: the nlverify on the insertion   *)
(* into and the removal from _ConnectedClients hold.                       *)
CallbackProtocol ==
  \A c \in Connection :
    /\ log[c] # << >> => log[c][1] = "Connection"
    /\ \A i, j \in 1 .. Len(log[c]) : i # j /\ log[c][i] = log[c][j] => log[c][i] = "User"
    /\ \A n \in 1 .. Len(Pending) :
         LET before(type) == Told(c, type) \/ PendsBefore(n, c, type)
         IN  Pending[n].conn = c =>
               /\ Pending[n].type = "Connection" <=> ~before("Connection")
               /\ Pending[n].type = "Disconnection" => ~before("Disconnection")

(* _ConnectedClients, against which send and disconnect check the TSockId  *)
(* a user gives them, holds exactly the sockets that the callbacks have    *)
(* announced and not yet ended.                                            *)
ClientsMatchCallbacks ==
  main.pc # "destroyed" =>
    clients = {a \in Addr :
                 LET c == sock[a].conn
                 IN  /\ c # 0
                     /\ Told(c, "Connection")
                     /\ Told(c, "Disconnection") => main.pc = "callback" /\ main.event.conn = c}

(* The data available pipe has a byte for each event of the queue, but for *)
(* those whose byte a thread is about to write and the one whose byte      *)
(* dataAvailable has read: the blocking read of dataAvailable always ends. *)
(* It is not even tried when there is no event, as the flag, which is read *)
(* without the mutex of the queue, is exact: "Because _DataAvailable is    *)
(* true, the receive queue is not empty" (buf_server.cpp:368).             *)
PipeAccounting ==
  /\ available <=> queue # << >>
  /\ pipe + (IF listen.pc = "advertised" THEN 1 ELSE 0)
          + (IF main.pc = "advertised" THEN 1 ELSE 0)
          + Cardinality({t \in Thread : recv[t].pc = "pushed"})
          + (IF main.pc \in {"receive", "callback", "wakeup", "extract"} THEN 1 ELSE 0)
     = Len(queue)

(* FillThreads never overloads a thread, SpreadSockets never has too many  *)
(* threads, though the counts of the connections are taken one after the   *)
(* other and used later, each under a lock of its own, while the receive   *)
(* threads delete sockets.  A count may become too high (a thread passes   *)
(* for full when it is not) but never too low, as sockets are only added   *)
(* with the pool locked.                                                   *)
PoolLimits ==
  /\ \A t \in 1 .. Len(listen.counts) : Load(t) <= Count(t)
  /\ IF strategy = "FillThreads"
       THEN \A t \in Thread : Load(t) <= MaxSocketsPerThread
       ELSE pool <= MaxThreads

-----------------------------------------------------------------------------
(* When the remote end is gone the user is told, and later the socket is   *)
(* deleted.                                                                *)
GoneIsReported ==
  \A c \in Connection :
    peer[c] = "gone" ~> Told(c, "Disconnection") \/ main.pc = "destroyed"

GoneIsDeleted ==
  \A c \in Connection : peer[c] = "gone" ~> \A a \in Addr : sock[a].conn # c

(* Every message that a receive thread pushes reaches its callback, unless *)
(* the server is destroyed first.                                          *)
MessagesAreDelivered ==
  \A c \in Connection : \A n \in 1 .. NbMessages[c] :
    sent[c] = n ~> \/ Cardinality({i \in 1 .. Len(log[c]) : log[c][i] = "User"}) >= n
                  \/ main.pc = "destroyed"

(* The destructor waits for all the threads, and returns.                  *)
DestroyReturns == main.pc = "closing" ~> main.pc = "destroyed"

-----------------------------------------------------------------------------
(* callback_net_base.h:51, "from is the SockId of the connection": the     *)
(* socket given with a message is the one the message came from.           *)
MessageFromItsConnection ==
  main.pc = "message" => sock[main.event.sock].conn = main.event.conn

(* buf_net_base.cpp:110, the byte is written "outside the critical section *)
(* ..., to allow main thread to be read the fifo": whoever writes to the   *)
(* data available pipe, a write that blocks when the pipe is full, the     *)
(* main thread reads it.  So update, which writes too, returns.            *)
UpdateReturns == main.pc = "flush" ~> main.pc = "user"
=============================================================================
