# Formal models of the NeL network library

TLA+ models of the concurrent core of NeL (`src/nel`, `src/nelns`): the message
queue, the server and the client of layer 1 of the network library, the protocol
by which the services of a shard register with the naming service and connect to
each other (layer 5), and the task manager and the reader/writer lock of the base
library. TLC checks them on small instances; TLAPS proves the safety of the queue,
of the server, of the client, of the lock, of the task manager and of the shard (who has
which identifier, and that its services are connected once nothing is left to handle),
for every value of their parameters.

Run everything from this directory:

    tlc -config MCBufServer_reuse.cfg MCBufServer     # a model checking run
    tlapm BufFIFOProofs.tla                           # a proof

`PROJECT.json` lists the runs, the lines of code behind each definition, the
hazards, the theorems and, for each property, a plausible mistake (an operator
`Bad...` beside the definition it replaces) that the property catches.

## 1. Inventory

| Component | State | Operations | What is hard | What makes it correct |
|---|---|---|---|---|
| `CBufFIFO` (`misc/buf_fifo.cpp`) | circular buffer, head, tail, rewinder, empty flag | push, front, pop, resize, clear | wrap-around, exact fits, growth while wrapped | no block lost, split or reordered; push ends |
| `CBufNetBase` (`net/buf_net_base.cpp`) | receive queue, "data available" flag and pipe | push an event, flag, byte | flag read without the mutex, byte written after it | the flag is exact, each event has its byte |
| `CBufServer` (`net/buf_server.cpp`) | thread pool, connections and remove set of each receive thread, connected clients | accept, dispatch, receive, dataAvailable, receive, update, disconnect, destruction | three kinds of threads, deletion of sockets, reuse of addresses, lock order, wake-ups | no dangling socket, callbacks in order and once, nothing stuck |
| `CBufClient` (`net/buf_client.cpp`) | one socket object, receive thread, queue | connect, send, dataAvailable, receive, update, disconnect, destruction | reconnection, cancelled threads, disconnection seen by two threads | one report of each end, whole messages |
| `CBufSock` (`net/buf_sock.cpp`) | send queue, buffer being sent, partial receive | flush, update, receivePart | partial sends and receives | the bytes of each message stay in step |
| `CReaderWriter` (`misc/reader_writer.h`) | three mutexes, count of readers | enter and leave, for readers and writers | first and last reader, starvation | exclusion, fairness |
| Layer 3 (`net/callback_*.cpp`) | callback arrays, statistics | update, dispatch of a message | use of a `TSockId` after the events it depends on | the sender of a message is who it was |
| Layer 5 (`net/unified_network.cpp`) | entry of each identifier, connections, names | connect, identify, lose a connection, unregister, return to the naming service | messages of the naming service and of the services come in any order; processes die | the tables agree, and end up right on all sides |
| Naming service (`nelns/naming_service`, `net/naming_client.cpp`) | list of services, acknowledgements awaited | register, resend, unregister, acknowledge, time out | identifiers reused, services and the naming service that stop and come back | nobody takes a service for the last owner of its identifier |
| Login (`nelns/login_service`, `nelns/welcome_service`, `net/login_*.cpp`) | pending cookies, clients | choose shard, send cookie, accept, time out | a late client, a lost shard, a cookie used twice | a cookie admits one user once |
| Admin (`nelns/admin_*`) | requests, answers awaited | request, answer, time out | late or missing answers | each request is answered once |
| Modules (`net/module_*.cpp`) | proxies, gateways, routes | plug, disclose, send, unplug | proxies of a gateway that disappears | proxies and modules correspond |
| `CTaskManager`, `CAsyncFileManager` (`misc`) | task list, two flags, the task thread | add, delete, cancel and wait, dump, destruction | a task cancelled while it is taken or runs, locks held while waiting | each task runs once or is deleted, none after its cancellation |
| Allocators, `CCoTask`, streams, paths, sheets (`misc`) | sequential data | | | |
| 3D, sound, pacs, georges, ligo, logic, cegui, tools, samples | rendering, data formats | | not protocols | |

How they interact: user code runs in the main thread and calls layer 5 or
layer 3, which calls `CBufServer` and `CBufClient`. The listen thread and the
receive threads push events into the receive queue (a `CBufFIFO` in a
`CSynchronized`, that is behind a `CFairMutex`), set the flag, then write a byte
to a pipe. The main thread takes the events out in `dataAvailable` and the
messages in `receive`, and calls back user code, which may send, disconnect or
connect. The server's main thread gives dead sockets to the receive threads (the
remove set), which delete them. A service has one connection to the naming service
(`CNamingClient`), on which it registers and learns of the others, and one to each
other service, opened by the one that registered later; `CUnifiedNetwork` keeps
them in tables by identifier and by name.

## 2. Modules

| Module | Models | Remarks |
|---|---|---|
| `Fifo` | what `CBufFIFO` promises | abstract specification |
| `BufFIFO` | `CBufFIFO` | implements `Fifo` |
| `BufFIFOProofs` | theorems about `BufFIFO` | |
| `RWLock` | what a reader/writer lock promises | abstract specification |
| `ReaderWriter` | `CReaderWriter` | implements `RWLock` |
| `ReaderWriterProofs` | theorems about `ReaderWriter` | |
| `BufServer` | `CBufServer`, its three kinds of threads, and the update loop of layer 3 | Unix build |
| `BufServerProofs` | theorems about `BufServer` | |
| `BufClient` | `CBufClient` and its `CBufSock`, its receive threads, and the update loop of layer 3 | Unix build |
| `BufClientProofs` | theorems about `BufClient` | |
| `TaskManager` | `CTaskManager` and what `CAsyncFileManager` adds | |
| `TaskManagerProofs` | theorems about `TaskManager` | |
| `NamingService` | the list of the naming service and what its handlers make of it | operators, no state |
| `Shard` | naming service, `CNamingClient` and `CUnifiedNetwork` of all services, their connections and faults | composes them, on `NamingService` |
| `ShardTypeProofs` | lemmas about the operators of `NamingService` and about queues; the types of `Shard` | |
| `ShardProofs` | theorems about the identifiers of `Shard` | on `ShardTypeProofs` |
| `ShardTableProofs` | theorems about the tables of `Shard`, and about the connections once nothing is left to handle | on `ShardProofs` |
| `MC...` | the instances TLC checks | |

**BufFIFO.** The pointers are offsets. Of the bytes only what the queue must
keep is there: `mem` maps the offset of each intact header to the length and the
number of its block, and a write over any byte of a block removes the block from
`mem`. So a wrong `canFit`, `resize` or wrap shows as a block that is missing or
in the wrong place. A push is `BeginPush`, one `Grow` for each iteration of its
loop and `Store`. `pushed` and `popped` are history variables. The width of the
buffer size is kept (`Modulus`).

**ReaderWriter.** One action for each mutex operation and each load and store of
`_ReadersLevel`: `++` and `--` are not atomic in the model either. A Unix
`CMutex` is a semaphore of one token, so `_RWMutex` may be left by another
thread than the one that entered it.

**BufServer.** `sock[a]` is the object at address `a` (`Freed` when there is
none): its physical state (`up`), logical state (`state`), `_KnowConnected`
(`know`) and owner thread. A `TSockId` is an address; events also carry the
number of the connection, as a history, so that the properties can tell whether
an address still means the same connection. The main thread follows
`dataAvailable` (`Poll`, the three kinds of events, the callback, `Extract`),
`receive` and `update`, and is inside user code in the states `user`,
`callback` and `message`, where it may disconnect one or all clients. `log` is
what the user was told of each connection.
A step is one critical section or what lies between two of them; a mutex that is
held longer shows in the program counter of its holder (`PoolLocked`,
`ConnectionsLocked`, `RemoveSetLocked`), which is how lock orders are checked.
`dispatchNewSocket` keeps the pool locked (`DispatchBegin`), but locks the
`_Connections` of a thread only for each call of `numberOfConnections`
(`DispatchCount`, into `listen.counts`) and again for `addNewSocket` (`Dispatch`), so
that receive threads delete sockets between; the choice is by the counts.

**BufClient.** One socket object serves all connections. A message has two
halves, prefix and payload; `reading` is the connection whose prefix is read.
Connecting again cancels the receive thread of the previous connection, which a
thread of NeL allows at any instruction (`PTHREAD_CANCEL_ASYNCHRONOUS`,
`misc/p_thread.cpp:61-62`), and which is not waited for: `RecvCancelled` ends a thread
whose cancellation was asked for (`Cancelled`) at any later step and wherever it is.
So the critical section of `pushMessageIntoReceiveQueue` is not one step for a receive
thread (`RecvPush`, `RecvFlag`); `holder` is the thread that has the mutex of the queue
meanwhile. A thread that is cancelled in it leaves the message pushed or not, the flag
set or not, and the mutex taken or, if its stack is unwound, not; `Orphaned` is a
mutex that is left taken. The main thread is never cancelled: its critical sections
are one step, with `holder = 0` as guard.
`quit`, `cut`, `told` and `dropped` are histories: how the user disconnected, whether
a thread was cancelled after it had entered the critical section and before it had
written the byte, which ends were reported, and of which connections an event was
extracted in place of the one that was handled.
The user sends numbered messages, each two halves again. `sendFifo` is the queue,
`ready` and `index` the buffer being sent and how much of it is gone, `flow[c]` what
the system took for connection `c`. `send`, `update`, `flush` and `disconnect` all
run `CBufSock::flush`, one call of `::send` a step (`FlushSends`, `FlushNothing`,
`FlushFails`); `main.call` says which of them to go on with. The sizes that matter
are parameters: that of a packet, from which a message is left in the queue, and
that from which the sent part of the buffer is removed. The time and the size
trigger are choices.

**TaskManager.** Jobs are numbered in the order of `addTask`, which is that of the
list, so that the list is a set of numbers (`queue`). A step of the task thread is
a critical section or the writing of a flag: it says that a job runs before it
leaves the mutex of the queue (`WorkerTake`), which is what a cancellation relies
on that holds that mutex and waits for the flag (`BeginCancel`, `EndCancel`). Both
mutexes are there, as `dump` and the end of a job take the second one.
`finished` and `released` are histories.

**NamingService, Shard.** A service stands for its process, its address and its
connection to the naming service. `toNS[p]` and `fromNS[p]` are the two directions
of that connection, in order; `link[c][p]` is the connection that `c` opened to
`p`: `ident` as long as the identification is not handled, `up`, `gone` if `c` died
before it was handled, `broken` if the other end closed, `closed`. The message of a
connection and that of another are independent, which is where the hard cases come
from. `ids`, `named` and `known` are the tables of each process; `up` is a history
of the callbacks. Each handler is one action, with what it sends; a process handles
one message or event at a time, in its main thread. Processes die at any step
(`Die`), the naming service stops, losing its list and what it sent last, and
starts again (`NSCrash`, `NSRestart`), and gives up waiting (`NSTimeout`).
`spoiled` names what some process has on an identifier when the protocol is known
not to handle it; section 5 lists the cases. All the rest is claimed.

## 3. Runs

| Run | Question | Bounds | Outcome |
|---|---|---|---|
| `MCBufFIFO` | layout, order, size, refinement of `Fifo`, termination of push | headers of 1, blocks of 1, 2 and 4, first buffer of 4, resize to 0, 3 and 7, 6 pushes | holds |
| `MCReaderWriter` | exclusion, count, overtaking, refinement of `RWLock`, starvation, deadlock | 4 threads | holds |
| `MCBufServer_reuse` | callbacks and events when an address is reused; reports, deletion, delivery, destruction | 1 address, 1 receive thread, 2 connections, a message on the first | holds |
| `MCBufServer_pool` | socket lifetime and limits with two receive threads, both strategies, signals | 2 addresses, 2 threads, 2 connections | holds |
| `MCBufServer_stale` | the sender of a message | as reuse, a message on both connections | violated: finding |
| `MCBufServer_blocked` | update returns | pipe of one byte, 1 connection of 2 messages | violated: finding |
| `MCBufClient` | reports, flag and pipe, silence of disconnect, what is sent, destruction | 2 connections with 1 message received, or 2 sent; 1 connection with both; 3 connections without messages; packets of 4 halves, removal from 3 | holds |
| `MCBufClient_framing` | whole messages | 2 connections of 1 message | violated: finding |
| `MCBufClient_cancel` | dataAvailable returns | same | violated: finding |
| `MCTaskManager` | cancellation, each task once, order, waits, destruction | 2 threads, 3 tasks of 2 names and 2 priorities | holds |
| `MCShard` | identity, tables, final connections, end of unregistrations | 3 services of 2 names, 2 identifiers, one name unique or not; 2 deaths, or a death and a crash, or a death and a time out | holds |
| `MCShard_ghost` | the up callback for each client | one death | violated: finding |

Why the bounds are enough. *BufFIFO*: with these sizes a block fits exactly
behind the head, exactly before the tail and exactly between head and tail, the
buffer is full with and without a rewinder, doubles twice, and shrinking is both
refused and done; the theorems cover all other sizes. *ReaderWriter*: a first, a
middle and a last reader and a waiting writer are four threads. *BufServer*: the
hazards come from an address that is used twice while the events of its first
connection are still queued; this needs one address and two connections. Two
threads and two addresses are needed for sockets that have different owners, and for
a socket that is deleted after its thread was counted; no more threads are asked for.
*BufClient*: one reconnection is the shortest history in which a previous receive
thread, event, byte or prefix meets the next connection, or in which a message
that was queued, half sent or lost on one connection meets it; two messages of two
halves leave a buffer partly sent, filled again behind its rest, above and below
both sizes. What is received and what is sent share only the socket, so they meet
in one load, with one connection. Three connections without messages let the user
reconnect twice in the callback about the end of the first one.
*TaskManager*: a task that runs, one that waits and one that comes meanwhile, of the
same or another name and priority; a canceller and a second user. The safety holds
for all bounds, by proof.
*Shard*: an identifier is used again as soon as there are two of them and three
services; the third service is then the witness of a death and a new registration,
or the new owner. Two of one name are needed for a name that is unique.
Deadlock is checked for the lock. The others may stop (the bounds are used up, the
object is destroyed), so their runs do not check it; their liveness properties
would show a deadlock of the threads.

### Fairness

* The lock and the server: a thread that wants a mutex gets it although another
  takes it again and again (strong fairness). `CMutex` on Unix and
  `CSynchronized` are `CFairMutex`, a semaphore (`misc/mutex.cpp:412-448`),
  chosen by the code to avoid "freeze problems" (`misc/mutex.h`).
* A thread inside the lock leaves it. No thread has to call it.
* The user calls `update` again and again, as its documentation asks
  ("call this method evenly"), and callbacks return. Nothing makes a peer
  connect, speak or leave, nor the user disconnect or destroy.
* The client's threads need only weak fairness: a receive thread takes the mutex of
  the queue once for each message that arrives, so that who waits for it finds it free
  from some time on, if it is not orphaned. A cancelled thread ends. The user does what
  he likes between, again and again (`flush` for instance), but he also calls `update`
  and returns from callbacks: strong fairness of `UserReturns`.
* The task manager: its two mutexes are `CSynchronized`, so strong fairness of who
  waits for them; a task that runs returns. Nobody has to cancel, dump or destroy.
* The shard: the naming service and each process call their update functions again
  and again (`IService` does); weak fairness. Nothing has to start, die or come
  back.

### What the violated runs show

1. **Stale sender** (`MCBufServer_stale`). A receive thread pushes a message after
   `update` has advertised the disconnection of the same socket: the message is
   behind the disconnection in the queue. `dataAvailable` handles the
   disconnection and gives the socket to the receive thread, which deletes it;
   then the message is given to its callback with the address of the deleted
   socket (`callback_net_base.cpp:203-223` reads it at once), or of a new one.
2. **Blocked update** (`MCBufServer_blocked`). When the data available pipe is
   full, `update` blocks in its write, in the only thread that reads the pipe,
   with the pool and the connections locked. A Linux pipe holds 65536 bytes, so
   this takes as many queued messages. The passing runs of the server assume a
   pipe that does not fill (capacity 8, more than the events of the run).
3. **Framing across connections** (`MCBufClient_framing`). `connect` does not reset
   what `receivePart` keeps between its calls.
4. **Cancelled thread** (`MCBufClient_cancel`). `connect` cancels the old receive
   thread; between the queue and the pipe this leaves an event without a byte, and
   `dataAvailable` blocks until another event comes. In the critical section of the
   queue it may leave the mutex taken, and then every call that locks the queue blocks for
   ever, the destructor too. The properties of `MCBufClient` therefore make no claim where
   this has happened, each as far as it must: `PipeSuffices` and `GoneIsReported` except
   `cut`, `DestroyReturns` only an `Orphaned` mutex; the others hold all the same.
5. **Ghost entry** (`MCShard_ghost`). A service registers, connects to an older one,
   identifies itself and dies. The older one handles the unregistration broadcast
   first (nothing to remove yet but the entry of the registration), then the
   identification, which makes a new entry with a name and a connection; when the
   connection's end is seen the connection is reset, and the entry remains. The
   identifier is free: its next owner is registered into an entry that is used, its
   identification is not the first, and the user never hears of it.

Other observations, that need no run: an interrupted `select` ends a receive
thread for good (`buf_server.cpp:1093`; the disabled lines above it and the listen
thread ignore the error); a receive thread without connections does not read its
wake-up byte and spins (`buf_server.cpp:1155`); `disconnect` of a client whose
socket has already broken leaves `connectedState` true and does not keep the
callback from being called later (`buf_client.cpp:306-319`), unlike its
documentation; after a failed `send` the socket is still connected when the
callback is called, so that `connect` inside it meets the assertion of
`buf_client.cpp:94`; a `CBufFIFO` that doubled beyond 2^31 bytes would wrap to
0 and `push` would not end. `FillThreads` goes beyond `_MaxThreads` and
`SpreadSockets` beyond `_MaxSocketsPerThread` with a warning
(`buf_server.cpp:926`).

*CBufClient*: if the user connects, disconnects and connects again in the callback about
the end of a connection, `disconnect` empties the queue, and an event that came since
is the one that is extracted when the callback returns (`buf_client.cpp:206-212`).
When it is the end of the last connection, its report is lost, which `GoneIsReported`
excludes by `dropped`.

*CBufSock*: messages that were queued for a connection go out on the next one
(`connect` empties the buffer, not the queue), in order and whole; a flush that
fails loses the messages it has moved and keeps the others; the size trigger flushes
when the queue exceeds the size (`buf_sock.cpp:310`), "reaches or exceeds" in
`buf_client.h:161`.

*Task manager*: `cancelSignal` removes a queued signal but does not wait for one that
runs, unlike `cancelLoadTask`; that one returns at once when it finds a first task
of a name in the queue though another one of this name may be running; a priority
callback makes `changeTaskPriority` take the mutex that its caller holds
(`task_manager.cpp:75`, 235; no program of the repository registers one); a task
that calls `addTask` while a canceller waits for it would wait for ever; `dump` of a
second thread closes a circle of three (the canceller holds the queue and waits for
the task, the task's end waits for the name of the running task, `dump` holds it and
waits for the queue), so the run lets one thread do both; the destructor asserts that
no task is queued.

*Naming service and layer 5*: `releaseService` is never reached (`naming_service.cpp:428`
follows a return on both paths), so that what keeps a unique name taken is the entry
of its list; an identifier that a service brings is accepted even if it is used
(`naming_service.cpp:561-564` sets `ok` again); `registerService` loops for ever when
the naming service dies before it answers (`naming_client.cpp:314-318`);
`CUnifiedNetwork::connect` does nothing if the naming service is lost meanwhile, and
is not called again; a down callback may come for a service whose up callback was
not called (`unified_network.cpp:128` is before the test of the connections), and
the loss of an internal connection calls none (216-245); the identifiers given to
external services count up from 256 and may meet those of the naming service.

## 4. Proofs

`BufFIFOProofs` proves, for every header, buffer and block size and every sequence
of calls:

* `Layout`: `Spec => [](TypeOK /\ LayoutInv)`. `LayoutInv` is inductive as it
  stands, with `TypeOK`: where the pointers may be (`PointersOK`), each block lies
  whole in the used part (`BlocksInUse`), blocks are disjoint (`NoOverlap`), and
  each block is followed, at its end or at the start of the buffer behind the
  rewinder, by the block pushed after it, while the oldest one is where `front` and
  `pop` look (`Chain`). That last part alone would not be inductive: after a pop the
  next block must be where `front` looks, which only the chain says. One lemma for each operation; a reallocation rests on
  `CopyKeepsBlocks` (every block is copied whole and nothing else), a push on
  `StoreKeepsBlocks` (the room `canFit` found overlaps no block).
* `TypeCorrect`: `Spec => []TypeOK`.
* `Implementation`: `Spec => ImplementsFifo`, every step of the buffer is a push or a
  pop of the abstract queue or leaves it as it is. The queue that `Contents` reads out
  of the buffer is ordered by where the blocks lie, from the tail on (`Rank`), and
  `Chain` only relates neighbours. So the proof shows first that the numbers of the
  blocks are all those from the oldest to the newest (`NumbersAreDense`: were one
  missing, take the least, and the chain gives it), then that where a block lies
  and when it was pushed are one order (`OrderIsAge`), from which the i-th block of
  `Contents` is the i-th of those pushed (`ContentsInOrder`). A growth or a resize moves every
  block and leaves the numbers alone (`ResizedContents`); a push appends
  (`StoreAppends`), a pop takes the first (`PopTakesFirst`).

Assumed: `SizesAssumption` (sizes are positive, resize gets a uint32).

`ReaderWriterProofs` proves, for any finite set of threads:

* `TypeCorrect`, `MutualExclusion`, `ExactLevel`, `WritersAreNotOvertaken`: `TypeOK`,
  `Exclusion`, `LevelIsExact`, `NoOvertaking`.
* `Implementation`: `Spec => Refinement`, every step of the lock is a step of
  `RWLock` or a stutter.

The inductive invariant says who holds each mutex (at most one thread is between
enter and leave, and the mutex is taken exactly then), that what a thread has
loaded from `_ReadersLevel` is still the count, that the count is the number of
readers at the labels of `Counted`, and that `_RWMutex` is taken exactly if there
is a writer or a reader that is in. `Exclusion` alone is not inductive, as it says
nothing of the count by which the last reader opens the lock.
Assumed: `ThreadAssumption` (the set of threads is finite).

`TaskManagerProofs` proves, for any users, names, priorities and number of tasks:

* `TypeCorrect`, `ReleasedJobsAreIdle`, `EachJobOnce`, `SignalOrder`: `TypeOK`,
  `ReleasedIsIdle`, `RunsOnceOrIsDeleted`, `SignalMeansLoaded`.

All four follow from `Safety`, `Spec => []IInv`. None but the type is inductive
alone. `IInv` adds `WorkerOK` (`_IsTaskRunning` is set exactly while the task thread
is between taking a job and having done with it), `WaitersOK` (a user that waits
holds the mutex of the queue, and no job of the name he cancels is in it, so that
when the flag is false all jobs of that name have ended) and `HandshakeOK` (the two
uses of `_ThreadRunning`: after the destructor has reset it, only the end of the
thread sets it, and from then on nothing is taken). One lemma for each kind of
action. Assumed: `ManagerAssumption` (the owner is a user, priorities are naturals).

`BufClientProofs` proves, for any number of connections, any loads and any sizes of
packets and buffers:

* `TypeCorrect`, `UserSeesTheSocket`, `EveryEventHasItsByte`, `SilentDisconnect`:
  `TypeOK`, `UserView`, `PipeSuffices`, `DisconnectIsSilent`.
* `WholeStream`: `StreamIsWhole`.

The first four follow from `Safety`, `Spec => []IInv`. `PipeSuffices` is inductive only with
`MainOK` (what dataAvailable has looked at stays at the front of the queue),
`SectionOK` (a thread between the push and the flag has the mutex, and what it pushed
is still there, so that the flag it sets is right even if it is cancelled just then) and
`ThreadsOK` (the connection that is being made has no thread, so that a cancelled
thread that owes a byte belongs to a former one, which `cut` records). `UserView` and
`DisconnectIsSilent` rest on `ReportsOK`: apart from the event whose callback has not
returned, the queue holds at most one disconnection, that of the current connection,
and only while `_ConnectedState` is set, `_KnowConnected` is reset (or about to be)
and the end was not told. So a reconnection, which needs `_ConnectedState` reset,
finds no report in the queue, and no report of a former connection can be taken for
one of the next. `Frame` and `MainFrame` say which actions change what, so that each
invariant has one step for each action that can disturb it; `MovedInRange` shows that
the number of messages that flush moves is well defined.

`WholeStream` needs an invariant of its own, `StreamInv`, inductive relative to
`IInv`. `StreamIsWhole` says nothing of what is not sent yet, so `StreamInv` follows a
message through the three places it is in: the queue rises (`QueueOK`); the
buffer ends with a whole message, though the first of it may be half gone, and comes
before the queue (`BufferOK`); what each connection was given is whole but for its
last message, and before the buffer and the queue (`FlowsOK`); and the buffer goes on
where the flow of the current connection ends, unless sending has failed on it
(`JoinOK`: after a failure half a message may be missing, and nothing more is sent).
Where a message is cut is told by parity alone, since the halves are numbered: a flow
and the rest of the buffer have an even number of halves together. `FillingKeepsOrder`,
`FlowGoesOn` and `RestOfBuffer` are the lemmas about filling the buffer, giving a part
of it to the system and removing that part. Assumed: `ClientAssumption`
(numbers and sizes are naturals, there is a connection).

`BufServerProofs` proves, for any number of addresses, receive threads, connections
and messages, both strategies, any limits of the pool and any capacity of the pipe:

* `TypesHold`, `PipeIsExact`, `PoolIsLimited`, `NothingDangles`, `EventsOfLiveSockets`,
  `ProtocolHolds`, `ClientsAreExact`: `TypeOK`, `PipeAccounting`, `PoolLimits`,
  `NoDangling`, `EventsAlive`, `CallbackProtocol`, `ClientsMatchCallbacks`.

All follow from `Inductive`, `Spec => []IInv`; only the type is inductive alone. The
argument is about who may delete a socket and when. `ThreadsInv` gives the life of
each thread and what the mutexes that are kept across steps exclude. `OwnerInv`: each
object is in the list of the thread that owns it or in the hands of the listen
thread, and no list holds a deleted one; `UniqueInv`: no two objects have the number of one
connection, though they may have one address after the other. `EventInv`: the event that is
handled is the one at the front of the queue. `KnowInv`: once the
disconnection of a socket was pushed, `_KnowConnected` is reset (or about to be), and
so it is pushed once; `ProtocolInv`: an event of a connection comes after its connection event.
`RemoveInv`: only a socket whose end the user was told is to be removed. Together they
give `NothingAfterEnd`, that nothing but messages is queued of a connection whose
end was told, and so that no connection or disconnection event is left with a deleted
socket (`AliveInv`); messages are the exception that the run `MCBufServer_stale` shows.
`StoryStep` spares the case split where only the events matter: every step adds one to
what is pending, tells the user the first of it, or does neither. `PoolInv` is about
threads and their connections: while the listen thread counts, sockets are only taken
away, so that a count is never too low (`CountsInv`, by `LoadStep` and `CountsKept`), and a
thread with room by its count has room when the socket comes (`LimitsInv`);
`LeastExists` shows that the least loaded thread that `dispatchNewSocket` looks for exists. Assumed: `ServerAssumption`.

`ShardTypeProofs`, `ShardProofs` and `ShardTableProofs` prove, for any services, names, identifiers,
restrictions, and any number of deaths, time outs and crashes of the naming service:

* `TypeCorrect`: `TypeOK`, with what the messages of each channel carry.
* `NoIdentityIsStale`: `NoStaleIdentity`.
* `IdentitiesDiffer`: two services that are alive have different identifiers, and
  different names if the name must be unique.
* `TablesAreConsistent`: `TablesAgree`.
* `OneConnection`: of two services at most one ever connects to the other, and none to
  itself.
* `QuietIsConnected`: `QuietMeansConnected`.

`NoStaleIdentity` speaks of what a process has in its tables, and the registry. That
it holds depends on all that is on its way, so the inductive invariant (`Inv`, `NextInv`,
`Spec => []Inv` by `InitInv`) says what each message means. It was checked with TLC on
the instance of `MCShard` before it was proved.
Its heart is two notions. `Owner(q, k)`: `q` is alive and has the identifier, or its
answer is on the way; or the naming service has an entry that says so, which may be
waiting; or `q` comes back with it. `Mentions(p, q, k)`: `p` takes `k` for that of
`q`, in a list, a table, a callback or a message that it has not handled.

* `OwnerInv`: an identifier has one owner; `NameInv`: so has a name that must be unique.
* `MentionInv`: whoever is mentioned owns, and if the naming service is about to free
  the identifier then it waits for the one who mentions (`Awaited`). This is the point of
  the acknowledgements.
* `AckInv`: a process of which the acknowledgement is on its way, or the
  unregistration, is awaited; nothing that mentions follows the unregistration in
  its channel, and once acknowledged nothing mentions at all. So when the last
  acknowledgement is handled, nobody mentions any more (`RegistryShrinks`).
* `StartInv`: while a service asks for an identifier, the naming service knows all
  those that have one, so that the smallest free one is nobody's (`AcceptInv`): a crash
  followed by a start would break it, as `naming_client.h:49-50` says.
* `TraceInv` (a service has one identifier in its life), `LifeInv`, `PostInv`,
  `RegistryInv` (what a process at each stage may have in its tables and channels),
  `SpoilInv` (what a crash leaves of a registration), `LinkInv`, `TableInv` (an
  entry that is used has the name of a service that is noted).

One lemma for each action. The steps that leave the channels and the registry alone
(`Internal`: connecting, identification, loss of a connection) share one
(`InternalInv`). `ShardTypeProofs` has what they cite of the model's operators: the
list without some of its entries (`Kept`) has the other ones in their order, what
`doRemove`, the purge and an acknowledgement leave, and when a queue has no message of
one kind behind one of another (`Bars`).

`TablesAgree` speaks of the three tables of one process, but is not inductive: an
identification that came for an entry that is invalid, or a second connection between
two services, would break it. `ShardTableProofs` adds to `Inv` what excludes both,
which TLC found to hold on the instance of `MCShard` before it was proved.

* `Prior(p, q, k)`: `p` found `q` when it registered, in the list or in the answer on its
  way, before its own entry; it is to connect to those, or did. `Placed`: its own
  entry is in the list it has. `Cleared`: until `p` is told that such a one left, its
  identifier is in use, so that no news of another comes first.
* `AntiInv`: of two services only one found the other. It is why `addService` may
  connect without looking for a connection the other way.
* `OpenInv`: a service connects only once, neither to one that connected to it nor to one
  that is to (`OneConnection` follows). `PeerInv`: an entry that is connected has such
  a connection.
* `InvalidInv`: where an entry is invalid as the connection was lost or could not be
  opened, no identification of that service is on its way or will come.
* `NamedInv`: the entries, the names and the callbacks agree on each identifier (`Agree`).

`OrderNext` proves what is about registrations, one lemma for each kind of step, and
`TablesNext` the rest from it.

`QuietMeansConnected` is about a state with nothing left to handle, so its invariants
say, of the states before, who has still to do what. Their conjunction, `ConnectInv`,
is inductive relative to what is proved above (`InitConnect`, `ConnectNext`); each was found
to hold on the instance of `MCShard` before it was proved. `Has(q, k)`: `q` is alive
and has the identifier, or its answer is on the way.

* `AwaitInv`: each service that a waiting entry of the registry waits for has still to
  be told, or its acknowledgement or its end is on the way. So a quiet registry has no
  waiting entry: it has those that run (`QuietRegistry`).
* `LastInv`, `BareInv`, `StillInv`: the list that comes with an identifier ends with its
  owner; there is no connection before the service connects; nobody is told that
  one that is before it and lives is gone, and the entry that has a connection while
  it connects has it to the service it is about.
* `MeetInv`: of any two services that have an identifier one is to connect to
  the other (`Prior`), or did. This is the heart: neither the list in the answer
  nor the news may miss a service, in whatever order they come, and a service that
  comes back after a crash is not new.
* `JoinedInv`: the connection of two services is in the entry of the
  identifier (`Joined`), at once where it was opened, at the other end once it is
  identified.

A quiet service has connected to all it was to, and so `QuietPair` follows from the last
two, `QuietRest` (the other entries are free) from `OwnerInv` and `TableInv`.
Most steps touch little of this. `Passing`, a step that gives no
identifier to anyone, and `Steady`, a step after which no opened connection is as if it
never was (all steps are, `SteadyNext`), spare the case split; the lemmas whose names end in
`Does` say what an action changes. `MeetInv` and `JoinedInv` except what is `spoiled`, as the
property does. Assumed by all three modules: `ShardAssumption` (there is an
identifier, names are strings other than DEAD, and `None` is no service).

Only model-checked: the liveness properties, under fairness, which is beyond the prover.
Every other property of a run that passes is a theorem. The theorems of the library about
induction take an operator, which the provers cannot instantiate; where a proof needs
induction over numbers it takes the least counterexample, which exists as the
naturals are well founded.

## 5. Abstractions, and what is not modelled

* The Unix branches of the code; the Windows ones poll with a timeout instead of
  the wake-up pipe.
* The server's `send` changes no state that is modelled: `pushBufferToHost`
  ignores its result, and `update` notices a broken connection. Whether a flush
  fails is the choice of `UpdateFailed` for a connection whose peer is gone. The
  flush itself is that of the client's model.
* The system takes a part of what it is given or nothing, or fails if the other end
  is gone or the socket is closed; other errors of `::send` are left out.
* The wake-up pipes never fill; the client's data available pipe neither.
* A receive thread of the client that is cancelled inside `CBufFIFO::push`, inside
  `receivePart` or inside the allocator may leave the bytes of the queue, the buffer of
  the socket or the heap in a state that is neither the old nor the new one. This is
  undefined for everything that follows and is not modelled: a cancelled push was done or
  not done.
* `connect` of the client succeeds; the user of the client connects when the
  callbacks have told him that he is not connected.
* `receivePart` of the server gives a whole message or nothing, that of the client
  whole halves.
* The time limit of the update loop of layer 3 is a choice (`MessageDone`), and
  so is the number of messages that it handles.
* `sleepUntilDataAvailable` is a `select` before `dataAvailable`; replay mode,
  statistics and logs are left out.
* The task manager: what tasks do, the list of those done, the contents of a dump,
  the callback that changes priorities. Nobody calls the manager once it is being
  destroyed; a task does not call it.
* The shard: services with one address on one network, known to the naming service;
  a user calls `CUnifiedNetwork::connect` once, after the registration; the end of a
  process is `release` or a death, with the same effect on the others. Left out:
  external services, auto retry, networks, user messages, port allocation, `UNI`,
  `killAllServices`, identifiers chosen by the service, uniqueness by machine,
  lookups. A service is started once those that have an identifier are known to the
  naming service, as `naming_client.h:49-50` demands. Identifiers are few instead of
  128 to 65535, the refusal when none is left is that of the code.
* `spoiled`: no claim is made on what a process has on an identifier when (1) the
  naming service gave up waiting for its acknowledgement, (2) the owner died while
  the naming service did not know it (down, or not yet registered again), (3) the
  naming service stopped while the owner was being registered or removed, (4) the
  owner did not connect because the naming service was lost just then, (5) the
  process handles the identification of an owner that is dead and unregistered (the
  ghost entry), (6) the owner has closed the connection, taking it for that of a
  service whose unregistration it handles late, after (1) or (3).
* The components of section 1 without a module: see the plan.

## 6. Plan

Done: 1. `Fifo`, `BufFIFO` with proofs; 2. `RWLock`, `ReaderWriter` with proofs;
3. `BufServer` with proofs; 4. `BufClient`, with sending and proofs; 5. `TaskManager` with proofs;
6. `NamingService`, `Shard`, with proofs about identifiers, tables and connections; 7. the refinement of
`Fifo` by `BufFIFO` as a theorem.

Next, in this order:

8. `LoginCookie`: login service, welcome service, front end and client.
9. The module gateways, over layer 5; external services and auto retry.
10. The requests of the admin services, with their time outs.

The rest of the repository (3D, sound, collision, sheets, tools, samples) is
numerical code, data formats and user interface: it has no protocol and little
concurrency of its own, and its size is why the definitions stand for a small part
of all lines.
