---------------------------- MODULE TaskManager -----------------------------
(***************************************************************************)
(* NLMISC::CTaskManager (nel/src/misc/task_manager.cpp) and the calls that *)
(* CAsyncFileManager adds to it (nel/src/misc/async_file_manager.cpp): a   *)
(* thread runs, one at a time, the tasks that users put in a queue.        *)
(*                                                                         *)
(* A job is one object handed to addTask, numbered in the order of the     *)
(* calls; as tasks are added at the end of the list, its order is that of  *)
(* the numbers.  What a user calls a job by (a mesh, a texture, a flag) is *)
(* its name: deleting or cancelling takes the first job of a name.         *)
(***************************************************************************)
EXTENDS Naturals, Sequences

CONSTANTS
  User,        \* the threads that use the manager
  Owner,       \* the one that destroys it
  Canceller,   \* those that call cancelLoadTask
  Dumper,      \* those that call dump
  Name,        \* what tasks are known by
  Priority,    \* the priorities of addTask, the lowest is served first
  NbJobs       \* bound on the calls of addTask

ASSUME ManagerAssumption ==
  /\ Owner \in User
  /\ Canceller \subseteq User
  /\ Dumper \subseteq User
  /\ Priority \subseteq Nat
  /\ NbJobs \in Nat

VARIABLES
  jobs,           \* history: the name and the priority of each job
  queue,          \* the jobs of _TaskQueue
  lock,           \* the user that holds the mutex of _TaskQueue, if any: a set
  runningLock,    \* the same, for the mutex of _RunningTask
  threadRunning,  \* _ThreadRunning
  isTaskRunning,  \* _IsTaskRunning
  worker,         \* the task thread: [pc, job]
  user,           \* the users: [pc, name]
  finished,       \* history: the jobs whose run has returned
  released        \* history: the jobs that their users were told are out of use

vars == << jobs, queue, lock, runningLock, threadRunning, isTaskRunning, worker, user,
           finished, released >>

locks == << lock, runningLock >>
flags == << threadRunning, isTaskRunning >>

Job == 1 .. Len(jobs)

Init ==
  /\ jobs = << >>
  /\ queue = {}
  /\ lock = {}
  /\ runningLock = {}
  /\ threadRunning = TRUE
  /\ isTaskRunning = FALSE
  /\ worker = [pc |-> "loop", job |-> 0]
  /\ user = [u \in User |-> [pc |-> "idle", name |-> "none"]]
  /\ finished = {}
  /\ released = {}

-----------------------------------------------------------------------------
(* The task thread, CTaskManager::run.                                     *)
WorkerGoes(pc) == worker' = [worker EXCEPT !.pc = pc]

WorkerLoop ==
  /\ worker.pc = "loop"
  /\ WorkerGoes(IF threadRunning THEN "take" ELSE "leaving")
  /\ UNCHANGED << jobs, queue, locks, flags, user, finished, released >>

BadWorkerSleep ==
  /\ worker.pc = "take"
  /\ lock = {}
  /\ queue = {}
  /\ WorkerGoes("leaving")
  /\ UNCHANGED << jobs, queue, locks, flags, user, finished, released >>

WorkerSleep ==
  /\ worker.pc = "take"
  /\ lock = {}
  /\ queue = {}
  /\ WorkerGoes("loop")
  /\ UNCHANGED << jobs, queue, locks, flags, user, finished, released >>

BadBest(j) ==
  \A k \in queue :
    /\ jobs[j].priority <= jobs[k].priority
    /\ k > j => jobs[j].priority < jobs[k].priority

(* The best job is the first of the lowest priority.                       *)
Best(j) ==
  \A k \in queue :
    /\ jobs[j].priority <= jobs[k].priority
    /\ k < j => jobs[j].priority < jobs[k].priority

BadWorkerTake ==
  /\ worker.pc = "take"
  /\ lock = {}
  /\ \E j \in queue :
       /\ Best(j)
       /\ worker' = [pc |-> "name", job |-> j]
       /\ queue' = queue \ {j}
  /\ UNCHANGED << jobs, locks, flags, user, finished, released >>

BadWorkerTakeKeeps ==
  /\ worker.pc = "take"
  /\ lock = {}
  /\ \E j \in queue : Best(j) /\ worker' = [pc |-> "name", job |-> j]
  /\ isTaskRunning' = TRUE
  /\ UNCHANGED << jobs, queue, locks, threadRunning, user, finished, released >>

(* The flag says that a job runs before the mutex is left.                 *)
WorkerTake ==
  /\ worker.pc = "take"
  /\ lock = {}
  /\ \E j \in queue :
       /\ Best(j)
       /\ worker' = [pc |-> "name", job |-> j]
       /\ queue' = queue \ {j}
  /\ isTaskRunning' = TRUE
  /\ UNCHANGED << jobs, locks, threadRunning, user, finished, released >>

WorkerName ==
  /\ worker.pc = "name"
  /\ runningLock = {}
  /\ WorkerGoes("run")
  /\ UNCHANGED << jobs, queue, locks, flags, user, finished, released >>

WorkerRun ==
  /\ worker.pc = "run"
  /\ finished' = finished \union {worker.job}
  /\ WorkerGoes("record")
  /\ UNCHANGED << jobs, queue, locks, flags, user, released >>

WorkerRecord ==
  /\ worker.pc = "record"
  /\ runningLock = {}
  /\ WorkerGoes("clear")
  /\ UNCHANGED << jobs, queue, locks, flags, user, finished, released >>

BadWorkerClear ==
  /\ worker.pc = "clear"
  /\ worker' = [pc |-> "loop", job |-> 0]
  /\ UNCHANGED << jobs, queue, locks, flags, user, finished, released >>

WorkerClear ==
  /\ worker.pc = "clear"
  /\ isTaskRunning' = FALSE
  /\ worker' = [pc |-> "loop", job |-> 0]
  /\ UNCHANGED << jobs, queue, locks, threadRunning, user, finished, released >>

WorkerLeave ==
  /\ worker.pc = "leaving"
  /\ threadRunning' = TRUE
  /\ WorkerGoes("ended")
  /\ UNCHANGED << jobs, queue, locks, isTaskRunning, user, finished, released >>

Worker ==
  \/ WorkerLoop
  \/ WorkerSleep
  \/ WorkerTake
  \/ WorkerName
  \/ WorkerRun
  \/ WorkerRecord
  \/ WorkerClear
  \/ WorkerLeave

-----------------------------------------------------------------------------
(* The users.  Nobody calls the manager once it is being destroyed.        *)
UserGoes(u, pc) == user' = [user EXCEPT ![u].pc = pc]
Calls(u) == user[u].pc = "idle" /\ user[Owner].pc \in {"idle", "waiting", "dumping"}

BadAddTask(u, n, p) ==
  /\ Calls(u)
  /\ lock = {}
  /\ Len(jobs) < NbJobs
  /\ jobs' = Append(jobs, [name |-> n, priority |-> p])
  /\ queue' = queue \union {Len(jobs)}
  /\ UNCHANGED << locks, flags, worker, user, finished, released >>

AddTask(u, n, p) ==
  /\ Calls(u)
  /\ lock = {}
  /\ Len(jobs) < NbJobs
  /\ jobs' = Append(jobs, [name |-> n, priority |-> p])
  /\ queue' = queue \union {Len(jobs')}
  /\ UNCHANGED << locks, flags, worker, user, finished, released >>

Queued(n) == {j \in queue : jobs[j].name = n}

(* The first job of a name leaves the queue, for good.                     *)
Erase(n) ==
  \E j \in Queued(n) :
    /\ \A k \in Queued(n) : j <= k
    /\ queue' = queue \ {j}
    /\ released' = released \union {j}

(* deleteTask and cancelSignal, and cancelLoadTask if the job is queued.   *)
DeleteTask(u, n) ==
  /\ Calls(u)
  /\ lock = {}
  /\ Erase(n)
  /\ UNCHANGED << jobs, locks, flags, worker, user, finished >>

(* cancelLoadTask if it is not: keeps the mutex ...                        *)
BeginCancel(u, n) ==
  /\ Calls(u)
  /\ lock = {}
  /\ Queued(n) = {}
  /\ lock' = {u}
  /\ user' = [user EXCEPT ![u] = [pc |-> "waiting", name |-> n]]
  /\ UNCHANGED << jobs, queue, runningLock, flags, worker, finished, released >>

BadEndCancel(u) ==
  /\ user[u].pc = "waiting"
  /\ lock' = {}
  /\ user' = [user EXCEPT ![u] = [pc |-> "idle", name |-> "none"]]
  /\ released' = released \union {j \in Job : jobs[j].name = user[u].name}
  /\ UNCHANGED << jobs, queue, runningLock, flags, worker, finished >>

(* ... and waits for the current job, whatever it is, to complete.         *)
EndCancel(u) ==
  /\ user[u].pc = "waiting"
  /\ ~isTaskRunning
  /\ lock' = {}
  /\ user' = [user EXCEPT ![u] = [pc |-> "idle", name |-> "none"]]
  /\ released' = released \union {j \in Job : jobs[j].name = user[u].name}
  /\ UNCHANGED << jobs, queue, runningLock, flags, worker, finished >>

(* dump takes the mutex of _RunningTask, then that of _TaskQueue.          *)
BeginDump(u) ==
  /\ Calls(u)
  /\ runningLock = {}
  /\ runningLock' = {u}
  /\ UserGoes(u, "dumping")
  /\ UNCHANGED << jobs, queue, lock, flags, worker, finished, released >>

EndDump(u) ==
  /\ user[u].pc = "dumping"
  /\ lock = {}
  /\ runningLock' = {}
  /\ UserGoes(u, "idle")
  /\ UNCHANGED << jobs, queue, lock, flags, worker, finished, released >>

-----------------------------------------------------------------------------
(* The destructor asks the thread to end ...                               *)
Destroy ==
  /\ \A u \in User : user[u].pc = "idle"
  /\ threadRunning' = FALSE
  /\ UserGoes(Owner, "stopping")
  /\ UNCHANGED << jobs, queue, locks, isTaskRunning, worker, finished, released >>

(* ... waits for it to answer with the same flag, asserts that no task is  *)
(* left, with the mutex of the queue, which it keeps ...                   *)
DestroyAnswered ==
  /\ user[Owner].pc = "stopping"
  /\ threadRunning
  /\ lock = {}
  /\ lock' = {Owner}
  /\ UserGoes(Owner, IF queue = {} THEN "joining" ELSE "asserted")
  /\ UNCHANGED << jobs, queue, runningLock, flags, worker, finished, released >>

(* ... and joins the thread.                                               *)
Destroyed ==
  /\ user[Owner].pc = "joining"
  /\ worker.pc = "ended"
  /\ lock' = {}
  /\ UserGoes(Owner, "destroyed")
  /\ UNCHANGED << jobs, queue, runningLock, flags, worker, finished, released >>

-----------------------------------------------------------------------------
Next ==
  \/ Worker
  \/ \E u \in User, n \in Name : (\E p \in Priority : AddTask(u, n, p)) \/ DeleteTask(u, n)
  \/ \E u \in Canceller : (\E n \in Name : BeginCancel(u, n)) \/ EndCancel(u)
  \/ \E u \in Dumper : BeginDump(u) \/ EndDump(u)
  \/ Destroy
  \/ DestroyAnswered
  \/ Destroyed

(* Threads are scheduled, and one that wants a mutex gets it although      *)
(* others take it again and again.                                         *)
Fairness ==
  /\ SF_vars(Worker)
  /\ \A u \in Canceller : WF_vars(EndCancel(u))
  /\ \A u \in Dumper : SF_vars(EndDump(u))
  /\ SF_vars(DestroyAnswered \/ Destroyed)

Spec == Init /\ [][Next]_vars /\ Fairness

-----------------------------------------------------------------------------
TypeOK ==
  /\ jobs \in Seq([name : Name, priority : Priority])
  /\ queue \subseteq Job
  /\ lock \subseteq User
  /\ runningLock \subseteq User
  /\ threadRunning \in BOOLEAN
  /\ isTaskRunning \in BOOLEAN
  /\ worker \in [pc : {"loop", "take", "name", "run", "record", "clear", "leaving", "ended"},
                 job : Job \union {0}]
  /\ user \in [User -> [pc : {"idle", "waiting", "dumping", "stopping", "joining",
                              "destroyed", "asserted"},
                       name : Name \union {"none"}]]
  /\ finished \subseteq Job
  /\ released \subseteq Job

(* async_file_manager.cpp:94-96, "the current running task may be the one  *)
(* we want to cancel.  Must wait it": when deleteTask or cancelLoadTask    *)
(* has returned, the job that it took out of the queue, or every job of    *)
(* that name when it found none there, never runs again, so that what the  *)
(* job writes to may be freed.                                             *)
ReleasedIsIdle ==
  /\ released \intersect queue = {}
  /\ worker.job \in released => worker.pc \notin {"name", "run"}

(* A job is queued, is the current one, was run to its end or was deleted, *)
(* and only one of these: none is lost, none is run twice, whatever users  *)
(* do while the thread takes it.  When the manager is destroyed, none is   *)
(* left and the thread has ended.                                          *)
Current == IF worker.pc \in {"name", "run"} THEN {worker.job} ELSE {}

RunsOnceOrIsDeleted ==
  /\ Job = queue \union Current \union finished \union released
  /\ queue \intersect (Current \union finished) = {}
  /\ Current \intersect finished = {}
  /\ user[Owner].pc = "destroyed" =>
       worker.pc = "ended" /\ Job = finished \union released

(* async_file_manager.h:56, "Signal a end of loading for a group of mesh   *)
(* or file added": when a job has started, those that were added before it *)
(* with the same priority, or a more urgent one, have ended.               *)
Started == IF worker.job = 0 THEN finished ELSE finished \union {worker.job}

SignalMeansLoaded ==
  \A j \in Started : \A i \in Job :
    i < j /\ jobs[i].priority <= jobs[j].priority => i \in finished \union released

(* Waiting for the current job with the mutex of the queue taken ends, and *)
(* so does the destructor, which waits for the thread.                     *)
WaitsEnd ==
  /\ \A u \in Canceller : user[u].pc = "waiting" ~> user[u].pc = "idle"
  /\ user[Owner].pc = "stopping" ~> user[Owner].pc \in {"destroyed", "asserted"}

(* A job is run or deleted, unless the manager is destroyed before.        *)
JobsAreRun ==
  \A j \in 1 .. NbJobs :
    j \in queue ~> \/ j \in finished \union released
                  \/ user[Owner].pc \in {"stopping", "asserted"}

=============================================================================
