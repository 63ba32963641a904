------------------------- MODULE TaskManagerProofs --------------------------
(***************************************************************************)
(* Theorems about TaskManager, for every set of users, names and           *)
(* priorities and every number of jobs.                                    *)
(***************************************************************************)
EXTENDS TaskManager, TLAPS

(* The task thread is between the critical sections in which it takes a    *)
(* job and in which it has done with it.                                   *)
Busy == {"name", "run", "record", "clear"}

WorkerOK ==
  /\ isTaskRunning <=> worker.pc \in Busy
  /\ worker.job # 0 <=> worker.pc \in Busy
  /\ worker.pc \in {"record", "clear"} => worker.job \in finished

(* A user that waits holds the mutex, so that no job of the name that it   *)
(* cancels can come into the queue.                                        *)
WaitersOK ==
  /\ \A u \in User : user[u].pc = "waiting" => lock = {u} /\ Queued(user[u].name) = {}
  /\ user[Owner].pc = "joining" => lock = {Owner}

(* The two uses of _ThreadRunning: the destructor resets it, then only the *)
(* end of the thread sets it.                                              *)
HandshakeOK ==
  /\ user[Owner].pc \in {"idle", "waiting", "dumping"} =>
       threadRunning /\ worker.pc \notin {"leaving", "ended"}
  /\ user[Owner].pc = "stopping" => (threadRunning <=> worker.pc = "ended")
  /\ user[Owner].pc \in {"joining", "destroyed", "asserted"} => worker.pc = "ended"
  /\ user[Owner].pc \in {"joining", "destroyed"} => queue = {}

IInv ==
  /\ TypeOK
  /\ WorkerOK
  /\ WaitersOK
  /\ HandshakeOK
  /\ ReleasedIsIdle
  /\ RunsOnceOrIsDeleted
  /\ SignalMeansLoaded

-----------------------------------------------------------------------------
LEMMA ElementsOfSeq ==
  ASSUME NEW S, NEW s \in Seq(S)
  PROVE  \A i \in 1 .. Len(s) : s[i] \in S
  OBVIOUS

LEMMA Initially == Init => IInv
PROOF
  <1> SUFFICES ASSUME Init PROVE IInv
    OBVIOUS
  <1>1. Job = {}
    BY DEF Init, Job
  <1>2. TypeOK
    <2>1. jobs \in Seq([name : Name, priority : Priority])
      BY DEF Init
    <2> QED BY <1>1, <2>1 DEF Init, TypeOK
  <1>3. WorkerOK /\ WaitersOK /\ HandshakeOK
    BY ManagerAssumption DEF Init, WorkerOK, WaitersOK, HandshakeOK, Busy
  <1>4. ReleasedIsIdle /\ RunsOnceOrIsDeleted /\ SignalMeansLoaded
    BY <1>1, ManagerAssumption
    DEF Init, ReleasedIsIdle, RunsOnceOrIsDeleted, SignalMeansLoaded, Current, Started
  <1> QED BY <1>2, <1>3, <1>4 DEF IInv

LEMMA TakeStep ==
  ASSUME IInv, WorkerTake
  PROVE  IInv'
PROOF
  <1> USE DEF IInv
  <1>1. PICK j \in queue :
          /\ Best(j)
          /\ worker' = [pc |-> "name", job |-> j]
          /\ queue' = queue \ {j}
    BY DEF WorkerTake
  <1>2. TypeOK'
    BY <1>1 DEF WorkerTake, TypeOK, Job, locks
  <1>3. WorkerOK' /\ WaitersOK' /\ HandshakeOK'
    BY <1>1 DEF WorkerTake, TypeOK, WorkerOK, WaitersOK, HandshakeOK, Busy, Queued, Job, locks
  <1>4. ReleasedIsIdle'
    BY <1>1 DEF WorkerTake, TypeOK, ReleasedIsIdle, Job
  <1>5. RunsOnceOrIsDeleted'
    BY <1>1, ManagerAssumption
    DEF WorkerTake, TypeOK, HandshakeOK, RunsOnceOrIsDeleted, Job, Current
  <1>6. SignalMeansLoaded'
    <2>1. \A i \in Job : jobs[i].priority \in Nat
      <3>1. \A i \in 1 .. Len(jobs) : jobs[i] \in [name : Name, priority : Priority]
        BY ElementsOfSeq DEF TypeOK
      <3> QED BY <3>1, ManagerAssumption DEF Job
    <2>2. Job' = Job /\ jobs' = jobs /\ finished' = finished /\ released' = released
      BY DEF WorkerTake, Job
    <2>3. Started' = finished \union {j} /\ j \in Job
      BY <1>1, <2>2 DEF Started, Job, TypeOK
    <2>4. Job = queue \union finished \union released
      BY DEF WorkerTake, RunsOnceOrIsDeleted, Current
    <2>5. ASSUME NEW i \in Job, i < j, jobs[i].priority <= jobs[j].priority
          PROVE  i \in finished \union released
      <3>1. i \notin queue
        BY <1>1, <2>1, <2>3, <2>5 DEF Best
      <3> QED BY <3>1, <2>4
    <2>6. \A k \in finished : k \in Started
      BY DEF Started
    <2> QED BY <2>2, <2>3, <2>5, <2>6 DEF SignalMeansLoaded
  <1> QED BY <1>2, <1>3, <1>4, <1>5, <1>6

LEMMA WorkerStep ==
  ASSUME IInv, Worker
  PROVE  IInv'
PROOF
  <1> USE ManagerAssumption DEF IInv, TypeOK, WorkerOK, WaitersOK, HandshakeOK, ReleasedIsIdle,
          RunsOnceOrIsDeleted, SignalMeansLoaded, Busy, Job, Current, Started, Queued,
          WorkerGoes, locks, flags
  <1>1. CASE WorkerLoop
    BY <1>1 DEF WorkerLoop
  <1>2. CASE WorkerSleep
    BY <1>2 DEF WorkerSleep
  <1>3. CASE WorkerTake
    BY <1>3, TakeStep
  <1>4. CASE WorkerName
    BY <1>4 DEF WorkerName
  <1>5. CASE WorkerRun
    BY <1>5 DEF WorkerRun
  <1>6. CASE WorkerRecord
    BY <1>6 DEF WorkerRecord
  <1>7. CASE WorkerClear
    BY <1>7 DEF WorkerClear
  <1>8. CASE WorkerLeave
    BY <1>8 DEF WorkerLeave
  <1> QED BY <1>1, <1>2, <1>3, <1>4, <1>5, <1>6, <1>7, <1>8 DEF Worker

LEMMA AddStep ==
  ASSUME IInv, NEW u \in User, NEW n \in Name, NEW p \in Priority, AddTask(u, n, p)
  PROVE  IInv'
PROOF
  <1> DEFINE job == [name |-> n, priority |-> p]
             new == Len(jobs) + 1
  <1> USE DEF IInv
  <1>1. /\ jobs' = Append(jobs, job)
        /\ jobs' \in Seq([name : Name, priority : Priority])
        /\ Len(jobs') = new
        /\ Len(jobs) \in Nat
    BY DEF AddTask, TypeOK
  <1>2. /\ Job' = Job \union {new}
        /\ new \notin Job
        /\ \A i \in Job : jobs'[i] = jobs[i]
        /\ queue' = queue \union {new}
    BY <1>1 DEF AddTask, TypeOK, Job
  <1> HIDE DEF job, new
  <1>3. TypeOK'
    BY <1>1, <1>2 DEF AddTask, TypeOK, locks, flags
  <1>4. WorkerOK' /\ HandshakeOK'
    BY <1>2 DEF AddTask, Calls, TypeOK, WorkerOK, HandshakeOK, flags
  <1>5. WaitersOK'
    BY <1>2 DEF AddTask, TypeOK, WaitersOK, locks
  <1>6. ReleasedIsIdle'
    BY <1>2 DEF AddTask, TypeOK, ReleasedIsIdle
  <1>7. RunsOnceOrIsDeleted'
    BY <1>2, ManagerAssumption DEF AddTask, Calls, TypeOK, RunsOnceOrIsDeleted, Current
  <1>8. SignalMeansLoaded'
    BY <1>1, <1>2 DEF AddTask, TypeOK, WorkerOK, SignalMeansLoaded, Started, Job
  <1> QED BY <1>3, <1>4, <1>5, <1>6, <1>7, <1>8

LEMMA UserStep ==
  ASSUME IInv,
         \/ \E u \in User, n \in Name : (\E p \in Priority : AddTask(u, n, p)) \/ DeleteTask(u, n)
         \/ \E u \in Canceller : (\E n \in Name : BeginCancel(u, n)) \/ EndCancel(u)
         \/ \E u \in Dumper : BeginDump(u) \/ EndDump(u)
  PROVE  IInv'
PROOF
  <1> USE ManagerAssumption DEF IInv, TypeOK, WorkerOK, WaitersOK, HandshakeOK, ReleasedIsIdle,
          RunsOnceOrIsDeleted, SignalMeansLoaded, Busy, Job, Current, Started, Queued,
          UserGoes, Calls, locks, flags
  <1>1. CASE \E u \in User, n \in Name, p \in Priority : AddTask(u, n, p)
    BY <1>1, AddStep
  <1>2. ASSUME NEW u \in User, NEW n \in Name, DeleteTask(u, n)
        PROVE  IInv'
    BY <1>2 DEF DeleteTask, Erase
  <1>3. ASSUME NEW u \in Canceller, NEW n \in Name, BeginCancel(u, n)
        PROVE  IInv'
    BY <1>3 DEF BeginCancel
  <1>4. ASSUME NEW u \in Canceller, EndCancel(u)
        PROVE  IInv'
    <2>1. /\ u \in User
          /\ user' = [user EXCEPT ![u] = [pc |-> "idle", name |-> "none"]]
          /\ user'[u].pc = "idle"
          /\ \A v \in User : v # u => user'[v] = user[v]
      BY <1>4 DEF EndCancel
    <2>2. TypeOK'
      BY <1>4, <2>1 DEF EndCancel
    <2>3. WorkerOK' /\ HandshakeOK'
      BY <1>4, <2>1 DEF EndCancel
    <2>6. lock = {u} /\ user[Owner].pc # "joining"
      BY <1>4, <2>1 DEF EndCancel
    <2>7. \A v \in User : user'[v].pc # "waiting"
      <3> SUFFICES ASSUME NEW v \in User, user'[v].pc = "waiting" PROVE FALSE
        OBVIOUS
      <3>1. v # u /\ user[v].pc = "waiting"
        BY <2>1
      <3>2. lock = {v}
        BY <3>1
      <3> QED BY <2>6, <3>1, <3>2
    <2>8. user'[Owner].pc # "joining"
      BY <2>1, <2>6
    <2>9. WaitersOK'
      BY <2>7, <2>8
    <2>4. ReleasedIsIdle' /\ SignalMeansLoaded'
      BY <1>4 DEF EndCancel
    <2>5. RunsOnceOrIsDeleted'
      BY <1>4, <2>1 DEF EndCancel
    <2> QED BY <2>2, <2>3, <2>4, <2>5, <2>9
  <1>5. ASSUME NEW u \in Dumper, BeginDump(u)
        PROVE  IInv'
    BY <1>5 DEF BeginDump
  <1>6. ASSUME NEW u \in Dumper, EndDump(u)
        PROVE  IInv'
    <2>1. /\ u \in User
          /\ user'[u].pc = "idle"
          /\ user[u].pc = "dumping"
          /\ \A v \in User : v # u => user'[v] = user[v]
      BY <1>6 DEF EndDump
    <2>2. TypeOK'
      BY <1>6, <2>1 DEF EndDump
    <2>3. WorkerOK' /\ WaitersOK' /\ HandshakeOK'
      BY <1>6, <2>1 DEF EndDump
    <2>4. ReleasedIsIdle' /\ SignalMeansLoaded' /\ RunsOnceOrIsDeleted'
      BY <1>6, <2>1 DEF EndDump
    <2> QED BY <2>2, <2>3, <2>4
  <1> QED BY <1>1, <1>2, <1>3, <1>4, <1>5, <1>6

LEMMA DestructorStep ==
  ASSUME IInv, Destroy \/ DestroyAnswered \/ Destroyed
  PROVE  IInv'
PROOF
  <1> USE ManagerAssumption DEF IInv, TypeOK, WorkerOK, WaitersOK, HandshakeOK, ReleasedIsIdle,
          RunsOnceOrIsDeleted, SignalMeansLoaded, Busy, Job, Current, Started, Queued,
          UserGoes, locks, flags
  <1>1. CASE Destroy
    <2>1. /\ user'[Owner].pc = "stopping"
          /\ user[Owner].pc = "idle"
          /\ \A v \in User : v # Owner => user'[v] = user[v]
      BY <1>1 DEF Destroy
    <2>5. user' \in [User -> [pc : {"idle", "waiting", "dumping", "stopping", "joining",
                                   "destroyed", "asserted"},
                             name : Name \union {"none"}]]
      BY <1>1 DEF Destroy
    <2>2. TypeOK'
      BY <1>1, <2>5 DEF Destroy
    <2>3. WorkerOK' /\ WaitersOK' /\ HandshakeOK'
      BY <1>1, <2>1 DEF Destroy
    <2>4. ReleasedIsIdle' /\ SignalMeansLoaded' /\ RunsOnceOrIsDeleted'
      BY <1>1, <2>1 DEF Destroy
    <2> QED BY <2>2, <2>3, <2>4
  <1>2. CASE DestroyAnswered
    <2>1. /\ user'[Owner].pc = IF queue = {} THEN "joining" ELSE "asserted"
          /\ user[Owner].pc = "stopping"
          /\ \A v \in User : v # Owner => user'[v] = user[v]
      BY <1>2 DEF DestroyAnswered
    <2>2. TypeOK'
      BY <1>2, <2>1 DEF DestroyAnswered
    <2>3. WorkerOK' /\ WaitersOK' /\ HandshakeOK'
      BY <1>2, <2>1 DEF DestroyAnswered
    <2>4. ReleasedIsIdle' /\ SignalMeansLoaded' /\ RunsOnceOrIsDeleted'
      BY <1>2, <2>1 DEF DestroyAnswered
    <2> QED BY <2>2, <2>3, <2>4
  <1>3. CASE Destroyed
    <2>1. /\ user'[Owner].pc = "destroyed"
          /\ user[Owner].pc = "joining"
          /\ \A v \in User : v # Owner => user'[v] = user[v]
      BY <1>3 DEF Destroyed
    <2>2. TypeOK'
      BY <1>3, <2>1 DEF Destroyed
    <2>3. WorkerOK' /\ HandshakeOK'
      BY <1>3, <2>1 DEF Destroyed
    <2>4. \A v \in User : user'[v].pc # "waiting"
      BY <1>3, <2>1 DEF Destroyed
    <2>5. WaitersOK'
      BY <1>3, <2>1, <2>4 DEF Destroyed
    <2>6. ReleasedIsIdle' /\ SignalMeansLoaded'
      BY <1>3 DEF Destroyed
    <2>7. RunsOnceOrIsDeleted'
      BY <1>3, <2>1 DEF Destroyed
    <2> QED BY <2>2, <2>3, <2>5, <2>6, <2>7
  <1> QED BY <1>1, <1>2, <1>3

-----------------------------------------------------------------------------
(* Every invariant below holds in every state of the task manager.         *)
THEOREM Safety == Spec => []IInv
PROOF
  <1>1. IInv /\ [Next]_vars => IInv'
    <2> SUFFICES ASSUME IInv, [Next]_vars PROVE IInv'
      OBVIOUS
    <2>1. CASE Worker
      BY <2>1, WorkerStep
    <2>2. CASE \/ \E u \in User, n \in Name : (\E p \in Priority : AddTask(u, n, p)) \/ DeleteTask(u, n)
               \/ \E u \in Canceller : (\E n \in Name : BeginCancel(u, n)) \/ EndCancel(u)
               \/ \E u \in Dumper : BeginDump(u) \/ EndDump(u)
      BY <2>2, UserStep
    <2>3. CASE Destroy \/ DestroyAnswered \/ Destroyed
      BY <2>3, DestructorStep
    <2>4. CASE UNCHANGED vars
      BY <2>4 DEF vars, IInv, TypeOK, WorkerOK, WaitersOK, HandshakeOK, ReleasedIsIdle,
                  RunsOnceOrIsDeleted, SignalMeansLoaded, Busy, Job, Current, Started, Queued
    <2> QED BY <2>1, <2>2, <2>3, <2>4 DEF Next
  <1> QED BY Initially, <1>1, PTL DEF Spec

(* The state of the manager has its type.                                  *)
THEOREM TypeCorrect == Spec => []TypeOK
  <1>1. IInv => TypeOK
    BY DEF IInv
  <1> QED BY Safety, <1>1, PTL

(* A job that its user was told is out of use never runs again: what       *)
(* deleteTask and cancelLoadTask promise to those that free its memory.    *)
THEOREM ReleasedJobsAreIdle == Spec => []ReleasedIsIdle
  <1>1. IInv => ReleasedIsIdle
    BY DEF IInv
  <1> QED BY Safety, <1>1, PTL

(* No job is lost or run twice, and none is left behind by the destructor. *)
THEOREM EachJobOnce == Spec => []RunsOnceOrIsDeleted
  <1>1. IInv => RunsOnceOrIsDeleted
    BY DEF IInv
  <1> QED BY Safety, <1>1, PTL

(* Jobs start in the order of their priorities and numbers: a signal task  *)
(* runs after all that was added before it.                                *)
THEOREM SignalOrder == Spec => []SignalMeansLoaded
  <1>1. IInv => SignalMeansLoaded
    BY DEF IInv
  <1> QED BY Safety, <1>1, PTL
=============================================================================
