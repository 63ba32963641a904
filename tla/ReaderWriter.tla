---------------------------- MODULE ReaderWriter ----------------------------
(***************************************************************************)
(* NLMISC::CReaderWriter (nel/include/nel/misc/reader_writer.h): a         *)
(* reader/writer lock made of three mutexes and a count of the readers.    *)
(* On Unix a CMutex is a semaphore of one token (mutex.cpp), so that       *)
(* _RWMutex may be entered by the first reader and left by the last one.   *)
(*                                                                         *)
(* The program counter of a thread names what it does next, or what it     *)
(* holds: "read" and "write" are the threads inside the lock.              *)
(***************************************************************************)
EXTENDS Integers, FiniteSets

CONSTANT Thread

ASSUME ThreadAssumption == IsFiniteSet(Thread)

VARIABLES
  fairness,      \* whether _Fairness is taken
  readersMutex,  \* whether _ReadersMutex is taken
  rwMutex,       \* whether _RWMutex is taken
  level,         \* _ReadersLevel
  local,         \* the value of _ReadersLevel a thread has loaded, else 0
  pc             \* what each thread is about to do

vars == << fairness, readersMutex, rwMutex, level, local, pc >>

Init ==
  /\ fairness = FALSE
  /\ readersMutex = FALSE
  /\ rwMutex = FALSE
  /\ level = 0
  /\ local = [t \in Thread |-> 0]
  /\ pc = [t \in Thread |-> "out"]

-----------------------------------------------------------------------------
Goes(t, from, to) == pc[t] = from /\ pc' = [pc EXCEPT ![t] = to]

(* The user calls enterReader or enterWriter.                              *)
Call(t) ==
  /\ \E to \in {"reader fairness", "writer fairness"} : Goes(t, "out", to)
  /\ UNCHANGED << fairness, readersMutex, rwMutex, level, local >>

(* enterReader                                                             *)
BadReaderFairness(t) ==
  /\ Goes(t, "reader fairness", "reader mutex")
  /\ UNCHANGED << fairness, readersMutex, rwMutex, level, local >>

ReaderFairness(t) ==
  /\ Goes(t, "reader fairness", "reader mutex")
  /\ ~fairness
  /\ fairness' = TRUE
  /\ UNCHANGED << readersMutex, rwMutex, level, local >>

ReaderMutex(t) ==
  /\ Goes(t, "reader mutex", "count")
  /\ ~readersMutex
  /\ readersMutex' = TRUE
  /\ UNCHANGED << fairness, rwMutex, level, local >>

(* ++_ReadersLevel loads the count and stores the new one; the first       *)
(* reader enters _RWMutex for all of them.                                 *)
Load(t, from, to) ==
  /\ Goes(t, from, to)
  /\ local' = [local EXCEPT ![t] = level]
  /\ UNCHANGED << fairness, readersMutex, rwMutex, level >>

BadCount(t) ==
  /\ Goes(t, "counting", "reader leaves mutex")
  /\ level' = local[t] + 1
  /\ local' = [local EXCEPT ![t] = 0]
  /\ UNCHANGED << fairness, readersMutex, rwMutex >>

Count(t) ==
  /\ Goes(t, "counting", IF local[t] = 0 THEN "reader rw" ELSE "reader leaves mutex")
  /\ level' = local[t] + 1
  /\ local' = [local EXCEPT ![t] = 0]
  /\ UNCHANGED << fairness, readersMutex, rwMutex >>

ReaderRW(t) ==
  /\ Goes(t, "reader rw", "reader leaves mutex")
  /\ ~rwMutex
  /\ rwMutex' = TRUE
  /\ UNCHANGED << fairness, readersMutex, level, local >>

ReaderLeavesMutex(t) ==
  /\ Goes(t, "reader leaves mutex", "reader leaves fairness")
  /\ readersMutex' = FALSE
  /\ UNCHANGED << fairness, rwMutex, level, local >>

ReaderLeavesFairness(t) ==
  /\ Goes(t, "reader leaves fairness", "read")
  /\ fairness' = FALSE
  /\ UNCHANGED << readersMutex, rwMutex, level, local >>

(* leaveReader                                                             *)
BadLeaveReader(t) ==
  /\ Goes(t, "read", "discount")
  /\ UNCHANGED << fairness, readersMutex, rwMutex, level, local >>

LeaveReader(t) ==
  /\ Goes(t, "read", "discount")
  /\ ~readersMutex
  /\ readersMutex' = TRUE
  /\ UNCHANGED << fairness, rwMutex, level, local >>

BadDiscount(t) ==
  /\ Goes(t, "discounting", "leaving")
  /\ level' = local[t] - 1
  /\ local' = [local EXCEPT ![t] = 0]
  /\ rwMutex' = FALSE
  /\ UNCHANGED << fairness, readersMutex >>

(* --_ReadersLevel; the last reader leaves _RWMutex.                       *)
Discount(t) ==
  /\ Goes(t, "discounting", "leaving")
  /\ level' = local[t] - 1
  /\ local' = [local EXCEPT ![t] = 0]
  /\ rwMutex' = (rwMutex /\ local[t] # 1)
  /\ UNCHANGED << fairness, readersMutex >>

ReaderLeavesReaders(t) ==
  /\ Goes(t, "leaving", "out")
  /\ readersMutex' = FALSE
  /\ UNCHANGED << fairness, rwMutex, level, local >>

(* enterWriter                                                             *)
BadWriterFairness(t) ==
  /\ Goes(t, "writer fairness", "writer rw")
  /\ ~fairness
  /\ UNCHANGED << fairness, readersMutex, rwMutex, level, local >>

WriterFairness(t) ==
  /\ Goes(t, "writer fairness", "writer rw")
  /\ ~fairness
  /\ fairness' = TRUE
  /\ UNCHANGED << readersMutex, rwMutex, level, local >>

WriterRW(t) ==
  /\ Goes(t, "writer rw", "writer leaves fairness")
  /\ ~rwMutex
  /\ rwMutex' = TRUE
  /\ UNCHANGED << fairness, readersMutex, level, local >>

WriterLeavesFairness(t) ==
  /\ Goes(t, "writer leaves fairness", "write")
  /\ fairness' = FALSE
  /\ UNCHANGED << readersMutex, rwMutex, level, local >>

(* leaveWriter                                                             *)
LeaveWriter(t) ==
  /\ Goes(t, "write", "out")
  /\ rwMutex' = FALSE
  /\ UNCHANGED << fairness, readersMutex, level, local >>

-----------------------------------------------------------------------------
Enter(t) ==
  \/ ReaderFairness(t) \/ ReaderMutex(t) \/ Load(t, "count", "counting") \/ Count(t) \/ ReaderRW(t)
  \/ ReaderLeavesMutex(t) \/ ReaderLeavesFairness(t)
  \/ WriterFairness(t) \/ WriterRW(t) \/ WriterLeavesFairness(t)

Leave(t) ==
  \/ LeaveReader(t) \/ Load(t, "discount", "discounting") \/ Discount(t)
  \/ ReaderLeavesReaders(t) \/ LeaveWriter(t)

Next == \E t \in Thread : Call(t) \/ Enter(t) \/ Leave(t)

(* CMutex is CFairMutex, the one that avoids "freeze problems": a thread   *)
(* that waits for a mutex which is left again and again gets it.  A thread *)
(* that is inside the lock leaves it; none has to call it.                 *)
Fairness == \A t \in Thread : SF_vars(Enter(t)) /\ SF_vars(Leave(t))

Spec == Init /\ [][Next]_vars /\ Fairness

-----------------------------------------------------------------------------
PC == {"out", "reader fairness", "reader mutex", "count", "counting", "reader rw",
       "reader leaves mutex", "reader leaves fairness", "read", "discount", "discounting",
       "leaving", "writer fairness", "writer rw", "writer leaves fairness", "write"}

TypeOK ==
  /\ fairness \in BOOLEAN
  /\ readersMutex \in BOOLEAN
  /\ rwMutex \in BOOLEAN
  /\ level \in Nat
  /\ local \in [Thread -> Nat]
  /\ pc \in [Thread -> PC]

At(labels) == {t \in Thread : pc[t] \in labels}

(* A thread that writes is alone in the lock.                              *)
Exclusion ==
  \A t, u \in Thread : pc[t] = "write" /\ t # u => pc[u] \notin {"read", "write"}

(* The readers that _ReadersLevel counts.                                  *)
Counted == At({"reader rw", "reader leaves mutex", "reader leaves fairness", "read", "discount",
              "discounting"})

(* _ReadersLevel is the number of readers, whatever leaves and enters.     *)
LevelIsExact == level = Cardinality(Counted)

(* A reader that arrives while a writer waits for the readers to leave     *)
(* does not pass it: no reader gets in as long as a writer waits for       *)
(* _RWMutex.                                                               *)
NoOvertaking ==
  [][\A t, u \in Thread :
       pc[t] = "writer rw" /\ pc[u] # "read" => pc'[u] # "read"]_vars

(* Every thread that asks for the lock gets it: nobody starves, and the    *)
(* three mutexes cannot deadlock.                                          *)
EveryoneEnters ==
  \A t \in Thread : /\ pc[t] = "reader fairness" ~> pc[t] = "read"
                    /\ pc[t] = "writer fairness" ~> pc[t] = "write"

(* The lock is a reader/writer lock: a reader is in from the time it no    *)
(* longer waits for _RWMutex until it is no longer counted, a writer as    *)
(* long as it has _RWMutex.                                                *)
Abstract == INSTANCE RWLock WITH
  readers <- At({"reader leaves mutex", "reader leaves fairness", "read", "discount",
                 "discounting"}),
  writers <- At({"writer leaves fairness", "write"})

Refinement == Abstract!Spec
=============================================================================
