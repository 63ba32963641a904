------------------------- MODULE ReaderWriterProofs -------------------------
(***************************************************************************)
(* CReaderWriter excludes: a thread that writes is alone, for any finite   *)
(* set of threads.  Exclusion is not inductive: it needs who holds each    *)
(* of the three mutexes, and that the count of the readers, on which the   *)
(* first and the last one decide to enter and to leave _RWMutex, is exact, *)
(* though it is loaded and stored in two steps.                            *)
(***************************************************************************)
EXTENDS ReaderWriter, FiniteSetTheorems, TLAPS

FairnessHolders ==
  {"reader mutex", "count", "counting", "reader rw", "reader leaves mutex",
   "reader leaves fairness", "writer rw", "writer leaves fairness"}

MutexHolders ==
  {"count", "counting", "reader rw", "reader leaves mutex", "discount", "discounting",
   "leaving"}

ReadersIn ==
  {"reader leaves mutex", "reader leaves fairness", "read", "discount", "discounting"}

WritersIn == {"writer leaves fairness", "write"}

(* A mutex is taken when a thread is at one of the labels where it holds   *)
(* the mutex, and only one thread is.                                      *)
Holds(taken, at, labels) ==
  /\ taken <=> \E t \in Thread : at[t] \in labels
  /\ \A t, u \in Thread : at[t] \in labels /\ at[u] \in labels => t = u

FairnessInv == Holds(fairness, pc, FairnessHolders)

MutexInv == Holds(readersMutex, pc, MutexHolders)

(* _RWMutex is held by one writer or by all the readers together.          *)
RWInv ==
  /\ rwMutex <=> \E t \in Thread : pc[t] \in ReadersIn \union WritersIn
  /\ \A t, u \in Thread : pc[t] \in WritersIn /\ pc[u] \in ReadersIn \union WritersIn => t = u

(* The first reader waits for _RWMutex alone.                              *)
FirstInv == \A t, u \in Thread : pc[t] = "reader rw" => pc[u] \notin ReadersIn

(* What a thread has loaded is still the count when it stores.             *)
LocalInv == \A t \in Thread : pc[t] \in {"counting", "discounting"} => local[t] = level

IInv == TypeOK /\ FairnessInv /\ MutexInv /\ RWInv /\ FirstInv /\ LocalInv /\ LevelIsExact

(* The set of the counted readers is finite.                               *)
LEMMA CountedFinite == IsFiniteSet(Counted)
BY ThreadAssumption, FS_Subset DEF Counted, At

(* At the beginning everything is free.                                    *)
LEMMA InitIInv == Init => IInv
<1> SUFFICES ASSUME Init PROVE IInv
  OBVIOUS
<1>1. Counted = {}
  BY DEF Init, Counted, At
<1>2. LevelIsExact
  BY <1>1, FS_EmptySet DEF Init, LevelIsExact
<1>3. TypeOK
  BY DEF Init, TypeOK, PC
<1> QED
  BY <1>2, <1>3 DEF Init, IInv, FairnessInv, MutexInv, RWInv, FirstInv, LocalInv, Holds,
     FairnessHolders, MutexHolders, ReadersIn, WritersIn

(* What the count says of the readers: zero if none is counted, one if the *)
(* reader t is the only one.                                               *)
LEMMA CountMeans ==
  ASSUME IInv
  PROVE  /\ level = 0 <=> Counted = {}
         /\ \A t \in Counted : level \in Nat \ {0} /\ (level = 1 <=> Counted = {t})
<1>1. level = Cardinality(Counted)
  BY DEF IInv, LevelIsExact
<1>2. level = 0 <=> Counted = {}
  BY <1>1, CountedFinite, FS_EmptySet
<1>3. ASSUME NEW t \in Counted
      PROVE  level \in Nat \ {0} /\ (level = 1 <=> Counted = {t})
  <2>1. IsFiniteSet(Counted \ {t}) /\ Cardinality(Counted \ {t}) = level - 1
    BY <1>1, CountedFinite, FS_RemoveElement
  <2>2. level \in Nat \ {0}
    BY <1>2, <1>3 DEF IInv, TypeOK
  <2>3. Cardinality(Counted \ {t}) = 0 <=> Counted \ {t} = {}
    BY <2>1, FS_EmptySet
  <2> QED
    BY <2>1, <2>2, <2>3
<1> QED
  BY <1>2, <1>3

(* A thread moves to a label where it holds a free mutex, ...              *)
LEMMA Acquire ==
  ASSUME NEW labels, NEW at \in [Thread -> PC], NEW t \in Thread, NEW to \in PC,
         Holds(FALSE, at, labels), to \in labels
  PROVE  Holds(TRUE, [at EXCEPT ![t] = to], labels)
BY DEF Holds

(* ... from one where it holds a mutex to one where it does not, ...       *)
LEMMA Release ==
  ASSUME NEW labels, NEW at \in [Thread -> PC], NEW t \in Thread, NEW to \in PC,
         NEW taken \in BOOLEAN, Holds(taken, at, labels), at[t] \in labels, to \notin labels
  PROVE  Holds(FALSE, [at EXCEPT ![t] = to], labels)
BY DEF Holds

(* ... or between two labels that do not differ in this.                   *)
LEMMA Keep ==
  ASSUME NEW labels, NEW at \in [Thread -> PC], NEW t \in Thread, NEW to \in PC,
         NEW taken \in BOOLEAN, Holds(taken, at, labels), at[t] \in labels <=> to \in labels
  PROVE  Holds(taken, [at EXCEPT ![t] = to], labels)
BY DEF Holds

(* The types, which rest on the count when a reader leaves.                *)
LEMMA TypeStep == ASSUME IInv, NEW t \in Thread, Call(t) \/ Enter(t) \/ Leave(t) PROVE TypeOK'
<1>1. TypeOK
  BY DEF IInv
<1>2. CASE Discount(t)
  <2>1. t \in Counted
    BY <1>2 DEF Discount, Goes, Counted, At
  <2>2. local[t] = level
    BY <1>2 DEF IInv, Discount, Goes, LocalInv
  <2>3. level \in Nat \ {0}
    BY <2>1, CountMeans
  <2>4. level - 1 \in Nat
    BY <2>3
  <2> QED
    BY <1>1, <1>2, <2>2, <2>4 DEF TypeOK, PC, Goes, Discount
<1>3. CASE Call(t)
  BY <1>1, <1>3 DEF TypeOK, PC, Goes, Call
<1>4. CASE Count(t)
  <2>1. local[t] \in Nat /\ level' = local[t] + 1 /\ local' = [local EXCEPT ![t] = 0]
    BY <1>1, <1>4 DEF TypeOK, Count
  <2>2. PICK to \in PC : pc' = [pc EXCEPT ![t] = to]
    BY <1>4 DEF PC, Goes, Count
  <2>3. level' \in Nat
    BY <2>1
  <2>4. local' \in [Thread -> Nat]
    BY <1>1, <2>1 DEF TypeOK
  <2>5. pc' \in [Thread -> PC]
    BY <1>1, <2>2 DEF TypeOK
  <2> QED
    BY <1>1, <1>4, <2>3, <2>4, <2>5 DEF TypeOK, Count
<1>5. CASE Load(t, "count", "counting") \/ Load(t, "discount", "discounting")
  BY <1>1, <1>5 DEF TypeOK, PC, Goes, Load
<1>6. CASE \/ ReaderFairness(t) \/ ReaderMutex(t) \/ ReaderRW(t) \/ ReaderLeavesMutex(t)
           \/ ReaderLeavesFairness(t)
  BY <1>1, <1>6 DEF TypeOK, PC, Goes, ReaderFairness, ReaderMutex, ReaderRW,
     ReaderLeavesMutex, ReaderLeavesFairness
<1>7. CASE \/ LeaveReader(t) \/ ReaderLeavesReaders(t) \/ WriterFairness(t) \/ WriterRW(t)
           \/ WriterLeavesFairness(t) \/ LeaveWriter(t)
  BY <1>1, <1>7 DEF TypeOK, PC, Goes, LeaveReader, ReaderLeavesReaders, WriterFairness,
     WriterRW, WriterLeavesFairness, LeaveWriter
<1> QED
  BY <1>2, <1>3, <1>4, <1>5, <1>6, <1>7 DEF Enter, Leave

(* _Fairness has one holder.                                               *)
LEMMA FairnessStep ==
  ASSUME IInv, NEW t \in Thread, Call(t) \/ Enter(t) \/ Leave(t)
  PROVE  FairnessInv'
<1>1. TypeOK /\ Holds(fairness, pc, FairnessHolders) /\ pc \in [Thread -> PC]
      /\ fairness \in BOOLEAN
  BY DEF IInv, FairnessInv, TypeOK
<1>2. SUFFICES Holds(fairness', pc', FairnessHolders)
  BY DEF FairnessInv, Holds, FairnessHolders
<1>3. CASE ReaderFairness(t) \/ WriterFairness(t)
  <2>1. fairness = FALSE /\ fairness' = TRUE
    BY <1>1, <1>3 DEF ReaderFairness, WriterFairness
  <2>2. PICK to \in PC \intersect FairnessHolders : pc' = [pc EXCEPT ![t] = to]
    BY <1>3 DEF ReaderFairness, WriterFairness, Goes, PC, FairnessHolders
  <2> QED
    BY <1>1, <2>1, <2>2, Acquire
<1>4. CASE ReaderLeavesFairness(t) \/ WriterLeavesFairness(t)
  <2>1. fairness' = FALSE /\ pc[t] \in FairnessHolders
    BY <1>4 DEF ReaderLeavesFairness, WriterLeavesFairness, Goes, FairnessHolders
  <2>2. PICK to \in PC \ FairnessHolders : pc' = [pc EXCEPT ![t] = to]
    BY <1>4 DEF ReaderLeavesFairness, WriterLeavesFairness, Goes, PC, FairnessHolders
  <2> QED
    BY <1>1, <2>1, <2>2, Release
<1>5. ASSUME fairness' = fairness,
             NEW to \in PC, pc' = [pc EXCEPT ![t] = to],
             pc[t] \in FairnessHolders <=> to \in FairnessHolders
      PROVE  Holds(fairness', pc', FairnessHolders)
  BY <1>1, <1>5, Keep
<1>6. CASE Call(t)
  BY <1>5, <1>6 DEF Call, Goes, PC, FairnessHolders
<1>7. CASE Load(t, "count", "counting") \/ Load(t, "discount", "discounting")
  BY <1>5, <1>7 DEF Load, Goes, PC, FairnessHolders
<1>8. CASE ReaderMutex(t) \/ ReaderRW(t) \/ ReaderLeavesMutex(t) \/ WriterRW(t)
  BY <1>5, <1>8 DEF ReaderMutex, ReaderRW, ReaderLeavesMutex, WriterRW, Goes, PC,
     FairnessHolders
<1>9. CASE Count(t)
  BY <1>5, <1>9 DEF Count, Goes, PC, FairnessHolders
<1>10. CASE LeaveReader(t) \/ Discount(t) \/ ReaderLeavesReaders(t) \/ LeaveWriter(t)
  BY <1>5, <1>10 DEF LeaveReader, Discount, ReaderLeavesReaders, LeaveWriter, Goes, PC,
     FairnessHolders
<1> QED
  BY <1>3, <1>4, <1>6, <1>7, <1>8, <1>9, <1>10 DEF Enter, Leave

(* _ReadersMutex has one holder.                                           *)
LEMMA MutexStep ==
  ASSUME IInv, NEW t \in Thread, Call(t) \/ Enter(t) \/ Leave(t)
  PROVE  MutexInv'
<1>1. TypeOK /\ Holds(readersMutex, pc, MutexHolders) /\ pc \in [Thread -> PC]
      /\ readersMutex \in BOOLEAN
  BY DEF IInv, MutexInv, TypeOK
<1>2. SUFFICES Holds(readersMutex', pc', MutexHolders)
  BY DEF MutexInv, Holds, MutexHolders
<1>3. CASE ReaderMutex(t) \/ LeaveReader(t)
  <2>1. readersMutex = FALSE /\ readersMutex' = TRUE
    BY <1>1, <1>3 DEF ReaderMutex, LeaveReader
  <2>2. PICK to \in PC \intersect MutexHolders : pc' = [pc EXCEPT ![t] = to]
    BY <1>3 DEF ReaderMutex, LeaveReader, Goes, PC, MutexHolders
  <2> QED
    BY <1>1, <2>1, <2>2, Acquire
<1>4. CASE ReaderLeavesMutex(t) \/ ReaderLeavesReaders(t)
  <2>1. readersMutex' = FALSE /\ pc[t] \in MutexHolders
    BY <1>4 DEF ReaderLeavesMutex, ReaderLeavesReaders, Goes, MutexHolders
  <2>2. PICK to \in PC \ MutexHolders : pc' = [pc EXCEPT ![t] = to]
    BY <1>4 DEF ReaderLeavesMutex, ReaderLeavesReaders, Goes, PC, MutexHolders
  <2> QED
    BY <1>1, <2>1, <2>2, Release
<1>5. ASSUME readersMutex' = readersMutex,
             NEW to \in PC, pc' = [pc EXCEPT ![t] = to],
             pc[t] \in MutexHolders <=> to \in MutexHolders
      PROVE  Holds(readersMutex', pc', MutexHolders)
  BY <1>1, <1>5, Keep
<1>6. CASE Call(t)
  BY <1>5, <1>6 DEF Call, Goes, PC, MutexHolders
<1>7. CASE Load(t, "count", "counting") \/ Load(t, "discount", "discounting")
  BY <1>5, <1>7 DEF Load, Goes, PC, MutexHolders
<1>8. CASE ReaderFairness(t) \/ ReaderRW(t) \/ ReaderLeavesFairness(t)
  BY <1>5, <1>8 DEF ReaderFairness, ReaderRW, ReaderLeavesFairness, Goes, PC, MutexHolders
<1>9. CASE Count(t)
  BY <1>5, <1>9 DEF Count, Goes, PC, MutexHolders
<1>10. CASE WriterFairness(t) \/ WriterRW(t) \/ WriterLeavesFairness(t) \/ LeaveWriter(t)
  BY <1>5, <1>10 DEF WriterFairness, WriterRW, WriterLeavesFairness, LeaveWriter, Goes, PC,
     MutexHolders
<1>11. CASE Discount(t)
  BY <1>5, <1>11 DEF Discount, Goes, PC, MutexHolders
<1> QED
  BY <1>3, <1>4, <1>6, <1>7, <1>8, <1>9, <1>10, <1>11 DEF Enter, Leave

(* What a thread has loaded stays the count: it holds _ReadersMutex.       *)
LEMMA LocalStep ==
  ASSUME IInv, NEW t \in Thread, Call(t) \/ Enter(t) \/ Leave(t)
  PROVE  LocalInv'
<1>1. TypeOK /\ LocalInv /\ pc \in [Thread -> PC] /\ local \in [Thread -> Nat]
  BY DEF IInv, TypeOK
<1>2. \A u, v \in Thread : pc[u] \in MutexHolders /\ pc[v] \in MutexHolders => u = v
  BY DEF IInv, MutexInv, Holds
<1>3. CASE Count(t) \/ Discount(t)
  <2>1. \A u \in Thread \ {t} : pc'[u] = pc[u] /\ pc[u] \notin {"counting", "discounting"}
    BY <1>1, <1>2, <1>3 DEF Count, Discount, Goes, MutexHolders
  <2>2. pc'[t] \notin {"counting", "discounting"}
    BY <1>1, <1>3 DEF Count, Discount, Goes
  <2> QED
    BY <2>1, <2>2 DEF LocalInv
<1>4. CASE Load(t, "count", "counting") \/ Load(t, "discount", "discounting")
  BY <1>1, <1>4 DEF Load, Goes, LocalInv
<1>5. ASSUME local' = local, level' = level,
             NEW to \in PC \ {"counting", "discounting"}, pc' = [pc EXCEPT ![t] = to]
      PROVE  LocalInv'
  BY <1>1, <1>5 DEF LocalInv
<1>6. CASE Call(t)
  BY <1>5, <1>6 DEF Call, Goes, PC
<1>7. CASE \/ ReaderFairness(t) \/ ReaderMutex(t) \/ ReaderRW(t) \/ ReaderLeavesMutex(t)
           \/ ReaderLeavesFairness(t)
  BY <1>5, <1>7 DEF ReaderFairness, ReaderMutex, ReaderRW, ReaderLeavesMutex,
     ReaderLeavesFairness, Goes, PC
<1>8. CASE \/ LeaveReader(t) \/ ReaderLeavesReaders(t) \/ WriterFairness(t) \/ WriterRW(t)
           \/ WriterLeavesFairness(t) \/ LeaveWriter(t)
  BY <1>5, <1>8 DEF LeaveReader, ReaderLeavesReaders, WriterFairness, WriterRW,
     WriterLeavesFairness, LeaveWriter, Goes, PC
<1> QED
  BY <1>3, <1>4, <1>6, <1>7, <1>8 DEF Enter, Leave

(* The readers that are counted are in, but for the first one, which is    *)
(* alone with _ReadersMutex.                                               *)
LEMMA OthersAreIn ==
  ASSUME IInv, NEW t \in Thread, pc[t] \in {"counting", "discounting"},
         NEW u \in Counted
  PROVE  u \in Thread /\ pc[u] \in ReadersIn
<1>1. u \in Thread /\ (pc[u] \in ReadersIn \/ pc[u] = "reader rw")
  BY DEF Counted, At, ReadersIn
<1>2. pc[u] = "reader rw" => u = t
  BY <1>1 DEF IInv, MutexInv, Holds, MutexHolders
<1> QED
  BY <1>1, <1>2

(* The count stays exact: it changes with the set of the counted readers.  *)
LEMMA LevelStep ==
  ASSUME IInv, NEW t \in Thread, Call(t) \/ Enter(t) \/ Leave(t)
  PROVE  LevelIsExact'
<1>1. pc \in [Thread -> PC] /\ level = Cardinality(Counted) /\ LocalInv /\ level \in Nat
  BY DEF IInv, TypeOK, LevelIsExact
<1>2. CASE Count(t)
  <2>1. t \notin Counted /\ Counted' = Counted \union {t}
    BY <1>1, <1>2 DEF Count, Goes, Counted, At
  <2>2. level' = level + 1
    BY <1>1, <1>2 DEF Count, Goes, LocalInv
  <2>3. Cardinality(Counted \union {t}) = Cardinality(Counted) + 1
    BY <2>1, CountedFinite, FS_AddElement
  <2> QED
    BY <1>1, <2>1, <2>2, <2>3 DEF LevelIsExact
<1>3. CASE Discount(t)
  <2>1. t \in Counted /\ Counted' = Counted \ {t}
    BY <1>1, <1>3 DEF Discount, Goes, Counted, At
  <2>2. level' = level - 1
    BY <1>1, <1>3 DEF Discount, Goes, LocalInv
  <2>3. Cardinality(Counted \ {t}) = Cardinality(Counted) - 1
    BY <2>1, CountedFinite, FS_RemoveElement
  <2> QED
    BY <1>1, <2>1, <2>2, <2>3 DEF LevelIsExact
<1>4. ASSUME level' = level, NEW to, pc' = [pc EXCEPT ![t] = to],
             t \in Counted <=> to \in {"reader rw", "reader leaves mutex",
                                      "reader leaves fairness", "read", "discount",
                                      "discounting"}
      PROVE  LevelIsExact'
  <2>1. Counted' = Counted
    BY <1>1, <1>4 DEF Counted, At
  <2> QED
    BY <1>1, <1>4, <2>1 DEF LevelIsExact
<1>5. CASE Call(t)
  BY <1>4, <1>5 DEF Call, Goes, Counted, At
<1>6. CASE Load(t, "count", "counting") \/ Load(t, "discount", "discounting")
  BY <1>4, <1>6 DEF Load, Goes, Counted, At
<1>7. CASE \/ ReaderFairness(t) \/ ReaderMutex(t) \/ ReaderRW(t) \/ ReaderLeavesMutex(t)
           \/ ReaderLeavesFairness(t)
  BY <1>4, <1>7 DEF ReaderFairness, ReaderMutex, ReaderRW, ReaderLeavesMutex,
     ReaderLeavesFairness, Goes, Counted, At
<1>8. CASE \/ LeaveReader(t) \/ ReaderLeavesReaders(t) \/ WriterFairness(t) \/ WriterRW(t)
           \/ WriterLeavesFairness(t) \/ LeaveWriter(t)
  BY <1>4, <1>8 DEF LeaveReader, ReaderLeavesReaders, WriterFairness, WriterRW,
     WriterLeavesFairness, LeaveWriter, Goes, Counted, At
<1> QED
  BY <1>2, <1>3, <1>5, <1>6, <1>7, <1>8 DEF Enter, Leave

(* _RWMutex is held by one writer or by the readers together, and the      *)
(* first reader waits for it alone.                                        *)
LEMMA RWStep ==
  ASSUME IInv, NEW t \in Thread, Call(t) \/ Enter(t) \/ Leave(t)
  PROVE  RWInv' /\ FirstInv'
<1>1. pc \in [Thread -> PC] /\ RWInv /\ FirstInv /\ LocalInv /\ rwMutex \in BOOLEAN
  BY DEF IInv, TypeOK
<1>2. \A u, v \in Thread : pc[u] \in MutexHolders /\ pc[v] \in MutexHolders => u = v
  BY DEF IInv, MutexInv, Holds
<1>3. CASE ReaderRW(t)
  <2>1. rwMutex' = TRUE /\ pc' = [pc EXCEPT ![t] = "reader leaves mutex"]
    BY <1>3 DEF ReaderRW, Goes
  <2>2. \A u \in Thread : pc[u] \notin ReadersIn \union WritersIn
    BY <1>1, <1>3 DEF ReaderRW, RWInv
  <2>3. \A u \in Thread \ {t} : pc[u] # "reader rw"
    BY <1>2, <1>3 DEF ReaderRW, Goes, MutexHolders
  <2> QED
    BY <1>1, <2>1, <2>2, <2>3 DEF RWInv, FirstInv, ReadersIn, WritersIn
<1>4. CASE WriterRW(t)
  <2>1. rwMutex' = TRUE /\ pc' = [pc EXCEPT ![t] = "writer leaves fairness"]
    BY <1>4 DEF WriterRW, Goes
  <2>2. \A u \in Thread : pc[u] \notin ReadersIn \union WritersIn
    BY <1>1, <1>4 DEF WriterRW, RWInv
  <2> QED
    BY <1>1, <2>1, <2>2 DEF RWInv, FirstInv, ReadersIn, WritersIn
<1>5. CASE LeaveWriter(t)
  <2>1. rwMutex' = FALSE /\ pc[t] \in WritersIn /\ pc' = [pc EXCEPT ![t] = "out"]
    BY <1>5 DEF LeaveWriter, Goes, WritersIn
  <2>2. \A u \in Thread \ {t} : pc[u] \notin ReadersIn \union WritersIn
    BY <1>1, <2>1 DEF RWInv
  <2> QED
    BY <1>1, <2>1, <2>2 DEF RWInv, FirstInv, ReadersIn, WritersIn
<1>6. CASE Count(t)
  <2>1. pc[t] = "counting" /\ local[t] = level /\ rwMutex' = rwMutex
    BY <1>1, <1>6 DEF Count, Goes, LocalInv
  <2>2. \A u \in Thread \ {t} : pc[u] # "reader rw"
    BY <1>2, <2>1 DEF MutexHolders
  <2>3. CASE level = 0
    <3>1. pc' = [pc EXCEPT ![t] = "reader rw"]
      BY <1>6, <2>1, <2>3 DEF Count, Goes
    <3>2. \A u \in Thread : pc[u] \notin ReadersIn
      BY <2>3, CountMeans DEF Counted, At, ReadersIn
    <3> QED
      BY <1>1, <2>1, <2>2, <3>1, <3>2 DEF RWInv, FirstInv, ReadersIn, WritersIn
  <2>4. CASE level # 0
    <3>1. pc' = [pc EXCEPT ![t] = "reader leaves mutex"]
      BY <1>6, <2>1, <2>4 DEF Count, Goes
    <3>2. PICK u \in Counted : TRUE
      BY <2>4, CountMeans
    <3>3. u \in Thread /\ pc[u] \in ReadersIn
      BY <2>1, OthersAreIn
    <3>4. rwMutex /\ \A v \in Thread : pc[v] \notin WritersIn
      BY <1>1, <3>3 DEF RWInv, ReadersIn, WritersIn
    <3> QED
      BY <1>1, <2>1, <2>2, <3>1, <3>4 DEF RWInv, FirstInv, ReadersIn, WritersIn
  <2> QED
    BY <2>3, <2>4
<1>7. CASE Discount(t)
  <2>1. /\ pc[t] = "discounting"
        /\ local[t] = level
        /\ pc' = [pc EXCEPT ![t] = "leaving"]
        /\ rwMutex' = (rwMutex /\ level # 1)
    BY <1>1, <1>7 DEF Discount, Goes, LocalInv
  <2>2. /\ rwMutex
        /\ \A u \in Thread : pc[u] \notin WritersIn
        /\ \A u \in Thread : pc[u] # "reader rw"
        /\ t \in Counted
    BY <1>1, <2>1 DEF RWInv, FirstInv, ReadersIn, WritersIn, Counted, At
  <2>3. CASE level = 1
    <3>1. \A u \in Thread \ {t} : pc[u] \notin ReadersIn
      BY <2>2, <2>3, CountMeans DEF Counted, At, ReadersIn
    <3> QED
      BY <1>1, <2>1, <2>2, <2>3, <3>1 DEF RWInv, FirstInv, ReadersIn, WritersIn
  <2>4. CASE level # 1
    <3>1. PICK u \in Counted : u # t
      BY <2>2, <2>4, CountMeans
    <3>2. u \in Thread /\ pc[u] \in ReadersIn
      BY <2>1, OthersAreIn
    <3> QED
      BY <1>1, <2>1, <2>2, <2>4, <3>1, <3>2 DEF RWInv, FirstInv, ReadersIn, WritersIn
  <2> QED
    BY <2>3, <2>4
<1>8. ASSUME rwMutex' = rwMutex,
             NEW to \in PC, pc' = [pc EXCEPT ![t] = to],
             pc[t] \in ReadersIn <=> to \in ReadersIn,
             pc[t] \in WritersIn <=> to \in WritersIn,
             to # "reader rw"
      PROVE  RWInv' /\ FirstInv'
  <2>1. \A u \in Thread : /\ pc'[u] \in ReadersIn <=> pc[u] \in ReadersIn
                          /\ pc'[u] \in WritersIn <=> pc[u] \in WritersIn
                          /\ pc'[u] = "reader rw" => pc[u] = "reader rw"
    BY <1>1, <1>8
  <2> QED
    BY <1>1, <1>8, <2>1 DEF RWInv, FirstInv, ReadersIn, WritersIn
<1>9. CASE Call(t)
  BY <1>8, <1>9 DEF Call, Goes, PC, ReadersIn, WritersIn
<1>10. CASE Load(t, "count", "counting") \/ Load(t, "discount", "discounting")
  BY <1>8, <1>10 DEF Load, Goes, PC, ReadersIn, WritersIn
<1>11. CASE ReaderFairness(t) \/ ReaderMutex(t) \/ ReaderLeavesMutex(t)
            \/ ReaderLeavesFairness(t)
  BY <1>8, <1>11 DEF ReaderFairness, ReaderMutex, ReaderLeavesMutex, ReaderLeavesFairness,
     Goes, PC, ReadersIn, WritersIn
<1>12. CASE LeaveReader(t) \/ ReaderLeavesReaders(t) \/ WriterFairness(t)
            \/ WriterLeavesFairness(t)
  BY <1>8, <1>12 DEF LeaveReader, ReaderLeavesReaders, WriterFairness, WriterLeavesFairness,
     Goes, PC, ReadersIn, WritersIn
<1> QED
  BY <1>3, <1>4, <1>5, <1>6, <1>7, <1>9, <1>10, <1>11, <1>12 DEF Enter, Leave

(* Every step preserves the inductive invariant.                           *)
LEMMA NextIInv == IInv /\ [Next]_vars => IInv'
<1>1. ASSUME IInv, NEW t \in Thread, Call(t) \/ Enter(t) \/ Leave(t) PROVE IInv'
  BY <1>1, TypeStep, FairnessStep, MutexStep, LocalStep, LevelStep, RWStep DEF IInv
<1>2. ASSUME IInv, UNCHANGED vars PROVE IInv'
  BY <1>2 DEF vars, IInv, TypeOK, FairnessInv, MutexInv, Holds, RWInv, FirstInv, LocalInv,
     LevelIsExact, Counted, At
<1> QED
  BY <1>1, <1>2 DEF Next

(* The invariant holds of every reachable state.                           *)
LEMMA Invariance == Spec => []IInv
BY InitIInv, NextIInv, PTL DEF Spec

(* A thread that writes is alone in the lock, whatever the number of       *)
(* threads and however enterReader, leaveReader, enterWriter and           *)
(* leaveWriter interleave.                                                 *)
THEOREM MutualExclusion == Spec => []Exclusion
<1>1. IInv => Exclusion
  BY DEF IInv, RWInv, Exclusion, ReadersIn, WritersIn
<1> QED
  BY <1>1, Invariance, PTL

(* Every label, mutex and count keeps its type.                            *)
THEOREM TypeCorrect == Spec => []TypeOK
<1>1. IInv => TypeOK
  BY DEF IInv
<1> QED
  BY <1>1, Invariance, PTL

(* _ReadersLevel counts the readers, though it is loaded and stored in two *)
(* steps.                                                                  *)
THEOREM ExactLevel == Spec => []LevelIsExact
<1>1. IInv => LevelIsExact
  BY DEF IInv
<1> QED
  BY <1>1, Invariance, PTL

(* No reader gets in while a writer waits for _RWMutex: the writer has     *)
(* _Fairness, which a reader keeps until it is in.                         *)
THEOREM WritersAreNotOvertaken == Spec => NoOvertaking
<1>1. IInv /\ [Next]_vars =>
        [\A t, u \in Thread : pc[t] = "writer rw" /\ pc[u] # "read" => pc'[u] # "read"]_vars
  <2>1. SUFFICES ASSUME IInv, Next, NEW t \in Thread, NEW u \in Thread,
                        pc[t] = "writer rw", pc[u] # "read", pc'[u] = "read"
                 PROVE  FALSE
    OBVIOUS
  <2>2. pc \in [Thread -> PC]
    BY <2>1 DEF IInv, TypeOK
  <2>3. PICK v \in Thread : Call(v) \/ Enter(v) \/ Leave(v)
    BY <2>1 DEF Next
  <2>4. ASSUME NEW to, pc' = [pc EXCEPT ![v] = to], to # "read" PROVE FALSE
    BY <2>1, <2>2, <2>4
  <2>5. CASE ReaderLeavesFairness(v)
    <3>1. pc[v] = "reader leaves fairness"
      BY <2>5 DEF ReaderLeavesFairness, Goes
    <3>2. v = t
      BY <2>1, <3>1 DEF IInv, FairnessInv, Holds, FairnessHolders
    <3> QED
      BY <2>1, <3>1, <3>2
  <2>6. CASE Call(v)
    BY <2>4, <2>6 DEF Call, Goes
  <2>7. CASE Load(v, "count", "counting") \/ Load(v, "discount", "discounting")
    BY <2>4, <2>7 DEF Load, Goes
  <2>8. CASE ReaderFairness(v) \/ ReaderMutex(v) \/ ReaderRW(v) \/ ReaderLeavesMutex(v)
             \/ Count(v)
    BY <2>4, <2>8 DEF ReaderFairness, ReaderMutex, ReaderRW, ReaderLeavesMutex, Count, Goes
  <2>9. CASE \/ LeaveReader(v) \/ Discount(v) \/ ReaderLeavesReaders(v) \/ WriterFairness(v)
             \/ WriterRW(v) \/ WriterLeavesFairness(v) \/ LeaveWriter(v)
    BY <2>4, <2>9 DEF LeaveReader, Discount, ReaderLeavesReaders, WriterFairness, WriterRW,
       WriterLeavesFairness, LeaveWriter, Goes
  <2> QED
    BY <2>3, <2>5, <2>6, <2>7, <2>8, <2>9 DEF Enter, Leave
<1> QED
  BY <1>1, Invariance, PTL DEF Spec, NoOvertaking

(* The sets that RWLock knows, by the labels.                              *)
InNow == At(ReadersIn)
WritingNow == At(WritersIn)

(* A thread moves between two labels that RWLock does not tell apart.      *)
LEMMA Stutter ==
  ASSUME NEW t \in Thread, NEW to, pc \in [Thread -> PC], pc' = [pc EXCEPT ![t] = to],
         pc[t] \in ReadersIn <=> to \in ReadersIn,
         pc[t] \in WritersIn <=> to \in WritersIn
  PROVE  InNow' = InNow /\ WritingNow' = WritingNow
BY DEF InNow, WritingNow, At

(* A thread that becomes a reader, or is one no longer.                    *)
LEMMA ReadersChange ==
  ASSUME NEW t \in Thread, NEW to, pc \in [Thread -> PC], pc' = [pc EXCEPT ![t] = to],
         pc[t] \notin WritersIn, to \notin WritersIn
  PROVE  /\ WritingNow' = WritingNow
         /\ to \in ReadersIn => InNow' = InNow \union {t}
         /\ to \notin ReadersIn => InNow' = InNow \ {t}
BY DEF InNow, WritingNow, At

(* Each step of the lock is a step of RWLock, or changes nothing in it.    *)
LEMMA StepSimulation ==
  ASSUME IInv, NEW t \in Thread, Call(t) \/ Enter(t) \/ Leave(t)
  PROVE  \/ InNow' = InNow /\ WritingNow' = WritingNow
         \/ t \notin InNow /\ WritingNow = {} /\ InNow' = InNow \union {t} /\ WritingNow' = WritingNow
         \/ t \in InNow /\ InNow' = InNow \ {t} /\ WritingNow' = WritingNow
         \/ InNow = {} /\ WritingNow = {} /\ WritingNow' = {t} /\ InNow' = InNow
         \/ WritingNow = {t} /\ WritingNow' = {} /\ InNow' = InNow
<1>1. pc \in [Thread -> PC] /\ RWInv /\ LocalInv
  BY DEF IInv, TypeOK
<1>2. ASSUME NEW to, pc' = [pc EXCEPT ![t] = to],
             pc[t] \in ReadersIn <=> to \in ReadersIn,
             pc[t] \in WritersIn <=> to \in WritersIn
      PROVE  InNow' = InNow /\ WritingNow' = WritingNow
  BY <1>1, <1>2, Stutter
<1>3. CASE ReaderRW(t)
  <2>1. pc[t] = "reader rw" /\ pc' = [pc EXCEPT ![t] = "reader leaves mutex"]
    BY <1>3 DEF ReaderRW, Goes
  <2>2. t \notin InNow /\ WritingNow = {}
    BY <1>1, <1>3, <2>1 DEF ReaderRW, RWInv, InNow, WritingNow, At, ReadersIn, WritersIn
  <2>3. InNow' = InNow \union {t} /\ WritingNow' = WritingNow
    BY <1>1, <2>1, ReadersChange DEF ReadersIn, WritersIn
  <2> QED
    BY <2>2, <2>3
<1>4. CASE Count(t)
  <2>1. pc[t] = "counting" /\ local[t] = level
    BY <1>1, <1>4 DEF Count, Goes, LocalInv
  <2>2. CASE level = 0
    BY <1>2, <1>4, <2>1, <2>2 DEF Count, Goes, ReadersIn, WritersIn
  <2>3. CASE level # 0
    <3>1. pc' = [pc EXCEPT ![t] = "reader leaves mutex"]
      BY <1>4, <2>1, <2>3 DEF Count, Goes
    <3>2. PICK u \in Counted : TRUE
      BY <2>3, CountMeans
    <3>3. u \in Thread /\ pc[u] \in ReadersIn
      BY <2>1, OthersAreIn
    <3>4. t \notin InNow /\ WritingNow = {}
      BY <1>1, <2>1, <3>3 DEF RWInv, InNow, WritingNow, At, ReadersIn, WritersIn
    <3>5. InNow' = InNow \union {t} /\ WritingNow' = WritingNow
      BY <1>1, <2>1, <3>1, ReadersChange DEF ReadersIn, WritersIn
    <3> QED
      BY <3>4, <3>5
  <2> QED
    BY <2>2, <2>3
<1>5. CASE Discount(t)
  <2>1. pc[t] = "discounting" /\ pc' = [pc EXCEPT ![t] = "leaving"]
    BY <1>5 DEF Discount, Goes
  <2>2. t \in InNow
    BY <2>1 DEF InNow, At, ReadersIn
  <2>3. pc[t] \notin WritersIn /\ "leaving" \notin ReadersIn \union WritersIn
    BY <2>1 DEF ReadersIn, WritersIn
  <2>4. InNow' = InNow \ {t} /\ WritingNow' = WritingNow
    BY <1>1, <2>1, <2>3, ReadersChange
  <2> QED
    BY <2>2, <2>4
<1>6. CASE WriterRW(t)
  <2>1. pc[t] = "writer rw" /\ pc' = [pc EXCEPT ![t] = "writer leaves fairness"]
    BY <1>6 DEF WriterRW, Goes
  <2>2. \A u \in Thread : pc[u] \notin ReadersIn \union WritersIn
    BY <1>1, <1>6 DEF WriterRW, RWInv
  <2>3. InNow = {} /\ WritingNow = {}
    BY <2>2 DEF InNow, WritingNow, At
  <2>4. InNow' = {} /\ WritingNow' = {t}
    BY <1>1, <2>1, <2>2 DEF InNow, WritingNow, At, ReadersIn, WritersIn
  <2> QED
    BY <2>3, <2>4
<1>7. CASE LeaveWriter(t)
  <2>1. pc[t] = "write" /\ pc' = [pc EXCEPT ![t] = "out"]
    BY <1>7 DEF LeaveWriter, Goes
  <2>2. \A u \in Thread \ {t} : pc[u] \notin ReadersIn \union WritersIn
    BY <1>1, <2>1 DEF RWInv, WritersIn
  <2>3. WritingNow = {t} /\ InNow = {}
    BY <2>1, <2>2 DEF InNow, WritingNow, At, ReadersIn, WritersIn
  <2>4. WritingNow' = {} /\ InNow' = {}
    BY <1>1, <2>1, <2>2 DEF InNow, WritingNow, At, ReadersIn, WritersIn
  <2> QED
    BY <2>3, <2>4
<1>8. CASE Call(t) \/ Load(t, "count", "counting") \/ Load(t, "discount", "discounting")
  BY <1>2, <1>8 DEF Call, Load, Goes, ReadersIn, WritersIn
<1>9. CASE \/ ReaderFairness(t) \/ ReaderMutex(t) \/ ReaderLeavesMutex(t)
           \/ ReaderLeavesFairness(t) \/ LeaveReader(t)
  BY <1>2, <1>9 DEF ReaderFairness, ReaderMutex, ReaderLeavesMutex, ReaderLeavesFairness,
     LeaveReader, Goes, ReadersIn, WritersIn
<1>10. CASE ReaderLeavesReaders(t) \/ WriterFairness(t) \/ WriterLeavesFairness(t)
  BY <1>2, <1>10 DEF ReaderLeavesReaders, WriterFairness, WriterLeavesFairness, Goes,
     ReadersIn, WritersIn
<1> QED
  BY <1>3, <1>4, <1>5, <1>6, <1>7, <1>8, <1>9, <1>10 DEF Enter, Leave

(* The three mutexes and the count implement the reader/writer lock that   *)
(* RWLock specifies.                                                       *)
THEOREM Implementation == Spec => Refinement
<1> DEFINE R == At({"reader leaves mutex", "reader leaves fairness", "read", "discount",
                    "discounting"})
           W == At({"writer leaves fairness", "write"})
<1>1. Init => Abstract!Init
  BY DEF Init, Abstract!Init, At
<1>2. IInv /\ [Next]_vars => [Abstract!Next]_(Abstract!vars)
  <2>1. SUFFICES ASSUME IInv, [Next]_vars PROVE [Abstract!Next]_(Abstract!vars)
    OBVIOUS
  <2>2. R = InNow /\ W = WritingNow /\ R' = InNow' /\ W' = WritingNow'
    BY DEF InNow, WritingNow, ReadersIn, WritersIn, At
  <2>3. CASE UNCHANGED vars
    BY <2>3 DEF vars, Abstract!vars, At
  <2>4. ASSUME NEW t \in Thread, Call(t) \/ Enter(t) \/ Leave(t)
        PROVE  [Abstract!Next]_(Abstract!vars)
    <3>1. \/ UNCHANGED << R, W >>
          \/ Abstract!EnterReader(t) \/ Abstract!LeaveReader(t)
          \/ Abstract!EnterWriter(t) \/ Abstract!LeaveWriter(t)
      <4>1. \/ R' = R /\ W' = W
            \/ t \notin R /\ W = {} /\ R' = R \union {t} /\ W' = W
            \/ t \in R /\ R' = R \ {t} /\ W' = W
            \/ R = {} /\ W = {} /\ W' = {t} /\ R' = R
            \/ W = {t} /\ W' = {} /\ R' = R
        BY <2>1, <2>2, <2>4, StepSimulation
      <4> QED
        BY <4>1 DEF Abstract!EnterReader, Abstract!LeaveReader, Abstract!EnterWriter,
           Abstract!LeaveWriter
    <3> QED
      BY <3>1 DEF Abstract!Next, Abstract!vars
  <2> QED
    BY <2>1, <2>3, <2>4 DEF Next
<1> QED
  BY <1>1, <1>2, Invariance, PTL DEF Spec, Refinement, Abstract!Spec
=============================================================================
