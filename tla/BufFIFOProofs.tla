---------------------------- MODULE BufFIFOProofs ----------------------------
(***************************************************************************)
(* The ring buffer of CBufFIFO keeps its blocks, for every header size,    *)
(* every set of block and resize sizes, and every width of _BufferSize.    *)
(*                                                                         *)
(* IInv is inductive: the pointers alone are not, for pop moves the tail   *)
(* by a length read from the buffer.  So the invariant also says that the  *)
(* blocks in the buffer are chained from the tail to the head.             *)
(*                                                                         *)
(* The chain numbers the blocks from the tail on without a gap, so that    *)
(* the queue Contents counts out of the buffer is the one Fifo specifies.  *)
(***************************************************************************)
EXTENDS BufFIFO, FiniteSetTheorems, SequenceTheorems, WellFoundedInduction, TLAPS

IInv == TypeOK /\ LayoutInv

(* Initially the queue has no buffer and no block.                         *)
LEMMA InitIInv == Init => IInv
<1> SUFFICES ASSUME Init PROVE IInv
    OBVIOUS
<1> USE SizesAssumption DEF Init, NoBlocks, NoRewinder, Wrapped
<1>1. TypeOK
      BY DEF TypeOK
<1>2. LayoutInv
      BY DEF LayoutInv, PointersOK, BlocksInUse, NoOverlap, Chain
<1> QED BY <1>1, <1>2 DEF IInv

(* size() never exceeds the buffer, and wraps as its two last cases say.   *)
LEMMA UsedBounds ==
  ASSUME IInv
  PROVE  /\ Used \in Nat
         /\ Used <= bufferSize
         /\ empty => Used = 0
         /\ ~empty /\ ~Wrapped => Used = head - tail /\ tail < head
         /\ ~empty /\ Wrapped => Used = (rewinder - tail) + head /\ ~(tail < head)
BY DEF IInv, TypeOK, LayoutInv, PointersOK, Used, Wrapped, NoRewinder

(* Where resize puts the block that was at offset r.                       *)
NewOffset(r) ==
  IF Wrapped /\ r < tail THEN r + (rewinder - tail) ELSE r - tail

(* resize copies every block whole, and nothing else.                      *)
LEMMA CopyKeepsBlocks ==
  ASSUME IInv
  PROVE  /\ \A r \in DOMAIN mem :
              /\ NewOffset(r) \in DOMAIN CopiedBlocks
              /\ OldOffset(NewOffset(r)) = r
              /\ NewOffset(r) + mem[r].len <= Used
         /\ \A p \in DOMAIN CopiedBlocks :
              /\ p \in Nat
              /\ OldOffset(p) \in DOMAIN mem
              /\ NewOffset(OldOffset(p)) = p
              /\ CopiedBlocks[p] = mem[OldOffset(p)]
<1> USE DEF IInv, TypeOK, LayoutInv, PointersOK
<1>1. ASSUME NEW r \in DOMAIN mem
      PROVE  /\ NewOffset(r) \in 0 .. Used - 1
             /\ OldOffset(NewOffset(r)) = r
             /\ NewOffset(r) + mem[r].len <= Used
  <2>1. ~empty /\ Extent(r) /\ mem[r].len \in Nat \ {0} /\ r \in Nat
        BY DEF Chain, BlocksInUse, Block
  <2>2. CASE Wrapped
        BY <2>1, <2>2, UsedBounds DEF Extent, NewOffset, OldOffset, Wrapped, NoRewinder
  <2>3. CASE ~Wrapped
        BY <2>1, <2>3, UsedBounds DEF Extent, NewOffset, OldOffset, Wrapped, NoRewinder
  <2> QED BY <2>2, <2>3
<1>2. ASSUME NEW r \in DOMAIN mem
      PROVE  NewOffset(r) \in DOMAIN CopiedBlocks
      BY <1>1 DEF CopiedBlocks
<1>3. ASSUME NEW p \in DOMAIN CopiedBlocks
      PROVE  /\ p \in 0 .. Used - 1
             /\ OldOffset(p) \in DOMAIN mem
             /\ CopiedBlocks[p] = mem[OldOffset(p)]
      BY DEF CopiedBlocks
<1>4. ASSUME NEW p \in DOMAIN CopiedBlocks
      PROVE  p \in Nat /\ NewOffset(OldOffset(p)) = p
  <2>1. ~empty /\ p \in 0 .. Used - 1 /\ Extent(OldOffset(p))
        /\ mem[OldOffset(p)].len \in Nat \ {0}
        BY <1>3 DEF Chain, BlocksInUse, Block
  <2>2. CASE Wrapped
        BY <2>1, <2>2, UsedBounds DEF Extent, NewOffset, OldOffset, Wrapped, NoRewinder
  <2>3. CASE ~Wrapped
        BY <2>1, <2>3, UsedBounds DEF Extent, NewOffset, OldOffset, Wrapped, NoRewinder
  <2> QED BY <2>1, <2>2, <2>3
<1> QED BY <1>1, <1>2, <1>3, <1>4

-----------------------------------------------------------------------------
(* A successful resize moves every block to the start of the new buffer.   *)
LEMMA ReallocateIInv ==
  ASSUME IInv, NEW s \in 0 .. Modulus - 1, Reallocate(s),
         UNCHANGED << pending, pushed, popped >>
  PROVE  IInv'
<1> USE SizesAssumption DEF Reallocate
<1>1. TypeOK'
  <2>1. NewSize(s) \in 0 .. Modulus - 1
        BY DEF NewSize
  <2>2. \A p \in DOMAIN CopiedBlocks : p \in Nat /\ CopiedBlocks[p] \in Block
        BY CopyKeepsBlocks DEF IInv, TypeOK
  <2> QED BY <2>1, <2>2, UsedBounds DEF TypeOK, IInv, NoRewinder
<1>2. PointersOK'
      BY UsedBounds DEF PointersOK, Wrapped, NoRewinder, Refused, NewSize, IInv,
                        TypeOK, LayoutInv
<1>3. BlocksInUse'
  <2> SUFFICES ASSUME NEW p \in DOMAIN CopiedBlocks
               PROVE  0 <= p /\ p + CopiedBlocks[p].len <= Used
      BY DEF BlocksInUse, Extent, Wrapped
  <2> QED BY CopyKeepsBlocks
<1>4. NoOverlap'
  <2> SUFFICES ASSUME NEW p \in DOMAIN CopiedBlocks, NEW q \in DOMAIN CopiedBlocks,
                      p < q
               PROVE  p + CopiedBlocks[p].len <= q
      BY DEF NoOverlap
  <2> DEFINE a == OldOffset(p)
             b == OldOffset(q)
  <2>1. /\ a \in DOMAIN mem /\ b \in DOMAIN mem
        /\ p = NewOffset(a) /\ q = NewOffset(b)
        /\ CopiedBlocks[p] = mem[a]
        BY CopyKeepsBlocks
  <2>2. /\ Extent(a) /\ Extent(b) /\ (a < b => a + mem[a].len <= b)
        /\ a \in Nat /\ b \in Nat /\ mem[a].len \in Nat \ {0} /\ mem[b].len \in Nat \ {0}
        BY <2>1 DEF IInv, LayoutInv, BlocksInUse, NoOverlap, TypeOK, Block
  <2> HIDE DEF a, b
  <2> QED BY <2>1, <2>2 DEF Extent, NewOffset, Wrapped, IInv, TypeOK, LayoutInv,
                            PointersOK, NoRewinder
<1>5. Chain'
  <2>1. CASE empty
        BY <2>1, CopyKeepsBlocks DEF Chain, IInv, LayoutInv
  <2>2. CASE ~empty
    <3>1. NewOffset(FrontPos) = 0 /\ FrontPos \in DOMAIN mem
          BY <2>2, UsedBounds DEF NewOffset, FrontPos, IInv, LayoutInv, Chain, TypeOK,
                                  PointersOK, Wrapped, NoRewinder
    <3>2. 0 \in DOMAIN CopiedBlocks /\ CopiedBlocks[0].id = popped
          BY <2>2, <3>1, CopyKeepsBlocks DEF IInv, LayoutInv, Chain
    <3>3. ASSUME NEW p \in DOMAIN CopiedBlocks
          PROVE  /\ popped <= CopiedBlocks[p].id /\ CopiedBlocks[p].id < pushed
                 /\ \A q \in DOMAIN CopiedBlocks :
                      CopiedBlocks[p].id = CopiedBlocks[q].id => p = q
          BY CopyKeepsBlocks DEF IInv, LayoutInv, Chain
    <3>4. ASSUME NEW p \in DOMAIN CopiedBlocks
          PROVE  IF p + CopiedBlocks[p].len = Used
                   THEN CopiedBlocks[p].id = pushed - 1
                   ELSE LET n == p + CopiedBlocks[p].len
                        IN  n \in DOMAIN CopiedBlocks
                            /\ CopiedBlocks[n].id = CopiedBlocks[p].id + 1
      <4> DEFINE a == OldOffset(p)
      <4>1. /\ a \in DOMAIN mem /\ p = NewOffset(a) /\ CopiedBlocks[p] = mem[a]
            BY CopyKeepsBlocks
      <4>2. /\ Extent(a) /\ a \in Nat /\ mem[a].len \in Nat \ {0}
            /\ IF IsNewest(a) THEN mem[a].id = pushed - 1
                              ELSE /\ Following(a) \in DOMAIN mem
                                   /\ mem[Following(a)].id = mem[a].id + 1
            BY <4>1 DEF IInv, LayoutInv, BlocksInUse, Chain, TypeOK, Block
      <4> HIDE DEF a
      <4>3. IsNewest(a) <=> p + mem[a].len = Used
            BY <2>2, <4>1, <4>2, UsedBounds
               DEF IsNewest, Extent, NewOffset, Wrapped, IInv, TypeOK, LayoutInv,
                   PointersOK, NoRewinder
      <4>4. ~IsNewest(a) => NewOffset(Following(a)) = p + mem[a].len
            BY <2>2, <4>1, <4>2, UsedBounds
               DEF IsNewest, Following, Extent, NewOffset, Wrapped, IInv, TypeOK,
                   LayoutInv, PointersOK, NoRewinder
      <4>5. ~IsNewest(a) => /\ NewOffset(Following(a)) \in DOMAIN CopiedBlocks
                           /\ CopiedBlocks[NewOffset(Following(a))] = mem[Following(a)]
            BY <4>2, CopyKeepsBlocks
      <4> QED BY <4>1, <4>2, <4>3, <4>4, <4>5
    <3> QED BY <2>2, <3>2, <3>3, <3>4
            DEF Chain, IsNewest, Following, FrontPos, Wrapped, NoRewinder
  <2> QED BY <2>1, <2>2
<1> QED BY <1>1, <1>2, <1>3, <1>4, <1>5 DEF IInv, LayoutInv

(* Nothing the invariant is about changes: pending is only in TypeOK.      *)
LEMMA UnchangedIInv ==
  ASSUME IInv, UNCHANGED << pointers, mem, pushed, popped >>,
         pending' \in BlockSizes \union {0}
  PROVE  IInv'
BY DEF IInv, TypeOK, LayoutInv, PointersOK, BlocksInUse, NoOverlap, Chain, pointers,
       Extent, IsNewest, Following, FrontPos, Wrapped

(* resize keeps the invariant, whether it reallocates or refuses.          *)
LEMMA ResizedIInv ==
  ASSUME IInv, NEW s \in 0 .. Modulus - 1, Resized(s),
         UNCHANGED << pending, pushed, popped >>
  PROVE  IInv'
<1>1. CASE Reallocate(s)
      BY <1>1, ReallocateIInv
<1>2. CASE Refused(s) /\ UNCHANGED << pointers, mem >>
      BY <1>2, UnchangedIInv DEF IInv, TypeOK
<1> QED BY <1>1, <1>2 DEF Resized

-----------------------------------------------------------------------------
(* Where canFit lets a push write: n free bytes at h, behind the newest    *)
(* block or at the start of the buffer.                                    *)
LEMMA StoreKeepsBlocks ==
  ASSUME IInv, Store
  PROVE  \E h \in Nat :
           /\ StoreAt(h)
           /\ \A q \in DOMAIN mem : q + mem[q].len <= h \/ h + Need <= q
           /\ h + Need <= bufferSize
           /\ \/ FitsEmpty(Need) /\ h = 0 /\ tail' = 0 /\ UNCHANGED rewinder
              \/ FitsAfter(Need) /\ h = head /\ UNCHANGED << tail, rewinder >>
              \/ /\ FitsBeginning(Need) /\ h = 0
                 /\ rewinder' = head /\ UNCHANGED tail
              \/ FitsBetween(Need) /\ h = head /\ UNCHANGED << tail, rewinder >>
<1> USE DEF IInv, TypeOK, LayoutInv, PointersOK, BlocksInUse, Extent, Chain, Block,
            Wrapped, NoRewinder
<1> Need \in Nat
    BY SizesAssumption DEF Need
<1>1. CASE StoreEmpty
      BY <1>1 DEF StoreEmpty, FitsEmpty
<1>2. CASE StoreAfter
      BY <1>2 DEF StoreAfter, FitsAfter
<1>3. CASE StoreBeginning
      BY <1>3 DEF StoreBeginning, FitsBeginning
<1>4. CASE StoreBetween
      BY <1>4 DEF StoreBetween, FitsBetween
<1> QED BY <1>1, <1>2, <1>3, <1>4 DEF Store

(* The end of push keeps the invariant, wherever canFit found room: the    *)
(* block that is stored overwrites none of those queued.                   *)
LEMMA StoreIInv ==
  ASSUME IInv, Store
  PROVE  IInv'
<1>1. PICK h \in Nat :
        /\ StoreAt(h)
        /\ \A q \in DOMAIN mem : q + mem[q].len <= h \/ h + Need <= q
        /\ h + Need <= bufferSize
        /\ \/ FitsEmpty(Need) /\ h = 0 /\ tail' = 0 /\ UNCHANGED rewinder
           \/ FitsAfter(Need) /\ h = head /\ UNCHANGED << tail, rewinder >>
           \/ FitsBeginning(Need) /\ h = 0 /\ rewinder' = head /\ UNCHANGED tail
           \/ FitsBetween(Need) /\ h = head /\ UNCHANGED << tail, rewinder >>
      BY StoreKeepsBlocks
<1>2. Need \in Nat \ {0}
      BY SizesAssumption DEF Need, IInv, TypeOK
<1>3. /\ DOMAIN mem' = DOMAIN mem \union {h}
      /\ h \notin DOMAIN mem
      /\ mem'[h] = [len |-> Need, id |-> pushed]
      /\ \A p \in DOMAIN mem : mem'[p] = mem[p]
  <2>1. DOMAIN mem' = DOMAIN mem \union {h}
        BY <1>1 DEF StoreAt
  <2>2. h \notin DOMAIN mem
        BY <1>1, <1>2 DEF IInv, TypeOK, Block
  <2> QED BY <1>1, <2>1, <2>2 DEF StoreAt
<1>4. /\ head' = h + Need /\ empty' = FALSE /\ pushed' = pushed + 1
      /\ pending' = 0 /\ bufferSize' = bufferSize /\ popped' = popped
      BY <1>1 DEF StoreAt
<1>5. TypeOK'
  <2>1. \A p \in DOMAIN mem' : p \in Nat /\ mem'[p] \in Block
        BY <1>2, <1>3 DEF TypeOK, IInv, Block
  <2>2. tail' \in Nat /\ rewinder' \in Nat \union {NoRewinder}
        BY <1>1 DEF TypeOK, IInv
  <2>3. head' \in Nat /\ pushed' \in Nat
        BY <1>2, <1>4 DEF TypeOK, IInv
  <2>4. bufferSize' \in 0 .. Modulus - 1 /\ popped' \in Nat
        BY <1>4 DEF TypeOK, IInv
  <2>5. empty' \in BOOLEAN
        BY <1>4
  <2>6. pending' \in BlockSizes \union {0}
        BY <1>4
  <2> QED BY <2>1, <2>2, <2>3, <2>4, <2>5, <2>6 DEF TypeOK
<1>6. \/ /\ empty /\ ~Wrapped /\ h = 0 /\ tail' = 0 /\ ~Wrapped'
      \/ /\ ~empty /\ ~Wrapped /\ h = head /\ tail' = tail /\ ~Wrapped' /\ tail < head
      \/ /\ ~empty /\ ~Wrapped /\ h = 0 /\ tail' = tail /\ rewinder' = head
         /\ Wrapped' /\ tail < head /\ Need <= tail
      \/ /\ ~empty /\ Wrapped /\ h = head /\ tail' = tail /\ rewinder' = rewinder
         /\ Wrapped' /\ head + Need <= tail
      BY <1>1, <1>2
         DEF FitsEmpty, FitsAfter, FitsBeginning, FitsBetween, PointersOK, Wrapped,
             NoRewinder, IInv, TypeOK, LayoutInv
<1>7. PointersOK'
  <2>1. /\ head \in Nat /\ tail \in Nat /\ bufferSize \in Nat
        /\ head <= bufferSize /\ tail <= bufferSize /\ (empty => head = tail)
        BY DEF IInv, TypeOK, LayoutInv, PointersOK
  <2>2. /\ head' = h + Need /\ bufferSize' = bufferSize /\ ~empty'
        /\ h + Need <= bufferSize
        BY <1>1, <1>4
  <2>3. CASE ~Wrapped'
    <3>1. tail' = h \/ (h = head /\ tail' = tail /\ tail < head)
          BY <1>6, <2>3
    <3>2. tail' \in Nat /\ tail' < head' /\ tail' <= bufferSize'
          BY <1>2, <2>1, <2>2, <3>1
    <3> QED BY <2>2, <2>3, <3>2 DEF PointersOK
  <2>4. CASE Wrapped'
    <3>1. tail' = tail /\ head' <= tail /\ 0 < head' /\ rewinder' \in Nat
          BY <1>2, <1>6, <2>1, <2>2, <2>4 DEF Wrapped, IInv, TypeOK
    <3>2. tail <= rewinder' /\ rewinder' <= bufferSize
          BY <1>6, <2>1, <2>4 DEF Wrapped, IInv, LayoutInv, PointersOK
    <3> QED BY <2>1, <2>2, <2>4, <3>1, <3>2 DEF PointersOK
  <2> QED BY <2>3, <2>4
<1>8. BlocksInUse'
  <2>1. ASSUME NEW p \in DOMAIN mem PROVE Extent(p)'
    <3>1. /\ ~empty /\ p \in Nat /\ Extent(p) /\ mem[p].len \in Nat \ {0}
          /\ mem'[p] = mem[p]
          BY <1>3 DEF BlocksInUse, IInv, TypeOK, LayoutInv, Block, Chain
    <3>2. /\ head \in Nat /\ tail \in Nat /\ head' = h + Need /\ tail' = tail
          BY <1>4, <1>6, <3>1 DEF IInv, TypeOK
    <3>3. CASE Wrapped
          BY <1>2, <1>6, <3>1, <3>2, <3>3 DEF Extent, IInv, TypeOK
    <3>4. CASE ~Wrapped /\ ~Wrapped'
          BY <1>2, <1>6, <3>1, <3>2, <3>4 DEF Extent
    <3>5. CASE ~Wrapped /\ Wrapped'
          BY <1>6, <3>1, <3>2, <3>5 DEF Extent
    <3> QED BY <3>3, <3>4, <3>5
  <2>2. Extent(h)'
        BY <1>2, <1>3, <1>4, <1>6
           DEF Extent, PointersOK, Wrapped, NoRewinder, IInv, TypeOK, LayoutInv
  <2> QED BY <1>3, <2>1, <2>2 DEF BlocksInUse
<1>9. NoOverlap'
      BY <1>1, <1>2, <1>3 DEF NoOverlap, IInv, LayoutInv, TypeOK, Block
<1>10. Chain'
  <2>1. FrontPos' \in DOMAIN mem' /\ mem'[FrontPos'].id = popped
    <3>1. CASE empty
          BY <1>2, <1>3, <1>4, <1>6, <3>1
             DEF Chain, FrontPos, IInv, LayoutInv, PointersOK, Wrapped, NoRewinder
    <3>2. CASE ~empty
          BY <1>2, <1>3, <1>4, <1>6, <3>2
             DEF Chain, FrontPos, IInv, LayoutInv, PointersOK, Wrapped, NoRewinder, TypeOK
    <3> QED BY <3>1, <3>2 DEF IInv, TypeOK
  <2>2. ASSUME NEW p \in DOMAIN mem'
        PROVE  /\ popped <= mem'[p].id /\ mem'[p].id < pushed + 1
               /\ \A q \in DOMAIN mem' : mem'[p].id = mem'[q].id => p = q
        <3>1. popped <= pushed
              BY DEF IInv, LayoutInv, Chain, TypeOK, Block
        <3>2. \A q \in DOMAIN mem : popped <= mem[q].id /\ mem[q].id < pushed
              BY DEF IInv, LayoutInv, Chain
        <3> QED BY <1>3, <3>1, <3>2 DEF IInv, LayoutInv, Chain, TypeOK, Block
  <2>3. IsNewest(h)'
        BY <1>2, <1>3, <1>4, <1>6
           DEF IsNewest, PointersOK, Wrapped, NoRewinder, IInv, TypeOK, LayoutInv
  <2>4. ASSUME NEW p \in DOMAIN mem
        PROVE  /\ ~IsNewest(p)'
               /\ Following(p)' = IF IsNewest(p) THEN h ELSE Following(p)
    <3>1. /\ ~empty /\ p \in Nat /\ Extent(p) /\ mem[p].len \in Nat \ {0}
          /\ mem'[p] = mem[p]
          BY <1>3 DEF BlocksInUse, IInv, TypeOK, LayoutInv, Block, Chain
    <3>2. CASE Wrapped
          BY <1>2, <1>4, <1>6, <3>1, <3>2
             DEF IsNewest, Following, Extent, PointersOK, Wrapped, NoRewinder, IInv,
                 TypeOK, LayoutInv
    <3>3. CASE ~Wrapped /\ ~Wrapped'
          BY <1>2, <1>4, <1>6, <3>1, <3>3
             DEF IsNewest, Following, Extent, IInv, TypeOK
    <3>4. CASE ~Wrapped /\ Wrapped'
          BY <1>2, <1>4, <1>6, <3>1, <3>4
             DEF IsNewest, Following, Extent, IInv, TypeOK
    <3> QED BY <3>2, <3>3, <3>4
  <2>5. ASSUME NEW p \in DOMAIN mem
        PROVE  /\ Following(p)' \in DOMAIN mem'
               /\ mem'[Following(p)'].id = mem'[p].id + 1
        BY <1>3, <2>4 DEF IInv, LayoutInv, Chain, TypeOK
  <2> QED BY <1>3, <1>4, <2>1, <2>2, <2>3, <2>4, <2>5 DEF Chain, IInv, TypeOK
<1> QED BY <1>5, <1>7, <1>8, <1>9, <1>10 DEF IInv, LayoutInv

-----------------------------------------------------------------------------
(* pop takes the oldest block away and leaves the tail at the next one, or *)
(* at the rewinder when the next one has wrapped.                          *)
LEMMA PopIInv ==
  ASSUME IInv, Pop
  PROVE  IInv'
<1> DEFINE f == FrontPos
<1>1. /\ ~empty /\ f \in DOMAIN mem /\ f \in Nat
      /\ mem[f].len \in Nat \ {0} /\ mem[f].id = popped
      /\ Extent(f)
      BY DEF Pop, IInv, TypeOK, LayoutInv, Chain, BlocksInUse, Block
<1>2. /\ tail' = f + mem[f].len
      /\ rewinder' = IF f = tail THEN rewinder ELSE NoRewinder
      /\ empty' \in BOOLEAN /\ (empty' <=> tail' = head)
      /\ popped' = popped + 1
      /\ bufferSize' = bufferSize /\ head' = head /\ pending' = pending /\ pushed' = pushed
      /\ DOMAIN mem' = DOMAIN mem \ {f}
      /\ \A p \in DOMAIN mem' : mem'[p] = mem[p]
      BY DEF Pop
<1>3. \/ f = tail /\ ~Wrapped /\ ~Wrapped'
      \/ f = tail /\ Wrapped /\ Wrapped' /\ tail < rewinder
      \/ f = 0 /\ Wrapped /\ ~Wrapped' /\ tail = rewinder
      BY <1>1, <1>2 DEF FrontPos, Wrapped, NoRewinder, IInv, TypeOK, LayoutInv, PointersOK
<1> HIDE DEF f
<1>4. ASSUME NEW p \in DOMAIN mem'
      PROVE  /\ p \in DOMAIN mem /\ p # f /\ p \in Nat /\ mem'[p] = mem[p]
             /\ mem[p].len \in Nat \ {0} /\ mem[p].id \in Nat /\ Extent(p)
             /\ (f < p => f + mem[f].len <= p)
             /\ (p < f => p + mem[p].len <= f)
      BY <1>1, <1>2
         DEF IInv, TypeOK, LayoutInv, BlocksInUse, NoOverlap, Block
<1>5. TypeOK'
  <2>1. \A p \in DOMAIN mem' : p \in Nat /\ mem'[p] \in Block
        BY <1>2 DEF IInv, TypeOK
  <2>2. tail' \in Nat /\ rewinder' \in Nat \union {NoRewinder}
        BY <1>1, <1>2 DEF IInv, TypeOK
  <2>3. empty' \in BOOLEAN
        BY <1>2
  <2> QED BY <1>2, <2>1, <2>2, <2>3 DEF IInv, TypeOK
<1>6. PointersOK'
  <2>1. f = tail => tail < tail' /\ tail' <= IF Wrapped THEN rewinder ELSE head
        BY <1>1, <1>2, <1>3
           DEF Extent, PointersOK, Wrapped, IInv, TypeOK, LayoutInv
  <2>2. f # tail => tail' <= head
        BY <1>1, <1>2, <1>3
           DEF Extent, PointersOK, Wrapped, IInv, TypeOK, LayoutInv
  <2>3. CASE Wrapped'
    <3>1. f = tail /\ Wrapped /\ rewinder' = rewinder
          BY <1>2, <1>3, <2>3 DEF Wrapped
    <3>2. 0 < head /\ head < tail' /\ tail' <= rewinder /\ rewinder <= bufferSize
          BY <1>1, <1>2, <2>1, <3>1 DEF PointersOK, IInv, TypeOK, LayoutInv
    <3>3. bufferSize \in Nat /\ head \in Nat /\ rewinder \in Nat /\ tail' \in Nat
          BY <1>1, <1>2, <2>3, <3>1 DEF Wrapped, IInv, TypeOK
    <3>4. ~empty'
          BY <1>2, <3>2, <3>3
    <3> QED BY <1>2, <2>3, <3>1, <3>2, <3>3, <3>4 DEF PointersOK
  <2>4. CASE ~Wrapped'
        BY <1>2, <1>3, <2>1, <2>2, <2>4
           DEF PointersOK, Wrapped, NoRewinder, IInv, TypeOK, LayoutInv
  <2> QED BY <2>3, <2>4
<1>7. BlocksInUse'
  <2> SUFFICES ASSUME NEW p \in DOMAIN mem' PROVE Extent(p)'
      BY DEF BlocksInUse
  <2> QED BY <1>1, <1>2, <1>3, <1>4
          DEF Extent, PointersOK, Wrapped, NoRewinder, IInv, TypeOK, LayoutInv
<1>8. NoOverlap'
      BY <1>2 DEF NoOverlap, IInv, LayoutInv
<1>9. Chain'
  <2>1. popped < pushed
        BY <1>1 DEF IInv, LayoutInv, Chain
  <2>2. ASSUME NEW p \in DOMAIN mem'
        PROVE  mem[p].id # popped /\ popped + 1 <= mem[p].id /\ mem[p].id < pushed
        BY <1>1, <1>4 DEF IInv, TypeOK, LayoutInv, Chain
  <2>3. ASSUME NEW p \in DOMAIN mem'
        PROVE  (IsNewest(p)' <=> IsNewest(p)) /\ Following(p)' = Following(p)
        BY <1>1, <1>2, <1>3, <1>4
           DEF IsNewest, Following, Extent, PointersOK, Wrapped, NoRewinder, IInv,
               TypeOK, LayoutInv
  <2>4. ASSUME NEW p \in DOMAIN mem', ~IsNewest(p)
        PROVE  /\ Following(p) \in DOMAIN mem'
               /\ mem'[Following(p)].id = mem[p].id + 1
    <3>1. Following(p) \in DOMAIN mem /\ mem[Following(p)].id = mem[p].id + 1
          BY <1>4, <2>4 DEF IInv, LayoutInv, Chain
    <3>2. Following(p) # f
          BY <1>1, <1>4, <2>2, <3>1 DEF IInv, TypeOK
    <3> QED BY <1>2, <3>1, <3>2
  <2>5. ASSUME IsNewest(f) PROVE empty' /\ popped + 1 = pushed
    <3>1. mem[f].id = pushed - 1
          BY <1>1, <2>5 DEF IInv, LayoutInv, Chain
    <3>2. tail' = head
          BY <1>1, <1>2, <2>5 DEF IsNewest
    <3> QED BY <1>1, <1>2, <3>1, <3>2 DEF IInv, TypeOK
  <2>6. ASSUME ~IsNewest(f)
        PROVE  /\ ~empty' /\ FrontPos' \in DOMAIN mem'
               /\ mem'[FrontPos'].id = popped + 1
    <3>1. /\ Following(f) \in DOMAIN mem /\ mem[Following(f)].id = popped + 1
          BY <1>1, <2>6 DEF IInv, LayoutInv, Chain
    <3>2. Following(f) # f
          BY <1>1, <3>1 DEF IInv, TypeOK
    <3>3. FrontPos' = Following(f)
          BY <1>1, <1>2, <1>3, <2>6
             DEF FrontPos, Following, IsNewest, Extent, PointersOK, Wrapped, NoRewinder,
                 IInv, TypeOK, LayoutInv
    <3>4. tail' # head
          BY <1>1, <1>2, <1>3, <2>6
             DEF IsNewest, Extent, PointersOK, Wrapped, IInv, TypeOK, LayoutInv
    <3> QED BY <1>2, <3>1, <3>2, <3>3, <3>4
  <2>7. empty' => DOMAIN mem' = {}
    <3> SUFFICES ASSUME empty', NEW p \in DOMAIN mem' PROVE FALSE
        OBVIOUS
    <3> QED BY <1>2, <1>4, <1>6, <1>7 DEF Extent, PointersOK, BlocksInUse, IInv, TypeOK
  <2>8. /\ empty' => DOMAIN mem' = {} /\ popped' = pushed'
        /\ ~empty' => FrontPos' \in DOMAIN mem' /\ mem'[FrontPos'].id = popped'
        BY <1>2, <2>5, <2>6, <2>7
  <2>9. ASSUME NEW p \in DOMAIN mem'
        PROVE  /\ popped' <= mem'[p].id /\ mem'[p].id < pushed'
               /\ \A q \in DOMAIN mem' : mem'[p].id = mem'[q].id => p = q
               /\ IF IsNewest(p)'
                    THEN mem'[p].id = pushed' - 1
                    ELSE /\ Following(p)' \in DOMAIN mem'
                         /\ mem'[Following(p)'].id = mem'[p].id + 1
    <3>1. IsNewest(p) => mem[p].id = pushed - 1
          BY <1>4 DEF IInv, LayoutInv, Chain
    <3>2. \A q \in DOMAIN mem' : mem[p].id = mem[q].id => p = q
          BY <1>2 DEF IInv, LayoutInv, Chain
    <3> QED BY <1>2, <1>4, <2>2, <2>3, <2>4, <3>1, <3>2
  <2> QED BY <2>8, <2>9 DEF Chain
<1> QED BY <1>5, <1>6, <1>7, <1>8, <1>9 DEF IInv, LayoutInv

(* clear keeps the invariant: no block and no pointer is left.             *)
LEMMA ClearIInv ==
  ASSUME IInv, Clear
  PROVE  IInv'
BY DEF Clear, NoBlocks, NoRewinder, Wrapped, IInv, TypeOK, LayoutInv, PointersOK,
       BlocksInUse, NoOverlap, Chain

-----------------------------------------------------------------------------
(* Every step keeps the invariant.                                         *)
LEMMA NextIInv == IInv /\ [Next]_vars => IInv'
<1> SUFFICES ASSUME IInv, [Next]_vars PROVE IInv'
    OBVIOUS
<1> USE DEF pointers
<1>1. ASSUME NEW s \in BlockSizes, NEW limited \in BOOLEAN, BeginPush(s, limited)
      PROVE  IInv'
      BY <1>1, UnchangedIInv DEF BeginPush
<1>2. CASE Grow
  <2>1. (bufferSize * 2) % Modulus \in 0 .. Modulus - 1
        BY SizesAssumption DEF IInv, TypeOK
  <2> QED BY <1>2, <2>1, ResizedIInv DEF Grow
<1>3. CASE Store
      BY <1>3, StoreIInv
<1>4. CASE Pop
      BY <1>4, PopIInv
<1>5. CASE Clear
      BY <1>5, ClearIInv
<1>6. ASSUME NEW s \in ResizeSizes, Resize(s)
      PROVE  IInv'
      BY <1>6, SizesAssumption, ResizedIInv DEF Resize
<1>7. CASE UNCHANGED vars
      BY <1>7, UnchangedIInv DEF vars, IInv, TypeOK
<1> QED BY <1>1, <1>2, <1>3, <1>4, <1>5, <1>6, <1>7 DEF Next

(* In every reachable state of the queue the variables have their types    *)
(* and the layout invariant holds: push, pop and resize never lose,        *)
(* overwrite, split or reorder a queued block, and front and pop read the  *)
(* oldest one.                                                             *)
THEOREM Layout == Spec => [](TypeOK /\ LayoutInv)
<1>1. IInv => TypeOK /\ LayoutInv
      BY DEF IInv
<1> QED BY <1>1, InitIInv, NextIInv, PTL DEF Spec

(* Every variable keeps the type of the member it models.                  *)
THEOREM TypeCorrect == Spec => []TypeOK
<1>1. IInv => TypeOK
      BY DEF IInv
<1> QED BY <1>1, InitIInv, NextIInv, PTL DEF Spec

-----------------------------------------------------------------------------
(* A nonempty set of natural numbers has a least element.                  *)
LEMMA LeastExists ==
  ASSUME NEW S \in SUBSET Nat, S # {}
  PROVE  \E m \in S : \A k \in S : m <= k
<1> DEFINE R == {ss \in Nat \X Nat : ss[1] < ss[2]}
<1>1. IsWellFoundedOn(R, Nat)
      BY NatLessThanWellFounded DEF OpToRel
<1>2. \E m \in S : \A k \in S : << k, m >> \notin R
      BY <1>1, WFMin
<1>3. \A m, k \in S : << k, m >> \notin R => m <= k
      OBVIOUS
<1> QED BY <1>2, <1>3

(* What the layout says of one block.                                      *)
LEMMA BlockFacts ==
  ASSUME IInv, NEW p \in DOMAIN mem
  PROVE  /\ ~empty /\ p \in Nat /\ Extent(p)
         /\ mem[p] \in Block /\ mem[p].len \in Nat \ {0} /\ mem[p].id \in Nat
         /\ popped <= mem[p].id /\ mem[p].id < pushed
         /\ \A q \in DOMAIN mem : mem[p].id = mem[q].id => p = q
BY DEF IInv, TypeOK, LayoutInv, BlocksInUse, Chain, Block

(* The blocks that were pushed and not popped are all there.               *)
LEMMA NumbersAreDense ==
  ASSUME IInv
  PROVE  \A k \in popped .. pushed - 1 : \E p \in DOMAIN mem : mem[p].id = k
<1> DEFINE Missing == {k \in popped .. pushed - 1 : \A p \in DOMAIN mem : mem[p].id # k}
<1> SUFFICES ASSUME Missing # {} PROVE FALSE
    OBVIOUS
<1>1. popped \in Nat /\ pushed \in Nat
      BY DEF IInv, TypeOK
<1>2. PICK m \in Missing : \A k \in Missing : m <= k
  <2>1. Missing \in SUBSET Nat
        BY <1>1
  <2> QED BY <2>1, LeastExists
<1>3. m \in popped .. pushed - 1 /\ ~empty
  <2>1. m \in popped .. pushed - 1
        OBVIOUS
  <2> QED BY <1>1, <2>1 DEF IInv, LayoutInv, Chain
<1>4. m # popped
      BY <1>2, <1>3 DEF IInv, LayoutInv, Chain
<1>5. PICK p \in DOMAIN mem : mem[p].id = m - 1
      BY <1>1, <1>2, <1>3, <1>4
<1>6. ~IsNewest(p)
  <2>1. mem[p].id # pushed - 1
        BY <1>1, <1>3, <1>5
  <2> QED BY <2>1 DEF IInv, LayoutInv, Chain
<1>7. Following(p) \in DOMAIN mem /\ mem[Following(p)].id = (m - 1) + 1
      BY <1>5, <1>6 DEF IInv, LayoutInv, Chain
<1>8. mem[Following(p)].id = m
      BY <1>1, <1>3, <1>7
<1> QED BY <1>7, <1>8

(* The order of the blocks from the tail on is that of their pushes.       *)
LEMMA OrderIsAge ==
  ASSUME IInv
  PROVE  \A p, q \in DOMAIN mem : Precedes(q, p) <=> mem[q].id < mem[p].id
<1>1. popped \in Nat /\ pushed \in Nat /\ tail \in Nat /\ head \in Nat
      BY DEF IInv, TypeOK
<1>2. ASSUME NEW p \in DOMAIN mem, NEW q \in DOMAIN mem, mem[p].id = mem[q].id + 1
      PROVE  Precedes(q, p)
  <2>1. ~IsNewest(q) /\ Following(q) \in DOMAIN mem /\ mem[Following(q)].id = mem[q].id + 1
        BY <1>1, <1>2, BlockFacts DEF IInv, LayoutInv, Chain
  <2>2. p = Following(q)
        BY <1>2, <2>1, BlockFacts
  <2>3. q \in Nat /\ Extent(q) /\ mem[q].len \in Nat \ {0} /\ ~empty
        BY BlockFacts
  <2> QED BY <2>1, <2>2, <2>3
          DEF Precedes, Following, IsNewest, Extent, Wrapped, NoRewinder, IInv, TypeOK,
              LayoutInv, PointersOK
<1>3. ASSUME NEW p \in DOMAIN mem, NEW q \in DOMAIN mem, NEW r \in DOMAIN mem,
             Precedes(p, q), Precedes(q, r)
      PROVE  Precedes(p, r)
  <2>1. p \in Nat /\ q \in Nat /\ r \in Nat
        BY BlockFacts
  <2> QED BY <1>1, <1>3, <2>1 DEF Precedes
<1>4. ASSUME NEW p \in DOMAIN mem, NEW q \in DOMAIN mem, Precedes(p, q), Precedes(q, p)
      PROVE  FALSE
  <2>1. p \in Nat /\ q \in Nat
        BY BlockFacts
  <2> QED BY <1>1, <1>4, <2>1 DEF Precedes
<1> DEFINE Wrong == {k \in Nat : \E p, q \in DOMAIN mem :
                       mem[p].id = k /\ mem[q].id < k /\ ~Precedes(q, p)}
<1>5. Wrong = {}
  <2> SUFFICES ASSUME Wrong # {} PROVE FALSE
      OBVIOUS
  <2>1. PICK m \in Wrong : \A k \in Wrong : m <= k
        BY LeastExists
  <2>2. PICK p \in DOMAIN mem, q \in DOMAIN mem :
          mem[p].id = m /\ mem[q].id < m /\ ~Precedes(q, p)
        OBVIOUS
  <2>3. m \in Nat /\ popped <= mem[q].id /\ mem[q].id \in Nat /\ m < pushed
        BY <2>2, BlockFacts
  <2>4. PICK r \in DOMAIN mem : mem[r].id = m - 1
        BY <1>1, <2>2, <2>3, NumbersAreDense
  <2>5. Precedes(r, p)
        BY <1>2, <2>2, <2>3, <2>4
  <2>6. CASE mem[q].id = m - 1
        BY <2>2, <2>4, <2>5, <2>6, BlockFacts
  <2>7. CASE mem[q].id < m - 1
    <3>1. m - 1 \in Nat /\ m - 1 \notin Wrong
          BY <2>1, <2>3, <2>7
    <3>2. Precedes(q, r)
          BY <2>4, <2>7, <3>1
    <3> QED BY <1>3, <2>2, <2>5, <3>2
  <2> QED BY <2>2, <2>3, <2>6, <2>7
<1>6. ASSUME NEW p \in DOMAIN mem, NEW q \in DOMAIN mem
      PROVE  Precedes(q, p) <=> mem[q].id < mem[p].id
  <2>1. p \in Nat /\ mem[p].id \in Nat /\ mem[q].id \in Nat /\ (mem[p].id = mem[q].id => p = q)
        BY BlockFacts
  <2>2. mem[q].id < mem[p].id => Precedes(q, p)
        BY <1>5, <2>1
  <2>3. mem[p].id < mem[q].id => Precedes(p, q)
        BY <1>5, <2>1
  <2>4. ~Precedes(p, p)
        BY <2>1 DEF Precedes
  <2> QED BY <1>4, <2>1, <2>2, <2>3, <2>4
<1> QED BY <1>6

(* So many blocks of the queue are older than number k.                    *)
LEMMA OlderBlocks ==
  ASSUME IInv, NEW k \in popped .. pushed
  PROVE  Cardinality({q \in DOMAIN mem : mem[q].id < k}) = k - popped
<1> DEFINE n == k - popped
           S == {q \in DOMAIN mem : mem[q].id < k}
           at(i) == CHOOSE q \in DOMAIN mem : mem[q].id = popped + i - 1
           f == [i \in 1 .. n |-> at(i)]
<1>1. popped \in Nat /\ pushed \in Nat /\ k \in Int /\ n \in Nat
      BY DEF IInv, TypeOK
<1>2. ASSUME NEW i \in 1 .. n
      PROVE  at(i) \in DOMAIN mem /\ mem[at(i)].id = popped + i - 1 /\ at(i) \in S
  <2>1. popped + i - 1 \in popped .. pushed - 1 /\ popped + i - 1 < k
        BY <1>1
  <2>2. \E q \in DOMAIN mem : mem[q].id = popped + i - 1
        BY <2>1, NumbersAreDense
  <2> QED BY <2>1, <2>2
<1>3. ASSUME NEW q \in S
      PROVE  \E i \in 1 .. n : at(i) = q
  <2>1. q \in DOMAIN mem /\ mem[q].id < k
        OBVIOUS
  <2>2. mem[q].id \in Nat /\ popped <= mem[q].id
        BY <2>1, BlockFacts
  <2> DEFINE j == mem[q].id - popped + 1
  <2>3. j \in 1 .. n /\ popped + j - 1 = mem[q].id
        BY <1>1, <2>1, <2>2
  <2> HIDE DEF j, at, S
  <2>4. at(j) \in DOMAIN mem /\ mem[at(j)].id = mem[q].id
        BY <1>2, <2>3
  <2> QED BY <2>1, <2>3, <2>4, BlockFacts
<1> HIDE DEF n, at, S
<1>4. f \in Bijection(1 .. n, S)
  <2>1. f \in [1 .. n -> S]
        BY <1>2
  <2>2. ASSUME NEW i \in 1 .. n, NEW j \in 1 .. n, f[i] = f[j]
        PROVE  i = j
    <3>1. at(i) = at(j)
          BY <2>2
    <3> QED BY <1>1, <1>2, <3>1
  <2> QED BY <1>3, <2>1, <2>2 DEF Bijection, Injection, Surjection, IsInjective
<1>5. ExistsBijection(1 .. n, S)
      BY <1>4 DEF ExistsBijection
<1>6. Cardinality(S) = n
      BY <1>1, <1>5, FS_CountingElements
<1> QED BY <1>6 DEF S, n

(* The queue as its callers see it: the i-th block is the i-th one of      *)
(* those pushed and not popped.                                            *)
ContentsOK ==
  /\ Contents \in Seq(Block)
  /\ Len(Contents) = pushed - popped
  /\ \A i \in 1 .. pushed - popped :
       \E p \in DOMAIN mem : mem[p].id = popped + i - 1 /\ Contents[i] = mem[p]

(* The layout makes it so.                                                 *)
LEMMA ContentsInOrder == IInv => ContentsOK
<1> SUFFICES ASSUME IInv PROVE ContentsOK
    OBVIOUS
<1> DEFINE n == pushed - popped
<1>1. popped \in Nat /\ pushed \in Nat /\ n \in Nat
  <2>1. popped \in Nat /\ pushed \in Nat
        BY DEF IInv, TypeOK
  <2>2. CASE empty
        BY <2>1, <2>2 DEF IInv, LayoutInv, Chain
  <2>3. CASE ~empty
        BY <2>1, <2>3, BlockFacts DEF IInv, LayoutInv, Chain
  <2> QED BY <2>2, <2>3
<1>2. Cardinality(DOMAIN mem) = n
  <2>1. DOMAIN mem = {q \in DOMAIN mem : mem[q].id < pushed}
        BY BlockFacts
  <2> QED BY <1>1, <2>1, OlderBlocks
<1>3. ASSUME NEW p \in DOMAIN mem
      PROVE  Rank(p) = mem[p].id - popped + 1
  <2>1. mem[p].id \in popped .. pushed
        BY <1>1, BlockFacts
  <2>2. {q \in DOMAIN mem : Precedes(q, p)} = {q \in DOMAIN mem : mem[q].id < mem[p].id}
        BY OrderIsAge
  <2>3. Cardinality({q \in DOMAIN mem : mem[q].id < mem[p].id}) = mem[p].id - popped
        BY <2>1, OlderBlocks
  <2> QED BY <2>2, <2>3 DEF Rank
<1> HIDE DEF n
<1>4. Contents = [i \in 1 .. n |-> mem[CHOOSE p \in DOMAIN mem : Rank(p) = i]]
      BY <1>2 DEF Contents
<1>5. ASSUME NEW i \in 1 .. n
      PROVE  \E p \in DOMAIN mem : mem[p].id = popped + i - 1 /\ Contents[i] = mem[p]
  <2>1. popped + i - 1 \in popped .. pushed - 1
        BY <1>1 DEF n
  <2>2. PICK p \in DOMAIN mem : mem[p].id = popped + i - 1
        BY <2>1, NumbersAreDense
  <2>3. Rank(p) = i
        BY <1>1, <1>3, <2>2
  <2>4. \A q \in DOMAIN mem : Rank(q) = i => mem[q].id = popped + i - 1
        BY <1>1, <1>3, BlockFacts
  <2> DEFINE c == CHOOSE q \in DOMAIN mem : Rank(q) = i
  <2>5. c \in DOMAIN mem /\ Rank(c) = i
        BY <2>3
  <2>6. Contents[i] = mem[c]
        BY <1>4
  <2> HIDE DEF c
  <2> QED BY <2>4, <2>5, <2>6
<1>6. \A i \in 1 .. n : Contents[i] \in Block
      BY <1>5, BlockFacts
<1>7. Contents \in [1 .. n -> Block]
      BY <1>4, <1>6
<1>8. Contents \in Seq(Block) /\ Len(Contents) = n
      BY <1>1, <1>7
<1> QED BY <1>5, <1>8 DEF ContentsOK, n

-----------------------------------------------------------------------------
(* The blocks below the next number are blocks that were there before.     *)
NothingOlder ==
  \A q \in DOMAIN mem' : mem'[q].id < pushed => \E p \in DOMAIN mem : mem[p] = mem'[q]

(* A step that neither changes a block nor adds an older one leaves each   *)
(* block of the queue the one it was, popped ones apart.                   *)
LEMMA SameBlocks ==
  ASSUME IInv, ContentsOK, ContentsOK', NothingOlder,
         NEW first \in Nat, NEW next \in Nat,
         popped' = first, pushed' = next, popped <= first
  PROVE  \A i \in 1 .. next - first :
           first + i - 1 < pushed => Contents'[i] = Contents[i + (first - popped)]
<1> SUFFICES ASSUME NEW i \in 1 .. next - first, first + i - 1 < pushed
             PROVE  Contents'[i] = Contents[i + (first - popped)]
    OBVIOUS
<1> DEFINE j == i + (first - popped)
<1>1. popped \in Nat /\ pushed \in Nat
      BY DEF IInv, TypeOK
<1>2. j \in 1 .. pushed - popped /\ popped + j - 1 = first + i - 1
      BY <1>1
<1> HIDE DEF j
<1>3. PICK q \in DOMAIN mem' : mem'[q].id = first + i - 1 /\ Contents'[i] = mem'[q]
      BY DEF ContentsOK
<1>4. PICK p \in DOMAIN mem : mem[p] = mem'[q]
      BY <1>3 DEF NothingOlder
<1>5. PICK r \in DOMAIN mem : mem[r].id = popped + j - 1 /\ Contents[j] = mem[r]
      BY <1>2 DEF ContentsOK
<1>6. p = r
  <2>1. mem[p].id = mem[r].id
        BY <1>2, <1>3, <1>4, <1>5
  <2> QED BY <2>1, BlockFacts
<1> QED BY <1>3, <1>4, <1>5, <1>6 DEF j

(* Resizing is invisible.                                                  *)
LEMMA ResizedContents ==
  ASSUME IInv, ContentsOK, ContentsOK', NEW s \in 0 .. Modulus - 1, Resized(s),
         UNCHANGED << pushed, popped >>
  PROVE  UNCHANGED Contents
<1>1. NothingOlder
  <2> USE DEF NothingOlder
  <2>1. CASE Reallocate(s)
    <3>1. mem' = CopiedBlocks
          BY <2>1 DEF Reallocate
    <3> QED BY <3>1, CopyKeepsBlocks
  <2>2. CASE UNCHANGED mem
        BY <2>2
  <2> QED BY <2>1, <2>2 DEF Resized
<1>2. popped \in Nat /\ pushed \in Nat /\ popped' = popped /\ pushed' = pushed
      BY DEF IInv, TypeOK
<1>3. \A i \in 1 .. pushed - popped : popped + i - 1 < pushed
      BY <1>2
<1>4. \A i \in 1 .. pushed - popped : Contents'[i] = Contents[i + (popped - popped)]
      BY <1>1, <1>2, <1>3, SameBlocks
<1>5. \A i \in 1 .. pushed - popped : Contents'[i] = Contents[i]
      BY <1>2, <1>4
<1>6. /\ Contents \in Seq(Block) /\ Contents' \in Seq(Block)
      /\ Len(Contents) = pushed - popped /\ Len(Contents') = pushed - popped
      BY <1>2 DEF ContentsOK
<1> QED BY <1>5, <1>6, SeqEqual

(* A push that has begun stores a block whose number is within the bound   *)
(* of the model.                                                           *)
PushBounded == pending # 0 => pushed < MaxPushed

(* The end of push appends the block.                                      *)
LEMMA StoreAppends ==
  ASSUME IInv, PushBounded, ContentsOK, ContentsOK', Store
  PROVE  \E b \in [len : {s + HeaderSize : s \in BlockSizes}, id : 0 .. MaxPushed] :
           Contents' = Append(Contents, b)
<1> DEFINE b == [len |-> Need, id |-> pushed]
           n == pushed - popped
<1>1. PICK h \in Nat :
        /\ StoreAt(h)
        /\ \A q \in DOMAIN mem : q + mem[q].len <= h \/ h + Need <= q
      BY StoreKeepsBlocks
<1>2. /\ popped \in Nat /\ pushed \in Nat /\ MaxPushed \in Nat
      /\ pending \in BlockSizes /\ pushed < MaxPushed
      BY SizesAssumption DEF IInv, TypeOK, PushBounded, Store
<1>3. b \in [len : {s + HeaderSize : s \in BlockSizes}, id : 0 .. MaxPushed] /\ b \in Block
  <2>1. Need \in Nat \ {0} /\ Need \in {s + HeaderSize : s \in BlockSizes}
        BY <1>2, SizesAssumption DEF Need
  <2>2. pushed \in 0 .. MaxPushed
        BY <1>2
  <2> QED BY <1>2, <2>1, <2>2 DEF Block
<1>4. /\ pushed' = pushed + 1 /\ popped' = popped
      /\ mem'[h] = b
      /\ \A q \in DOMAIN mem' : q # h => q \in DOMAIN mem /\ mem'[q] = mem[q]
      BY <1>1 DEF StoreAt, Store, StoreEmpty, StoreAfter, StoreBeginning, StoreBetween
<1> HIDE DEF b
<1>5. NothingOlder
  <2>1. b.id = pushed
        BY DEF b
  <2> QED BY <1>2, <1>4, <2>1 DEF NothingOlder
<1>6. \A i \in 1 .. n : Contents'[i] = Contents[i]
  <2>1. popped <= popped' /\ popped' \in Nat /\ pushed' \in Nat
        BY <1>2, <1>4
  <2>2. ASSUME NEW i \in 1 .. n
        PROVE  /\ i \in 1 .. pushed' - popped' /\ popped' + i - 1 < pushed
               /\ i + (popped' - popped) = i
        BY <1>2, <1>4
  <2> QED BY <1>5, <2>1, <2>2, SameBlocks
<1>7. n \in Nat /\ Contents \in Seq(Block) /\ Len(Contents) = n
      BY <1>2 DEF ContentsOK
<1>8. Contents' \in Seq(Block) /\ Len(Contents') = n + 1
      BY <1>2, <1>4 DEF ContentsOK
<1>9. Contents'[n + 1] = b
  <2>1. n + 1 \in 1 .. pushed' - popped' /\ popped' + (n + 1) - 1 = pushed
        BY <1>2, <1>4, <1>7
  <2>2. PICK q \in DOMAIN mem' : mem'[q].id = pushed /\ Contents'[n + 1] = mem'[q]
        BY <2>1 DEF ContentsOK
  <2>3. q = h
        BY <1>2, <1>4, <2>2, BlockFacts
  <2> QED BY <1>4, <2>2, <2>3
<1> HIDE DEF n
<1>10. /\ Append(Contents, b) \in Seq(Block) /\ Len(Append(Contents, b)) = n + 1
       /\ \A i \in 1 .. n : Append(Contents, b)[i] = Contents[i]
       /\ Append(Contents, b)[n + 1] = b
      BY <1>3, <1>7, AppendProperties
<1>11. \A i \in 1 .. n + 1 : Contents'[i] = Append(Contents, b)[i]
      BY <1>6, <1>7, <1>9, <1>10
<1>12. Contents' = Append(Contents, b)
      BY <1>8, <1>10, <1>11, SeqEqual
<1> QED BY <1>3, <1>12

(* pop takes the first block of the queue away.                            *)
LEMMA PopTakesFirst ==
  ASSUME IInv, ContentsOK, ContentsOK', Pop
  PROVE  Contents # << >> /\ Contents' = Tail(Contents)
<1> DEFINE n == pushed - popped
<1>1. /\ popped' = popped + 1 /\ pushed' = pushed
      /\ \A q \in DOMAIN mem' : q \in DOMAIN mem /\ mem'[q] = mem[q]
      BY DEF Pop
<1>2. popped \in Nat /\ pushed \in Nat /\ popped < pushed
      BY DEF Pop, IInv, TypeOK, LayoutInv, Chain
<1>3. n \in Nat /\ Contents \in Seq(Block) /\ Len(Contents) = n /\ Contents # << >>
      BY <1>2 DEF ContentsOK
<1>4. Contents' \in Seq(Block) /\ Len(Contents') = n - 1
      BY <1>1, <1>2 DEF ContentsOK
<1>5. \A i \in 1 .. n - 1 : Contents'[i] = Contents[i + 1]
  <2>1. popped <= popped' /\ popped' \in Nat /\ pushed' \in Nat
        BY <1>1, <1>2
  <2>2. ASSUME NEW i \in 1 .. n - 1
        PROVE  /\ i \in 1 .. pushed' - popped' /\ popped' + i - 1 < pushed
               /\ i + (popped' - popped) = i + 1
        BY <1>1, <1>2
  <2>3. NothingOlder
        BY <1>1 DEF NothingOlder
  <2> QED BY <2>1, <2>2, <2>3, SameBlocks
<1> HIDE DEF n
<1>6. /\ Tail(Contents) \in Seq(Block) /\ Len(Tail(Contents)) = n - 1
      /\ \A i \in 1 .. n - 1 : Tail(Contents)[i] = Contents[i + 1]
      BY <1>3, HeadTailProperties
<1>7. Contents' = Tail(Contents)
      BY <1>4, <1>5, <1>6, SeqEqual
<1> QED BY <1>3, <1>7

(* The ring buffer implements the unbounded queue: a push appends its      *)
(* block when it ends, pop removes the oldest one, and the growing and     *)
(* moving of the buffer is invisible.                                      *)
THEOREM Implementation == Spec => ImplementsFifo
<1> DEFINE FInv == IInv /\ PushBounded /\ ContentsOK
<1>1. Init => Abstract!Init
  <2> SUFFICES ASSUME Init PROVE Contents = << >>
      BY DEF Abstract!Init
  <2>1. IInv /\ ContentsOK /\ pushed = 0 /\ popped = 0
        BY InitIInv, ContentsInOrder DEF Init
  <2> QED BY <2>1, EmptySeq DEF ContentsOK
<1>2. Init => PushBounded
      BY DEF Init, PushBounded
<1>3. PushBounded /\ [Next]_vars => PushBounded'
  <2> SUFFICES ASSUME PushBounded, [Next]_vars PROVE PushBounded'
      OBVIOUS
  <2> USE DEF PushBounded
  <2>1. ASSUME NEW s \in BlockSizes, NEW limited \in BOOLEAN, BeginPush(s, limited)
        PROVE  PushBounded'
        BY <2>1 DEF BeginPush
  <2>2. CASE Store
        BY <2>2 DEF Store, StoreEmpty, StoreAfter, StoreBeginning, StoreBetween, StoreAt
  <2>3. CASE Grow \/ Pop \/ Clear
        BY <2>3 DEF Grow, Pop, Clear
  <2>4. ASSUME NEW s \in ResizeSizes, Resize(s)
        PROVE  PushBounded'
        BY <2>4 DEF Resize
  <2>5. CASE UNCHANGED vars
        BY <2>5 DEF vars
  <2> QED BY <2>1, <2>2, <2>3, <2>4, <2>5 DEF Next
<1>4. FInv /\ ContentsOK' /\ [Next]_vars => [Abstract!Next]_Contents
  <2> SUFFICES ASSUME FInv, ContentsOK', [Next]_vars PROVE [Abstract!Next]_Contents
      OBVIOUS
  <2>1. ASSUME UNCHANGED << mem, tail, pushed, popped >> PROVE UNCHANGED Contents
        BY <2>1 DEF Contents, Rank, Precedes
  <2>2. ASSUME NEW s \in BlockSizes, NEW limited \in BOOLEAN, BeginPush(s, limited)
        PROVE  [Abstract!Next]_Contents
        BY <2>1, <2>2 DEF BeginPush, pointers
  <2>3. CASE Grow
    <3>1. (bufferSize * 2) % Modulus \in 0 .. Modulus - 1
          BY SizesAssumption DEF IInv, TypeOK
    <3> QED BY <2>3, <3>1, ResizedContents DEF Grow
  <2>4. CASE Store
        BY <2>4, StoreAppends DEF Abstract!Next, Abstract!Push
  <2>5. CASE Pop
        BY <2>5, PopTakesFirst DEF Abstract!Next, Abstract!Pop
  <2>6. CASE Clear
    <3>1. pushed' - popped' = 0
          BY <2>6 DEF Clear, IInv, TypeOK
    <3>2. Contents' = << >>
          BY <3>1, EmptySeq DEF ContentsOK
    <3> QED BY <3>2 DEF Abstract!Next, Abstract!Clear
  <2>7. ASSUME NEW s \in ResizeSizes, Resize(s)
        PROVE  [Abstract!Next]_Contents
        BY <2>7, SizesAssumption, ResizedContents DEF Resize
  <2>8. CASE UNCHANGED vars
        BY <2>1, <2>8 DEF vars
  <2> QED BY <2>2, <2>3, <2>4, <2>5, <2>6, <2>7, <2>8 DEF Next
<1> QED BY <1>1, <1>2, <1>3, <1>4, InitIInv, NextIInv, ContentsInOrder, PTL
        DEF Spec, ImplementsFifo, Abstract!Spec
=============================================================================
