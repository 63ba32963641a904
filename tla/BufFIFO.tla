------------------------------ MODULE BufFIFO -------------------------------
(***************************************************************************)
(* NLMISC::CBufFIFO (nel/src/misc/buf_fifo.cpp): the queue of messages of  *)
(* the network library's layer 1.  Blocks of variable size, each preceded  *)
(* by its length, live in one circular byte buffer that grows by doubling. *)
(*                                                                         *)
(* The pointers are offsets in the buffer.  Of the bytes only what the     *)
(* queue has to keep is modelled: mem[p] is the block whose header starts  *)
(* at offset p, its length (header included) and the number of the push    *)
(* that stored it.  Writing over any byte of a block removes it from mem,  *)
(* and so does popping it.                                                 *)
(*                                                                         *)
(* The object is not thread safe, its callers lock it, so no operation     *)
(* interleaves with a push: a push is BeginPush, the iterations of its     *)
(* while loop (Grow), and the Store that ends it.                          *)
(***************************************************************************)
EXTENDS Integers, FiniteSets, Functions

CONSTANTS
  HeaderSize,     \* sizeof(TFifoSize), 4 in the code
  DefaultSize,    \* the size resize(0) gives, 100 in the code
  StackFull,      \* bytes beyond which push(vector, vector) throws, 10000000
  Modulus,        \* 2^32: the buffer size is a uint32
  BlockSizes,     \* the payload sizes callers push
  ResizeSizes,    \* the sizes callers ask resize for
  MaxPushed       \* bound on the number of pushes

ASSUME SizesAssumption ==
  /\ HeaderSize \in Nat \ {0}
  /\ DefaultSize \in Nat \ {0}
  /\ StackFull \in Nat
  /\ Modulus \in Nat \ {0}
  /\ DefaultSize < Modulus
  /\ BlockSizes \subseteq Nat \ {0}
  /\ ResizeSizes \subseteq 0 .. Modulus - 1
  /\ MaxPushed \in Nat

VARIABLES
  bufferSize,     \* _BufferSize
  empty,          \* _Empty
  head,           \* _Head - _Buffer
  tail,           \* _Tail - _Buffer
  rewinder,       \* _Rewinder - _Buffer, or NoRewinder
  mem,            \* the intact blocks of the buffer, by offset
  pending,        \* the payload size of the push in progress, 0 if none
  pushed,         \* history: number of blocks pushed so far
  popped          \* history: number of blocks popped or cleared so far

pointers == << bufferSize, empty, head, tail, rewinder >>
vars == << bufferSize, empty, head, tail, rewinder, mem, pending, pushed, popped >>

NoRewinder == -1

Wrapped == rewinder # NoRewinder

Block == [len : Nat \ {0}, id : Nat]

NoBlocks == [p \in {} |-> [len |-> 1, id |-> 0]]

Init ==
  /\ bufferSize = 0
  /\ empty = TRUE
  /\ head = 0
  /\ tail = 0
  /\ rewinder = NoRewinder
  /\ mem = NoBlocks
  /\ pending = 0
  /\ pushed = 0
  /\ popped = 0

-----------------------------------------------------------------------------
(* The operators named Bad... are plausible mistakes in the definition that *)
(* follows them; no specification uses them.                               *)
BadUsedNoWrap == IF empty THEN 0 ELSE head - tail

(* size(): the bytes in use between the tail and the head.                 *)
Used ==
  IF empty THEN 0
  ELSE IF head = tail THEN (IF Wrapped THEN rewinder ELSE bufferSize)
  ELSE IF head > tail THEN head - tail
  ELSE (rewinder - tail) + head

(* canFit(n), one operator for each way it answers true.                   *)
FitsEmpty(n)     == tail = head /\ empty /\ bufferSize >= n
FitsAfter(n)     == tail < head /\ bufferSize - head >= n
BadFitsBeginning(n) == tail < head /\ bufferSize - head < n /\ tail + 1 >= n

FitsBeginning(n) == tail < head /\ bufferSize - head < n /\ tail >= n
FitsBetween(n)   == tail > head /\ tail - head >= n

CanFit(n) == FitsEmpty(n) \/ FitsAfter(n) \/ FitsBeginning(n) \/ FitsBetween(n)

(* The offset the first block is read at by front and pop.                 *)
FrontPos == IF Wrapped /\ tail = rewinder THEN 0 ELSE tail

-----------------------------------------------------------------------------
(* resize(s): the blocks are copied to the start of a new buffer.          *)
BadOldOffset(p) ==
  IF tail < head THEN p + tail
  ELSE IF p < head THEN p
  ELSE (p - head) + tail

OldOffset(p) ==
  IF tail < head \/ p < rewinder - tail
    THEN p + tail
    ELSE p - (rewinder - tail)

CopiedBlocks ==
  [p \in {q \in 0 .. Used - 1 : OldOffset(q) \in DOMAIN mem
                                /\ q + mem[OldOffset(q)].len <= Used}
     |-> mem[OldOffset(p)]]

BadNewSize(s) == s

NewSize(s) == IF s = 0 THEN DefaultSize ELSE s

Refused(s) == NewSize(s) < bufferSize /\ Used > NewSize(s)

Reallocate(s) ==
  /\ ~Refused(s)
  /\ mem' = CopiedBlocks
  /\ tail' = 0
  /\ head' = Used
  /\ rewinder' = NoRewinder
  /\ bufferSize' = NewSize(s)
  /\ UNCHANGED empty

Resized(s) == Reallocate(s) \/ (Refused(s) /\ UNCHANGED << pointers, mem >>)

Resize(s) ==
  /\ pending = 0
  /\ Resized(s)
  /\ UNCHANGED << pending, pushed, popped >>

-----------------------------------------------------------------------------
(* push(buffer, s), and push(buffer1, buffer2) which throws when the queue *)
(* is too big already (limited).                                           *)
BeginPush(s, limited) ==
  /\ pending = 0
  /\ pushed < MaxPushed
  /\ limited => Used <= StackFull
  /\ pending' = s
  /\ UNCHANGED << pointers, mem, pushed, popped >>

Need == pending + HeaderSize

(* while (!canFit (s + sizeof (TFifoSize))) resize(_BufferSize * 2);       *)
Grow ==
  /\ pending # 0
  /\ ~CanFit(Need)
  /\ Resized((bufferSize * 2) % Modulus)
  /\ UNCHANGED << pending, pushed, popped >>

(* The header and the payload written at offset h, and _Head behind them.  *)
StoreAt(h) ==
  /\ mem' = [p \in {q \in DOMAIN mem : q + mem[q].len <= h \/ h + Need <= q}
                   \union {h}
               |-> IF p = h THEN [len |-> Need, id |-> pushed] ELSE mem[p]]
  /\ head' = h + Need
  /\ empty' = FALSE
  /\ pushed' = pushed + 1
  /\ pending' = 0
  /\ UNCHANGED << bufferSize, popped >>

StoreEmpty ==
  /\ FitsEmpty(Need)
  /\ StoreAt(0)
  /\ tail' = 0
  /\ UNCHANGED rewinder

StoreAfter ==
  /\ FitsAfter(Need)
  /\ StoreAt(head)
  /\ UNCHANGED << tail, rewinder >>

StoreBeginning ==
  /\ FitsBeginning(Need)
  /\ StoreAt(0)
  /\ rewinder' = head
  /\ UNCHANGED tail

StoreBetween ==
  /\ FitsBetween(Need)
  /\ StoreAt(head)
  /\ UNCHANGED << tail, rewinder >>

Store ==
  /\ pending # 0
  /\ StoreEmpty \/ StoreAfter \/ StoreBeginning \/ StoreBetween

-----------------------------------------------------------------------------
(* pop(): on an empty queue it only warns.  A header that was overwritten  *)
(* has no length to read: Chain below says that this never happens.        *)
Pop ==
  /\ pending = 0
  /\ ~empty
  /\ FrontPos \in DOMAIN mem
  /\ tail' = FrontPos + mem[FrontPos].len
  /\ rewinder' = IF FrontPos = tail THEN rewinder ELSE NoRewinder
  /\ empty' = (tail' = head)
  /\ mem' = [p \in DOMAIN mem \ {FrontPos} |-> mem[p]]
  /\ popped' = popped + 1
  /\ UNCHANGED << bufferSize, head, pending, pushed >>

Clear ==
  /\ pending = 0
  /\ tail' = 0
  /\ head' = 0
  /\ rewinder' = NoRewinder
  /\ empty' = TRUE
  /\ mem' = NoBlocks
  /\ popped' = pushed
  /\ UNCHANGED << bufferSize, pending, pushed >>

-----------------------------------------------------------------------------
Next ==
  \/ \E s \in BlockSizes, limited \in BOOLEAN : BeginPush(s, limited)
  \/ Grow
  \/ Store
  \/ Pop
  \/ Clear
  \/ \E s \in ResizeSizes : Resize(s)

(* The thread that is in push runs on until push returns.                  *)
Fairness == WF_vars(Grow) /\ WF_vars(Store)

Spec == Init /\ [][Next]_vars /\ Fairness

-----------------------------------------------------------------------------
(* Every variable keeps the type of the member it models; mem holds blocks *)
(* at offsets of the buffer.                                               *)
TypeOK ==
  /\ bufferSize \in 0 .. Modulus - 1
  /\ empty \in BOOLEAN
  /\ head \in Nat
  /\ tail \in Nat
  /\ rewinder \in Nat \union {NoRewinder}
  /\ DOMAIN mem \subseteq Nat
  /\ \A p \in DOMAIN mem : mem[p] \in Block
  /\ pending \in BlockSizes \union {0}
  /\ pushed \in Nat
  /\ popped \in Nat

(* Where the pointers may be: the two assertions of size() and resize()    *)
(* that the rewinder is set hold, the empty queue never keeps a stale      *)
(* rewinder, and the branch of size() for a full buffer without a rewinder *)
(* is never taken.                                                         *)
PointersOK ==
  /\ head <= bufferSize
  /\ tail <= bufferSize
  /\ empty => head = tail /\ ~Wrapped
  /\ ~empty /\ ~Wrapped => tail < head
  /\ Wrapped => /\ 0 < head
                /\ head <= tail
                /\ tail <= rewinder
                /\ rewinder <= bufferSize

(* Every block lies whole inside the part of the buffer in use: from the   *)
(* tail to the head or, when the queue wraps, from the tail to the         *)
(* rewinder and from the start to the head.                                *)
Extent(p) ==
  IF Wrapped THEN \/ tail <= p /\ p + mem[p].len <= rewinder
                  \/ p < tail /\ p + mem[p].len <= head
             ELSE tail <= p /\ p + mem[p].len <= head

BlocksInUse == \A p \in DOMAIN mem : Extent(p)

NoOverlap == \A p, q \in DOMAIN mem : p < q => p + mem[p].len <= q

(* The newest block ends at the head; another one is followed by the block *)
(* of the next push, at the start of the buffer behind the rewinder.       *)
IsNewest(p) == p + mem[p].len = head /\ (Wrapped => p < tail)

Following(p) ==
  IF Wrapped /\ tail <= p /\ p + mem[p].len = rewinder THEN 0 ELSE p + mem[p].len

Chain ==
  /\ empty => DOMAIN mem = {} /\ popped = pushed
  /\ ~empty => FrontPos \in DOMAIN mem /\ mem[FrontPos].id = popped
  /\ \A p \in DOMAIN mem :
       /\ popped <= mem[p].id /\ mem[p].id < pushed
       /\ \A q \in DOMAIN mem : mem[p].id = mem[q].id => p = q
       /\ IF IsNewest(p)
            THEN mem[p].id = pushed - 1
            ELSE /\ Following(p) \in DOMAIN mem
                 /\ mem[Following(p)].id = mem[p].id + 1

(* No push, pop or resize ever loses, overwrites, splits or reorders a     *)
(* block that is still queued, and front and pop look where the oldest is. *)
LayoutInv == PointersOK /\ BlocksInUse /\ NoOverlap /\ Chain

(* The queue as its callers see it: the blocks from the tail on, then the  *)
(* blocks that wrapped.                                                    *)
Precedes(p, q) == IF (p < tail) = (q < tail) THEN p < q ELSE q < tail

Rank(p) == Cardinality({q \in DOMAIN mem : Precedes(q, p)}) + 1

Contents ==
  [i \in 1 .. Cardinality(DOMAIN mem) |->
     mem[CHOOSE p \in DOMAIN mem : Rank(p) = i]]

Abstract == INSTANCE Fifo WITH
  queue <- Contents,
  Block <- [len : {s + HeaderSize : s \in BlockSizes}, id : 0 .. MaxPushed]

(* The ring buffer implements the unbounded queue: pushes append, pops     *)
(* remove the oldest, growing is invisible.                                *)
ImplementsFifo == Abstract!Spec

(* The loop of push ends: doubling always makes room for the block.        *)
PushTerminates == pending # 0 ~> pending = 0
=============================================================================
