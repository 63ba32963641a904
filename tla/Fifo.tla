-------------------------------- MODULE Fifo --------------------------------
(***************************************************************************)
(* What NLMISC::CBufFIFO promises its callers (nel/misc/buf_fifo.h): an    *)
(* unbounded first-in first-out queue of blocks.  It has no capacity, no   *)
(* buffer and no wrap-around: those are the business of BufFIFO.           *)
(***************************************************************************)
EXTENDS Sequences

CONSTANT Block          \* the blocks a caller can push

VARIABLE queue          \* the blocks pushed and not yet popped, oldest first

Init == queue = << >>

Push(b) == queue' = Append(queue, b)

Pop == /\ queue # << >>
       /\ queue' = Tail(queue)

Clear == queue' = << >>

Next == (\E b \in Block : Push(b)) \/ Pop \/ Clear

Spec == Init /\ [][Next]_queue
=============================================================================
