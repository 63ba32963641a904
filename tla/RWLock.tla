------------------------------- MODULE RWLock -------------------------------
(***************************************************************************)
(* What a reader/writer lock promises: any number of threads may read      *)
(* together, one that writes is alone.                                     *)
(***************************************************************************)
CONSTANT Thread

VARIABLES readers, writers   \* sets of the threads that read, that write

vars == << readers, writers >>

Init == readers = {} /\ writers = {}

EnterReader(t) == t \notin readers /\ writers = {} /\ readers' = readers \union {t} /\ UNCHANGED writers
LeaveReader(t) == t \in readers /\ readers' = readers \ {t} /\ UNCHANGED writers
EnterWriter(t) == readers = {} /\ writers = {} /\ writers' = {t} /\ UNCHANGED readers
LeaveWriter(t) == writers = {t} /\ writers' = {} /\ UNCHANGED readers

Next == \E t \in Thread : EnterReader(t) \/ LeaveReader(t) \/ EnterWriter(t) \/ LeaveWriter(t)

Spec == Init /\ [][Next]_vars
=============================================================================
