------------------------------ MODULE MCShard -------------------------------
(***************************************************************************)
(* Model checking instances of Shard: three processes, two of one name.    *)
(***************************************************************************)
EXTENDS Shard

Names == [p \in Service |-> IF p = "a" THEN "A" ELSE "B"]

Faults(death, crash, timeout) == [death |-> death, crash |-> crash, timeout |-> timeout]
OneDeath == {Faults(1, 0, 0)}
TwoFaults == {Faults(2, 0, 0), Faults(1, 1, 0), Faults(1, 0, 1)}
=============================================================================
