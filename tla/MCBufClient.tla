---------------------------- MODULE MCBufClient -----------------------------
(***************************************************************************)
(* Model checking instances of BufClient.  A load bounds the connections,  *)
(* the messages that each brings and the messages that the user sends.     *)
(***************************************************************************)
EXTENDS BufClient

Reception == [connections |-> 2, received |-> 1, sent |-> 0]
Sending == [connections |-> 2, received |-> 0, sent |-> 2]
BothWays == [connections |-> 1, received |-> 1, sent |-> 1]
Endings == [connections |-> 3, received |-> 0, sent |-> 0]

OneReceived == {Reception}
AnyLoad == {Reception, Sending, BothWays, Endings}
=============================================================================
