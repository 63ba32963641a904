---------------------------- MODULE MCBufServer -----------------------------
(***************************************************************************)
(* Model checking instances of BufServer.  Addresses are strings: with one *)
(* address every connection reuses that of the previous one.               *)
(***************************************************************************)
EXTENDS BufServer

(* How many messages the peers of the first and second connection send.    *)
Silence == << 0, 0 >>
OneEach == << 1, 1 >>
FirstSpeaks == << 1, 0 >>
TwoMessages == << 2 >>
=============================================================================
