----------------------------- MODULE MCBufFIFO ------------------------------
(* Model checking instance of BufFIFO: the sizes are chosen so that blocks *)
(* fit exactly, wrap, meet the tail, and force one or two doublings.       *)
EXTENDS BufFIFO
=============================================================================
