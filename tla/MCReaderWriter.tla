--------------------------- MODULE MCReaderWriter ---------------------------
(* Model checking instances of ReaderWriter: threads are model values.     *)
EXTENDS ReaderWriter
=============================================================================
