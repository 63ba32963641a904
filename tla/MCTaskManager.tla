--------------------------- MODULE MCTaskManager ----------------------------
(* Model checking instances of TaskManager; the users are the main thread  *)
(* of a program and a second one.                                          *)
EXTENDS TaskManager

Urgencies == {0, 1}
=============================================================================
