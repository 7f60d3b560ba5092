--------------------------- MODULE MCReorderSend ---------------------------
(* Small instances of ReorderSend for TLC. *)
EXTENDS ReorderSend

CONSTANTS t1, t2
============================================================================
