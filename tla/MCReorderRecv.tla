--------------------------- MODULE MCReorderRecv ---------------------------
(* Small instances of ReorderRecv for TLC. *)
EXTENDS ReorderRecv, TLC

CONSTANTS t1, t2

\* Threads differ in nothing but their calls; queues are numbered.
MCSymmetry == Permutations({t1, t2})
============================================================================
