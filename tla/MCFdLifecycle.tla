--------------------------- MODULE MCFdLifecycle ---------------------------
(* Small instances of FdLifecycle for TLC. *)
EXTENDS FdLifecycle, TLC

CONSTANTS f1, f2, t1, t2, h1

Symmetry == Permutations(Fds) \cup Permutations(Threads)
============================================================================
