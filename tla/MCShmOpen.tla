----------------------------- MODULE MCShmOpen -----------------------------
(* Small instances of ShmOpen for TLC. *)
EXTENDS ShmOpen

\* Two threads of a creator and one of a consumer.
MCHome == [t \in {"a", "b", "c"} |-> IF t = "c" THEN "consumer" ELSE "creator"]
MCSlotOf == [t \in {"a", "b", "c"} |-> IF t = "a" THEN 1 ELSE 2]
============================================================================
