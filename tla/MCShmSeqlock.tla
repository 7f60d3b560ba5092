--------------------------- MODULE MCShmSeqlock ---------------------------
(* Small instances of ShmSeqlock for TLC. *)
EXTENDS ShmSeqlock, TLC

CONSTANTS w1, w2, r1

\* write_latency(), and a policy with one target rule.
MCUpdates ==
  { ("latency" :> 1),
    ("latency" :> 2 @@ "targets" :> 1 @@ "rule0" :> 1) }

\* One writer at a time: Python writers hold SHMWriter._lock, and the Rust writer
\* is the setpriority() call of the thread whose row it is.
OneLock == [w \in Writers |-> "lock"]

===========================================================================
