-------------------------- MODULE MCRecordReplay --------------------------
(* Small instances of RecordReplay for TLC. *)
EXTENDS RecordReplay, TLC

CONSTANTS t1, t2, p1, p2

\* Threads and processes differ in nothing but what they do.
MCSymmetry == {f @@ g : f \in Permutations({t1, t2}), g \in Permutations({p1, p2})}

MCMaxAsked == [m \in {"Record", "Replay"} |-> IF m = "Record" THEN 3 ELSE 2]

MCDecisions == {[kind |-> "DelayNs", value |-> 2], [kind |-> "Error", value |-> 2],
                [kind |-> "Mutate", value |-> 2]}
============================================================================
