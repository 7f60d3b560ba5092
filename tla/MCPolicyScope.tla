---------------------------- MODULE MCPolicyScope ----------------------------
(* Two threads: the flow of one calls decorated functions and opens policy   *)
(* contexts, the flow of the other registers and removes policies meanwhile. *)
EXTENDS PolicyScope, TLC

CONSTANTS f1, f2, t1, t2, o1, o2, n1, n2, p

TwoThreads == (f1 :> t1) @@ (f2 :> t2)

\* One object built with a name and one with policy keywords.
NamedAndInline == (o1 :> p) @@ (o2 :> Inline)

\* A plain profile, and one whose last write the writer may refuse.
LatencyTargets == {{"latency"}, {"latency", "target_profiles"}}

\* Generated names are as good as one another.
Generated == Permutations({n1, n2})
=============================================================================
