--------------------------- MODULE MCHostnameCache ---------------------------
(* Two threads, an address and one of a family that is not noted, and a map  *)
(* with room for two entries.                                                *)
EXTENDS HostnameCache, TLC

CONSTANTS t1, t2, a1, unix, api, www, blank, p1, p2

\* A name that is blanks and dots only normalises to nothing.
MCNormal == (api :> api) @@ (www :> www) @@ (blank :> None)

Symmetric == Permutations({t1, t2}) \cup Permutations({api, www})
             \cup Permutations({p1, p2})
=============================================================================
