-------------------------- MODULE MCImageRegistry --------------------------
EXTENDS ImageRegistry, TLC

CONSTANTS c1, c2, p1, p2, v1, v2, i1, i2

MCProcOf == (c1 :> p1) @@ (c2 :> p2)
Sym == Permutations({v1, v2}) \cup Permutations({i1, i2})
=============================================================================
