----------------------------- MODULE MCVmCalls -----------------------------
EXTENDS VmCalls, TLC

CONSTANTS u1, u2, s1, s2, h1, h2

Sym == Permutations({u1, u2}) \cup Permutations({s1, s2}) \cup Permutations({h1, h2})
=============================================================================
