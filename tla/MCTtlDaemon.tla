----------------------------- MODULE MCTtlDaemon -----------------------------
(* An instance of TtlDaemon for TLC. *)
EXTENDS TtlDaemon, TLC

\* Of vCenter users and names nothing but their identity matters.
Symmetry == Permutations(Names) \cup Permutations(Uuids) \cup Permutations(Grants)
=============================================================================
