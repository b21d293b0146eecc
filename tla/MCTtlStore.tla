----------------------------- MODULE MCTtlStore -----------------------------
(* An instance of TtlStore for TLC: two threads of a server, and the daemon. *)
EXTENDS TtlStore

CONSTANTS c1, c2, c3, server, daemon

ServerAndDaemon == [c \in Callers |-> IF c = c3 THEN daemon ELSE server]
=============================================================================
