---------------------------- MODULE MCLifecycle -----------------------------
(* A finite instance of Lifecycle for TLC. *)
EXTENDS Lifecycle

CONSTANTS r1, r2, u1, v1

\* One pool, every Runner alike.
OnePool == [r \in Runners |-> v1]
CapOne  == [r \in Runners |-> 1]
=============================================================================
