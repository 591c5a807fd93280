---------------------------- MODULE MCLifecycle -----------------------------
(* A small instance of Lifecycle for TLC. *)
EXTENDS Lifecycle

CONSTANTS r1, r2

MCRequests == {r1, r2}
=============================================================================
