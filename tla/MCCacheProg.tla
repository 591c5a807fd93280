----------------------------- MODULE MCCacheProg ----------------------------
(* A small instance of CacheProg for TLC: two calls, of one invocation or  *)
(* of two.                                                                 *)
EXTENDS CacheProg

CONSTANTS c1, c2, p1, p2, a, b

MCCalls == {c1, c2}
MCPrograms == {p1, p2}
MCOutputs == {a, b}
=============================================================================
