---------------------------- MODULE MCBuildCache ----------------------------
(* Small instance of BuildCache for TLC. *)
EXTENDS BuildCache

CONSTANTS a1, o1, c1, c2

MCActions == {a1}
MCOutputs == {o1}
MCClients == {c1, c2}
=============================================================================
