--------------------------- MODULE MCMaintenance ----------------------------
(* A small instance of Maintenance for TLC. *)
EXTENDS Maintenance

CONSTANTS h1, k1, m1

MCHashes == {h1}
MCKeys == {k1}
MCMetaKeys == {m1}
=============================================================================
