------------------------------ MODULE MCS3Fifo ------------------------------
(* Small instances of S3Fifo for TLC. *)
EXTENDS S3Fifo, TLC

CONSTANTS h1, h2, p1, p2

MCHashes == {h1, h2}
MCPutters == {p1, p2}
MCOnePutter == {p1}
MCUnitSize == [h \in MCHashes |-> 1]
MCSymmetry == Permutations({h1, h2}) \cup Permutations({p1, p2})
=============================================================================
