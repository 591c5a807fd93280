---------------------------- MODULE MCPullThrough ---------------------------
(* Small instances of PullThrough for TLC. *)
EXTENDS PullThrough

CONSTANTS k1, c1, c2

MCResources == {k1}
MCCallers == {c1, c2}
MCContents == {"good", "bad"}
MCProtocols == DOMAIN Handlers
MCTarball == {"npm"}
MCPack == {"git"}
=============================================================================
