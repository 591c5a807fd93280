----------------------------- MODULE MCMetadata -----------------------------
(* Small instances of Metadata for TLC. *)
EXTENDS Metadata

MCProtocols == DOMAIN Handlers
MCPyPI == {"pypi"}
=============================================================================
