------------------------------ MODULE MCTokens ------------------------------
(* A small instance of Tokens for TLC: three requests, a token that is     *)
(* never fresh and one that is for a while.                                *)
EXTENDS Tokens

CONSTANTS r1, r2, r3

MCCallers == {r1, r2, r3}
MCProviders == {"github", "oci"}
MCLifetimes == {3, 5}
=============================================================================
