---------------------------- MODULE MCCacheStore ----------------------------
(* Small instances of CacheStore for TLC. *)
EXTENDS CacheStore

CONSTANTS h1, h2, k1, k2, w1, w2

MCOneHash == {h1}
MCTwoHashes == {h1, h2}
MCOneKey == {k1}
MCTwoKeys == {k1, k2}
MCOneWriter == {w1}
MCTwoWriters == {w1, w2}
MCNoCollector == {}
MCBoth == {"gc", "evict"}
=============================================================================
