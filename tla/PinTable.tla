------------------------------ MODULE PinTable ------------------------------
(***************************************************************************)
(* What reference tracking promises to the rest of the cache: a table of   *)
(* tracked blobs and, for each metadata entry, the set of blobs the entry  *)
(* pins.  A blob is forgotten only while no entry pins it.  There are no   *)
(* counters here: MetaDB implements this table with one integer per blob.  *)
(***************************************************************************)
CONSTANTS Hashes,   \* the blobs
          Keys      \* the metadata entries

VARIABLES tracked,  \* the blobs the database has a row for
          pins      \* pins[k]: the blobs entry k refers to

vars == <<tracked, pins>>

Init == tracked = {} /\ pins = [k \in Keys |-> {}]

Pinned(h) == \E k \in Keys : h \in pins[k]

\* A blob enters the store.
Track(h) == tracked' = tracked \cup {h} /\ UNCHANGED pins

\* A blob leaves the store: only one that nothing pins.
Forget(h) == ~Pinned(h) /\ tracked' = tracked \ {h} /\ UNCHANGED pins

\* An entry is written, rewritten or dropped (R = {}).
SetPins(k, R) == R \subseteq tracked /\ pins' = [pins EXCEPT ![k] = R] /\ UNCHANGED tracked

Next == \/ \E h \in Hashes : Track(h) \/ Forget(h)
        \/ \E k \in Keys, R \in SUBSET Hashes : SetPins(k, R)

Spec == Init /\ [][Next]_vars
=============================================================================
