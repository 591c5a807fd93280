----------------------------- MODULE StoreProofs ----------------------------
(***************************************************************************)
(* Proofs about the store's database, for every set of hashes and keys,    *)
(* clock, batch size and set of writers: about MetaDB by itself, with      *)
(* CacheStore's requests, collector and crashes around it, and with        *)
(* Maintenance's flat entries, pins by hand and recounts beside it.        *)
(*                                                                         *)
(* Every action of MetaDB changes the buckets in one of three ways: one    *)
(* row is put, touched or deleted, one envelope is stored, or one envelope *)
(* is removed.  DbEffect says so once; the invariants are then proved      *)
(* effect by effect.  CacheStore's steps have no other effects, so its     *)
(* invariants carry over; one request at a time, with no deletions beside  *)
(* it, keeps the order under which the reference counts are exact.  In     *)
(* Maintenance the flat entries and the repairs are two more kinds of step.*)
(***************************************************************************)
EXTENDS CacheStore, Maintenance, FiniteSetTheorems, TLAPS

Row == BlobEntry \cup {NoRow}

RowChange == \E h \in Hashes :
    /\ \E row \in Row :
          /\ blobs' = [blobs EXCEPT ![h] = row]
          /\ row # NoRow /\ (blobs[h] = NoRow \/ row.RefCount # blobs[h].RefCount)
               => row.RefCount = 0
    /\ UNCHANGED <<envelopes, envelopeRefs, byExpiry, expiryByKey>>

EnvelopeStored == \E k \in Keys, env \in MetadataEnvelope : StoreEnvelope(k, env)
EnvelopeRemoved == \E k \in Keys : RemoveEnvelope(k)
DbChange == RowChange \/ EnvelopeStored \/ EnvelopeRemoved \/ UNCHANGED dbVars

\* The reaper's batch and the clock.
ReaperChange ==
    /\ expired' \subseteq expired \cup ExpiredEntries
    /\ now' \in Time /\ now <= now'

-----------------------------------------------------------------------------
(* Counting one reference more or less keeps a row a row.                  *)
LEMMA RefStepTypes ==
    ASSUME NEW row \in Row
    PROVE  IncrementRef(row) \in Row /\ DecrementRef(row) \in Row
  <1>1. CASE row = NoRow
    BY <1>1 DEF IncrementRef, DecrementRef, Row
  <1>2. CASE row # NoRow
    <2>1. row \in BlobEntry
      BY <1>2 DEF Row
    <2>2. [row EXCEPT !.RefCount = @ + 1] \in BlobEntry
      BY <2>1 DEF BlobEntry
    <2>3. [row EXCEPT !.RefCount = IF @ > 0 THEN @ - 1 ELSE 0] \in BlobEntry
      BY <2>1 DEF BlobEntry
    <2> QED
      BY <1>2, <2>2, <2>3 DEF IncrementRef, DecrementRef, Row
  <1> QED
    BY <1>1, <1>2

(* The counts the two steps produce.                                       *)
LEMMA RefStepCounts ==
    ASSUME NEW row \in BlobEntry
    PROVE  /\ IncrementRef(row) # NoRow
           /\ IncrementRef(row).RefCount = row.RefCount + 1
           /\ DecrementRef(row) # NoRow
           /\ DecrementRef(row).RefCount
                = IF row.RefCount > 0 THEN row.RefCount - 1 ELSE 0
  <1>1. row # NoRow
    BY MetaDBAssumption
  <1>2. [row EXCEPT !.RefCount = @ + 1] \in BlobEntry
    BY DEF BlobEntry
  <1>3. [row EXCEPT !.RefCount = IF @ > 0 THEN @ - 1 ELSE 0] \in BlobEntry
    BY DEF BlobEntry
  <1>4. /\ [row EXCEPT !.RefCount = @ + 1].RefCount = row.RefCount + 1
        /\ [row EXCEPT !.RefCount = IF @ > 0 THEN @ - 1 ELSE 0].RefCount
             = IF row.RefCount > 0 THEN row.RefCount - 1 ELSE 0
    BY DEF BlobEntry
  <1> QED
    BY <1>1, <1>2, <1>3, <1>4, MetaDBAssumption DEF IncrementRef, DecrementRef

(* A reference diff keeps rows where they are and rows.                    *)
LEMMA DiffRefsType ==
    ASSUME TypeOK, NEW old \in SUBSET Hashes, NEW new \in SUBSET Hashes
    PROVE  DiffRefs(old, new) \in [Hashes -> Row]
  BY RefStepTypes DEF DiffRefs, TypeOK, Row

-----------------------------------------------------------------------------
(* The three effects an action can have on the buckets.                    *)
LEMMA DbEffect ==
    ASSUME TypeOK, [Next]_vars
    PROVE  DbChange
  <1> USE DEF DbChange
  <1>1. CASE BlobNext
    <2>1. ASSUME NEW h \in Hashes, PutBlob(h) PROVE RowChange
      <3>1. [RefCount |-> 0, LastAccess |-> now] \in Row
        BY DEF TypeOK, Row, BlobEntry
      <3> QED
        BY <2>1, <3>1 DEF PutBlob, RowChange
    <2>2. ASSUME NEW h \in Hashes, DeleteBlob(h) PROVE RowChange
      BY <2>2 DEF DeleteBlob, RowChange, Row
    <2>3. ASSUME NEW h \in Hashes, TouchBlob(h) PROVE RowChange
      <3> DEFINE row == [blobs[h] EXCEPT !.LastAccess = now]
      <3>1. blobs[h] \in BlobEntry
        BY <2>3 DEF TouchBlob, HasRow, TypeOK
      <3>2. row \in BlobEntry /\ row.RefCount = blobs[h].RefCount
        BY <3>1 DEF BlobEntry, TypeOK
      <3>3. blobs' = [blobs EXCEPT ![h] = row]
        BY <2>3 DEF TouchBlob
      <3>4. blobs[h] # NoRow
        BY <2>3 DEF TouchBlob, HasRow
      <3> QED
        BY <2>3, <3>2, <3>3, <3>4 DEF TouchBlob, RowChange, Row
    <2> QED
      BY <1>1, <2>1, <2>2, <2>3 DEF BlobNext
  <1>2. CASE EnvelopeNext
    <2>1. ASSUME NEW k \in Keys, NEW refs \in SUBSET Hashes, NEW t \in Expiries,
                 PutEnvelope(k, refs, t)
          PROVE  EnvelopeStored
      BY <2>1, MetaDBAssumption
         DEF PutEnvelope, EnvelopeStored, MetadataEnvelope, Expiries, NoExpiry, Time
    <2>2. ASSUME NEW k \in Keys, NEW refs \in SUBSET Hashes, NEW t \in Time,
                 UpdateEnvelope(k, refs, t)
          PROVE  EnvelopeStored
      BY <2>2 DEF UpdateEnvelope, EnvelopeStored, MetadataEnvelope
    <2>3. ASSUME NEW k \in Keys, DeleteEnvelope(k) PROVE EnvelopeRemoved
      BY <2>3 DEF DeleteEnvelope, EnvelopeRemoved
    <2> QED
      BY <1>2, <2>1, <2>2, <2>3 DEF EnvelopeNext
  <1>3. CASE ReaperNext
    <2>1. ASSUME NEW batch \in SUBSET ExpiryEntry, GetExpiredEnvelopes(batch)
          PROVE  UNCHANGED dbVars
      BY <2>1 DEF GetExpiredEnvelopes, dbVars
    <2>2. ASSUME NEW e \in ExpiryEntry, DeleteExpiredEnvelope(e)
          PROVE  EnvelopeRemoved \/ UNCHANGED dbVars
      BY <2>2 DEF DeleteExpiredEnvelope, EnvelopeRemoved, ExpiryEntry
    <2>3. ASSUME NEW e \in ExpiryEntry, SkipExpiredEnvelope(e)
          PROVE  UNCHANGED dbVars
      BY <2>3 DEF SkipExpiredEnvelope, dbVars
    <2>4. ASSUME AbandonBatch PROVE UNCHANGED dbVars
      BY <2>4 DEF AbandonBatch, dbVars
    <2> QED
      BY <1>3, <2>1, <2>2, <2>3, <2>4 DEF ReaperNext
  <1>4. CASE Tick
    BY <1>4 DEF Tick, dbVars
  <1>5. CASE UNCHANGED vars
    BY <1>5 DEF vars, dbVars
  <1> QED
    BY <1>1, <1>2, <1>3, <1>4, <1>5 DEF Next

(* The reaper's batch and the clock change only as the reaper's actions say. *)
LEMMA ReaperEffect ==
    ASSUME TypeOK, [Next]_vars
    PROVE  ReaperChange
  <1> USE DEF ReaperChange
  <1>0. now \in Time /\ now <= now
    BY MetaDBAssumption DEF TypeOK, Time
  <1>1. CASE BlobNext
    <2>1. UNCHANGED <<expired, now>>
      BY <1>1 DEF BlobNext, PutBlob, DeleteBlob, TouchBlob
    <2> QED
      BY <2>1, <1>0
  <1>2. CASE EnvelopeNext
    <2>1. UNCHANGED <<expired, now>>
      BY <1>2, Zenon DEF EnvelopeNext, PutEnvelope, UpdateEnvelope, DeleteEnvelope
    <2> QED
      BY <2>1, <1>0
  <1>3. CASE ReaperNext
    BY <1>3, <1>0 DEF ReaperNext, GetExpiredEnvelopes, DeleteExpiredEnvelope,
                SkipExpiredEnvelope, AbandonBatch
  <1>4. CASE Tick
    BY <1>4, MetaDBAssumption DEF Tick, TypeOK, Time
  <1>5. CASE UNCHANGED vars
    BY <1>5, <1>0 DEF vars
  <1> QED
    BY <1>1, <1>2, <1>3, <1>4, <1>5 DEF Next
-----------------------------------------------------------------------------
(* A step of those effects keeps every bucket's shape.                     *)
LEMMA TypeKept ==
    ASSUME TypeOK, DbChange, ReaperChange
    PROVE  TypeOK'
  <1>1. expired' \subseteq ExpiryEntry /\ now' \in Time
    BY DEF ReaperChange, TypeOK, ExpiredEntries
  <1>2. CASE RowChange
    BY <1>1, <1>2 DEF RowChange, TypeOK, Row
  <1>3. CASE EnvelopeStored
    <2>1. PICK k \in Keys, env \in MetadataEnvelope : StoreEnvelope(k, env)
      BY <1>3 DEF EnvelopeStored
    <2>2. env.BlobRefs \in SUBSET Hashes /\ env.ExpiresAt \in Time
      BY DEF MetadataEnvelope
    <2>3. blobs' \in [Hashes -> BlobEntry \cup {NoRow}]
      BY <2>1, <2>2, DiffRefsType DEF StoreEnvelope, Row, TypeOK
    <2>4. byExpiry' \subseteq ExpiryEntry /\ expiryByKey' \in [Keys -> Time]
      BY <2>1, <2>2 DEF StoreEnvelope, UpdateExpiryIndex, IndexEntries, TypeOK, ExpiryEntry
    <2> QED
      BY <1>1, <2>1, <2>2, <2>3, <2>4 DEF StoreEnvelope, TypeOK
  <1>4. CASE EnvelopeRemoved
    <2>1. PICK k \in Keys : RemoveEnvelope(k)
      BY <1>4 DEF EnvelopeRemoved
    <2>2. blobs' \in [Hashes -> BlobEntry \cup {NoRow}]
      BY <2>1, DiffRefsType DEF RemoveEnvelope, Row, TypeOK
    <2>3. byExpiry' \subseteq ExpiryEntry /\ expiryByKey' \in [Keys -> Time]
      BY <2>1, MetaDBAssumption
         DEF RemoveEnvelope, UpdateExpiryIndex, IndexEntries, TypeOK, ExpiryEntry,
             NoExpiry, Time
    <2> QED
      BY <1>1, <2>1, <2>2, <2>3 DEF RemoveEnvelope, TypeOK
  <1>5. CASE UNCHANGED dbVars
    BY <1>1, <1>5 DEF dbVars, TypeOK
  <1> QED
    BY <1>2, <1>3, <1>4, <1>5 DEF DbChange

(* Every bucket keeps its shape: Spec implies the type invariant.          *)
THEOREM TypeCorrect == Spec => []TypeOK
  <1>1. Init => TypeOK
    BY MetaDBAssumption DEF Init, TypeOK, Time, NoExpiry
  <1>2. TypeOK /\ [Next]_vars => TypeOK'
    BY DbEffect, ReaperEffect, TypeKept
  <1> QED
    BY <1>1, <1>2, PTL DEF Spec
-----------------------------------------------------------------------------
(* Each effect writes an envelope and its references together.             *)
LEMMA MirrorKept ==
    ASSUME TypeOK, RefsMirrorEnvelopes, DbChange
    PROVE  RefsMirrorEnvelopes'
  <1>1. CASE RowChange
    BY <1>1 DEF RowChange, RefsMirrorEnvelopes, HasEnvelope
  <1>2. CASE EnvelopeStored
    <2>1. PICK k \in Keys, env \in MetadataEnvelope : StoreEnvelope(k, env)
      BY <1>2 DEF EnvelopeStored
    <2>2. env # NoEnvelope
      BY MetaDBAssumption
    <2> QED
      BY <2>1, <2>2 DEF StoreEnvelope, RefsMirrorEnvelopes, HasEnvelope, TypeOK
  <1>3. CASE EnvelopeRemoved
    BY <1>3 DEF EnvelopeRemoved, RemoveEnvelope, RefsMirrorEnvelopes, HasEnvelope, TypeOK
  <1>4. CASE UNCHANGED dbVars
    BY <1>4 DEF dbVars, RefsMirrorEnvelopes, HasEnvelope
  <1> QED
    BY <1>1, <1>2, <1>3, <1>4 DEF DbChange

(* The refs bucket always lists the references of the stored envelope: an  *)
(* envelope and its entry in the refs bucket are written in one            *)
(* transaction by every method that writes either.                         *)
THEOREM RefsMirror == Spec => []RefsMirrorEnvelopes
  <1>1. Init => RefsMirrorEnvelopes
    BY DEF Init, RefsMirrorEnvelopes, HasEnvelope
  <1>2. TypeOK /\ RefsMirrorEnvelopes /\ [Next]_vars => RefsMirrorEnvelopes'
    BY DbEffect, MirrorKept
  <1> QED
    BY <1>1, <1>2, TypeCorrect, PTL DEF Spec

-----------------------------------------------------------------------------
(* The forward entries that belong to a reverse index over keys K.         *)
ForwardOf(K, reverse) == {e \in Time \X K : e[1] # NoExpiry /\ e[1] = reverse[e[2]]}

(* Moving a key's entry in both indexes leaves them exact.                 *)
LEMMA IndexMoved ==
    ASSUME NEW K, NEW reverse \in [K -> Time], NEW k \in K, NEW t \in Time,
           NEW moved, \A l \in K : moved[l] = IF l = k THEN t ELSE reverse[l]
    PROVE  (ForwardOf(K, reverse) \ {<<reverse[k], k>>}) \cup IndexEntries(k, t)
             = ForwardOf(K, moved)
  <1> DEFINE fwd == ForwardOf(K, reverse)
             later == (fwd \ {<<reverse[k], k>>}) \cup IndexEntries(k, t)
  <1>1. ASSUME NEW u \in Time, NEW l \in K
        PROVE  <<u, l>> \in later <=> u # NoExpiry /\ u = moved[l]
    <2>1. <<u, l>> \in fwd <=> u # NoExpiry /\ u = reverse[l]
      BY DEF ForwardOf
    <2>2. <<u, l>> \in later <=>
            (\/ <<u, l>> \in fwd /\ <<u, l>> # <<reverse[k], k>>
             \/ <<u, l>> = <<t, k>> /\ t # NoExpiry)
      BY DEF IndexEntries
    <2>3. moved[l] = IF l = k THEN t ELSE reverse[l]
      OBVIOUS
    <2> QED
      BY <2>1, <2>2, <2>3
  <1>2. later \subseteq Time \X K
    BY DEF IndexEntries, ForwardOf
  <1> HIDE DEF fwd, later
  <1>3. ASSUME NEW e \in Time \X K
        PROVE  e \in later <=> e[1] # NoExpiry /\ e[1] = moved[e[2]]
    <2>1. PICK u \in Time, l \in K : e = <<u, l>>
      OBVIOUS
    <2> QED
      BY <2>1, <1>1
  <1>4. later = ForwardOf(K, moved)
    BY <1>2, <1>3 DEF ForwardOf
  <1> QED
    BY <1>4 DEF fwd, later

(* Rewriting a key's index entries leaves exactly the new one.             *)
LEMMA IndexRewritten ==
    ASSUME TypeOK, ExpiryIndexesExact, NEW k \in Keys, NEW t \in Time,
           UpdateExpiryIndex(k, t)
    PROVE  /\ \A l \in Keys : expiryByKey'[l] = IF l = k THEN t ELSE ExpiryOf(l)
           /\ byExpiry' = {e \in ExpiryEntry : e[1] # NoExpiry /\ e[1] = expiryByKey'[e[2]]}
  <1>1. expiryByKey \in [Keys -> Time] /\ expiryByKey' = [expiryByKey EXCEPT ![k] = t]
    BY DEF UpdateExpiryIndex, TypeOK
  <1>2. \A l \in Keys : expiryByKey'[l] = IF l = k THEN t ELSE expiryByKey[l]
    BY <1>1
  <1>3. byExpiry = ForwardOf(Keys, expiryByKey)
    BY DEF ExpiryIndexesExact, ForwardOf, ExpiryEntry
  <1>4. byExpiry' = ForwardOf(Keys, expiryByKey')
    <2>1. byExpiry' = (ForwardOf(Keys, expiryByKey) \ {<<expiryByKey[k], k>>})
                        \cup IndexEntries(k, t)
      BY <1>3 DEF UpdateExpiryIndex
    <2>2. (ForwardOf(Keys, expiryByKey) \ {<<expiryByKey[k], k>>}) \cup IndexEntries(k, t)
            = ForwardOf(Keys, expiryByKey')
      <3>1. expiryByKey \in [Keys -> Time]
        BY <1>1
      <3> QED
        BY <1>2, <3>1, IndexMoved
    <2> QED
      BY <2>1, <2>2
  <1> QED
    BY <1>2, <1>4 DEF ForwardOf, ExpiryEntry, ExpiryIndexesExact

(* Each effect moves the key's index entries with its envelope.            *)
LEMMA IndexesKept ==
    ASSUME TypeOK, ExpiryIndexesExact, DbChange
    PROVE  ExpiryIndexesExact'
  <1>1. CASE RowChange
    BY <1>1 DEF RowChange, ExpiryIndexesExact, ExpiryOf, HasEnvelope
  <1>2. CASE EnvelopeStored
    <2>1. PICK k \in Keys, env \in MetadataEnvelope : StoreEnvelope(k, env)
      BY <1>2 DEF EnvelopeStored
    <2>2. env # NoEnvelope /\ env.ExpiresAt \in Time
      BY MetaDBAssumption DEF MetadataEnvelope
    <2>3. \A l \in Keys : ExpiryOf(l)' = IF l = k THEN env.ExpiresAt ELSE ExpiryOf(l)
      BY <2>1, <2>2 DEF StoreEnvelope, ExpiryOf, HasEnvelope, TypeOK
    <2>4. UpdateExpiryIndex(k, env.ExpiresAt)
      BY <2>1 DEF StoreEnvelope
    <2>5. /\ \A l \in Keys : expiryByKey'[l] = ExpiryOf(l)'
          /\ byExpiry' = {e \in ExpiryEntry : e[1] # NoExpiry
                                              /\ e[1] = expiryByKey'[e[2]]}
      BY <2>2, <2>3, <2>4, IndexRewritten
    <2> QED
      BY <2>5 DEF ExpiryIndexesExact, ExpiryEntry
  <1>3. CASE EnvelopeRemoved
    <2>1. PICK k \in Keys : RemoveEnvelope(k)
      BY <1>3 DEF EnvelopeRemoved
    <2>2. \A l \in Keys : ExpiryOf(l)' = IF l = k THEN NoExpiry ELSE ExpiryOf(l)
      BY <2>1 DEF RemoveEnvelope, ExpiryOf, HasEnvelope, TypeOK
    <2>3. UpdateExpiryIndex(k, NoExpiry) /\ NoExpiry \in Time
      BY <2>1, MetaDBAssumption DEF RemoveEnvelope, NoExpiry, Time
    <2>4. /\ \A l \in Keys : expiryByKey'[l] = ExpiryOf(l)'
          /\ byExpiry' = {e \in ExpiryEntry : e[1] # NoExpiry
                                              /\ e[1] = expiryByKey'[e[2]]}
      BY <2>2, <2>3, IndexRewritten
    <2> QED
      BY <2>4 DEF ExpiryIndexesExact, ExpiryEntry
  <1>4. CASE UNCHANGED dbVars
    BY <1>4 DEF dbVars, ExpiryIndexesExact, ExpiryOf, HasEnvelope
  <1> QED
    BY <1>1, <1>2, <1>3, <1>4 DEF DbChange

(* Forward and reverse expiry index describe exactly the stored envelopes. *)
THEOREM IndexesExact == Spec => []ExpiryIndexesExact
  <1>1. Init => ExpiryIndexesExact
    BY DEF Init, ExpiryIndexesExact, ExpiryOf, HasEnvelope, ExpiryEntry
  <1>2. TypeOK /\ ExpiryIndexesExact /\ [Next]_vars => ExpiryIndexesExact'
    BY DbEffect, IndexesKept
  <1> QED
    BY <1>1, <1>2, TypeCorrect, PTL DEF Spec
-----------------------------------------------------------------------------
(* How many entries refer to a blob, before and after a diff.              *)
LEMMA HoldersFinite ==
    ASSUME NEW h \in Hashes
    PROVE  IsFiniteSet(Holders(h)) /\ Cardinality(Holders(h)) \in Nat
  BY MetaDBAssumption, FS_Subset, FS_CardinalityType DEF Holders

(* A table of references, as both formats of entries keep one: what a key  *)
(* refers to is counted, and rewriting the key moves the count with it.    *)
LEMMA KeyCounted ==
    ASSUME NEW K, IsFiniteSet(K), NEW refs, NEW k \in K, NEW h, h \in refs[k]
    PROVE  Cardinality({l \in K : h \in refs[l]}) > 0
  <1> DEFINE S == {l \in K : h \in refs[l]}
  <1>1. IsFiniteSet(S) /\ Cardinality(S) \in Nat /\ k \in S
    BY FS_Subset, FS_CardinalityType
  <1> HIDE DEF S
  <1>2. Cardinality(S) > 0
    BY <1>1, FS_EmptySet
  <1> QED
    BY <1>2 DEF S

LEMMA CountRewritten ==
    ASSUME NEW K, IsFiniteSet(K), NEW refs \in [K -> SUBSET Hashes],
           NEW k \in K, NEW new \in SUBSET Hashes,
           NEW after, \A l \in K : after[l] = IF l = k THEN new ELSE refs[l],
           NEW h \in Hashes
    PROVE  Cardinality({l \in K : h \in after[l]}) =
             IF h \in new \ refs[k] THEN Cardinality({l \in K : h \in refs[l]}) + 1
             ELSE IF h \in refs[k] \ new THEN Cardinality({l \in K : h \in refs[l]}) - 1
             ELSE Cardinality({l \in K : h \in refs[l]})
  <1> DEFINE S == {l \in K : h \in refs[l]}
             T == {l \in K : h \in after[l]}
  <1>1. IsFiniteSet(S) /\ Cardinality(S) \in Nat
    BY FS_Subset, FS_CardinalityType
  <1>2. k \in S <=> h \in refs[k]
    OBVIOUS
  <1>3. T = IF h \in new THEN S \cup {k} ELSE S \ {k}
    OBVIOUS
  <1> HIDE DEF S, T
  <1>4. Cardinality(T) = IF h \in new \ refs[k] THEN Cardinality(S) + 1
                         ELSE IF h \in refs[k] \ new THEN Cardinality(S) - 1
                         ELSE Cardinality(S)
    BY <1>1, <1>2, <1>3, FS_AddElement, FS_RemoveElement
  <1> QED
    BY <1>4 DEF S, T

LEMMA HoldersRewritten ==
    ASSUME TypeOK, NEW k \in Keys, NEW new \in SUBSET Hashes, NEW h \in Hashes
    PROVE  envelopeRefs' = [envelopeRefs EXCEPT ![k] = new] =>
             Cardinality(Holders(h)') =
               IF h \in new \ envelopeRefs[k] THEN Cardinality(Holders(h)) + 1
               ELSE IF h \in envelopeRefs[k] \ new THEN Cardinality(Holders(h)) - 1
               ELSE Cardinality(Holders(h))
  <1>1. envelopeRefs \in [Keys -> SUBSET Hashes] /\ IsFiniteSet(Keys)
    BY MetaDBAssumption DEF TypeOK
  <1>2. ASSUME \A l \in Keys : envelopeRefs'[l] = IF l = k THEN new ELSE envelopeRefs[l]
        PROVE  Cardinality(Holders(h)') =
                 IF h \in new \ envelopeRefs[k] THEN Cardinality(Holders(h)) + 1
                 ELSE IF h \in envelopeRefs[k] \ new THEN Cardinality(Holders(h)) - 1
                 ELSE Cardinality(Holders(h))
    BY <1>1, <1>2, CountRewritten DEF Holders
  <1> QED
    BY <1>1, <1>2

(* A blob an entry refers to has at least one holder.                      *)
LEMMA HolderCounted ==
    ASSUME NEW k \in Keys, NEW h \in Hashes, h \in envelopeRefs[k]
    PROVE  Cardinality(Holders(h)) > 0
  BY MetaDBAssumption, KeyCounted DEF Holders

(* The diff moves each count with the number of holders, or leaves it      *)
(* below: a row's count after the diff.                                    *)
LEMMA DiffRefsCounts ==
    ASSUME TypeOK, NEW old \in SUBSET Hashes, NEW new \in SUBSET Hashes,
           NEW h \in Hashes
    PROVE  /\ DiffRefs(old, new)[h] = NoRow <=> blobs[h] = NoRow
           /\ blobs[h] # NoRow =>
                /\ blobs[h].RefCount \in Nat
                /\ DiffRefs(old, new)[h].RefCount =
                      IF h \in new \ old THEN blobs[h].RefCount + 1
                      ELSE IF h \in old \ new /\ blobs[h].RefCount > 0
                           THEN blobs[h].RefCount - 1
                           ELSE blobs[h].RefCount
  <1>1. CASE blobs[h] = NoRow
    BY <1>1 DEF DiffRefs, IncrementRef, DecrementRef
  <1>2. CASE blobs[h] # NoRow
    <2>1. blobs[h] \in BlobEntry
      BY <1>2 DEF TypeOK
    <2>2. blobs[h].RefCount \in Nat
      BY <2>1 DEF BlobEntry
    <2>3. DiffRefs(old, new)[h] = IF h \in new \ old THEN IncrementRef(blobs[h])
                                  ELSE IF h \in old \ new THEN DecrementRef(blobs[h])
                                  ELSE blobs[h]
      BY DEF DiffRefs
    <2> QED
      BY <1>2, <2>1, <2>2, <2>3, RefStepCounts
  <1> QED
    BY <1>1, <1>2

(* One row, before and after a diff of one key's references: the count     *)
(* rises only with the number of references, and falls with it.            *)
LEMMA DiffWithinBound ==
    ASSUME TypeOK, NEW old \in SUBSET Hashes, NEW new \in SUBSET Hashes, NEW h \in Hashes,
           NEW before \in Nat, NEW later \in Nat, NEW others \in Nat,
           h \in old => before > 0,
           later = IF h \in new \ old THEN before + 1
                   ELSE IF h \in old \ new THEN before - 1 ELSE before,
           blobs[h] # NoRow => blobs[h].RefCount <= before + others,
           DiffRefs(old, new)[h] # NoRow
    PROVE  DiffRefs(old, new)[h].RefCount <= later + others
  <1>1. blobs[h] # NoRow /\ blobs[h].RefCount \in Nat
    BY DiffRefsCounts
  <1>2. DiffRefs(old, new)[h].RefCount =
          IF h \in new \ old THEN blobs[h].RefCount + 1
          ELSE IF h \in old \ new /\ blobs[h].RefCount > 0 THEN blobs[h].RefCount - 1
          ELSE blobs[h].RefCount
    BY <1>1, DiffRefsCounts
  <1> HIDE DEF DiffRefs
  <1> QED
    BY <1>1, <1>2

(* A diff for one key preserves the bound.                                 *)
LEMMA DiffKeepsBound ==
    ASSUME TypeOK, NeverOverPinned, NEW k \in Keys, NEW new \in SUBSET Hashes,
           blobs' = DiffRefs(envelopeRefs[k], new),
           envelopeRefs' = [envelopeRefs EXCEPT ![k] = new]
    PROVE  NeverOverPinned'
  <1> SUFFICES ASSUME NEW h \in Hashes, HasRow(h)'
               PROVE  blobs'[h].RefCount <= Cardinality(Holders(h)')
    BY DEF NeverOverPinned
  <1> DEFINE before == Cardinality(Holders(h))
             later == Cardinality(Holders(h)')
  <1>1. envelopeRefs[k] \in SUBSET Hashes
    BY DEF TypeOK
  <1>2. before \in Nat /\ (h \in envelopeRefs[k] => before > 0)
    BY HoldersFinite, HolderCounted
  <1>3. later = IF h \in new \ envelopeRefs[k] THEN before + 1
                ELSE IF h \in envelopeRefs[k] \ new THEN before - 1 ELSE before
    BY HoldersRewritten
  <1>4. later \in Nat
    BY <1>2, <1>3
  <1>5. blobs[h] # NoRow => blobs[h].RefCount <= before + 0
    BY <1>2 DEF NeverOverPinned, HasRow, TypeOK, BlobEntry
  <1>6. DiffRefs(envelopeRefs[k], new)[h] # NoRow
    BY DEF HasRow
  <1> HIDE DEF before, later
  <1>7. DiffRefs(envelopeRefs[k], new)[h].RefCount <= later + 0
    BY <1>1, <1>2, <1>3, <1>4, <1>5, <1>6, DiffWithinBound
  <1>8. later + 0 = later
    BY <1>4
  <1> QED
    BY <1>7, <1>8 DEF later

(* Each effect keeps every count within the number of references.         *)
LEMMA BoundKept ==
    ASSUME TypeOK, NeverOverPinned, DbChange
    PROVE  NeverOverPinned'
  <1>1. CASE RowChange
    <2>1. PICK h \in Hashes, row \in Row :
               /\ blobs' = [blobs EXCEPT ![h] = row]
               /\ row # NoRow /\ (blobs[h] = NoRow \/ row.RefCount # blobs[h].RefCount)
                    => row.RefCount = 0
               /\ envelopeRefs' = envelopeRefs
      BY <1>1 DEF RowChange
    <2> SUFFICES ASSUME NEW g \in Hashes, HasRow(g)'
                 PROVE  blobs'[g].RefCount <= Cardinality(Holders(g)')
      BY DEF NeverOverPinned
    <2>2. Holders(g)' = Holders(g)
      BY <2>1 DEF Holders
    <2>3. CASE g = h
      BY <2>1, <2>2, <2>3, HoldersFinite DEF HasRow, TypeOK, NeverOverPinned
    <2>4. CASE g # h
      BY <2>1, <2>2, <2>4 DEF HasRow, TypeOK, NeverOverPinned
    <2> QED
      BY <2>3, <2>4
  <1>2. CASE EnvelopeStored
    <2>1. PICK k \in Keys, env \in MetadataEnvelope : StoreEnvelope(k, env)
      BY <1>2 DEF EnvelopeStored
    <2>2. env.BlobRefs \in SUBSET Hashes
      BY DEF MetadataEnvelope
    <2> QED
      BY <2>1, <2>2, DiffKeepsBound DEF StoreEnvelope
  <1>3. CASE EnvelopeRemoved
    BY <1>3, DiffKeepsBound DEF EnvelopeRemoved, RemoveEnvelope
  <1>4. CASE UNCHANGED dbVars
    BY <1>4 DEF dbVars, NeverOverPinned, HasRow, Holders
  <1> QED
    BY <1>1, <1>2, <1>3, <1>4 DEF DbChange

(* No interleaving of puts, deletes, touches, envelope writes and reaps    *)
(* makes a reference count exceed the number of entries that refer to the  *)
(* blob, although rows are overwritten and recreated under live references. *)
THEOREM NotOverPinned == Spec => []NeverOverPinned
  <1>1. Init => NeverOverPinned
    BY DEF Init, NeverOverPinned, HasRow
  <1>2. TypeOK /\ NeverOverPinned /\ [Next]_vars => NeverOverPinned'
    BY DbEffect, BoundKept
  <1> QED
    BY <1>1, <1>2, TypeCorrect, PTL DEF Spec
-----------------------------------------------------------------------------
(* Whatever happened since the batch was read, its entries name expiry     *)
(* times that have passed.                                                 *)
BatchExpired == \A e \in expired : e[1] # NoExpiry /\ e[1] < now

LEMMA BatchKept ==
    ASSUME TypeOK, ExpiryIndexesExact, BatchExpired, ReaperChange
    PROVE  BatchExpired'
  <1> SUFFICES ASSUME NEW e \in expired' PROVE e[1] # NoExpiry /\ e[1] < now'
    BY DEF BatchExpired
  <1>1. e \in expired \/ e \in ExpiredEntries
    BY DEF ReaperChange
  <1>2. e[1] # NoExpiry /\ e[1] < now
    BY <1>1 DEF BatchExpired, ExpiredEntries, ExpiryIndexesExact
  <1>3. e \in ExpiryEntry
    BY <1>1 DEF TypeOK, ExpiredEntries
  <1>4. e[1] \in Int /\ now \in Int /\ now' \in Int /\ now <= now'
    BY <1>3, MetaDBAssumption DEF ReaperChange, ExpiryEntry, Time, TypeOK
  <1> QED
    BY <1>2, <1>4

LEMMA BatchStaysExpired == Spec => []BatchExpired
  <1>1. Init => BatchExpired
    BY DEF Init, BatchExpired
  <1>2. TypeOK /\ ExpiryIndexesExact /\ BatchExpired /\ [Next]_vars => BatchExpired'
    BY ReaperEffect, BatchKept
  <1> QED
    BY <1>1, <1>2, TypeCorrect, IndexesExact, PTL DEF Spec

(* What a step of the database removes with an entry of the batch has      *)
(* expired.                                                                *)
ReapStep ==
    \A k \in Keys :
      expired' # expired /\ HasEnvelope(k) /\ envelopes'[k] = NoEnvelope
        => envelopes[k].ExpiresAt # NoExpiry /\ envelopes[k].ExpiresAt < now

LEMMA ReapedHadExpired ==
    ASSUME TypeOK, ExpiryIndexesExact, BatchExpired, Next
    PROVE  ReapStep
  <1> SUFFICES ASSUME NEW k \in Keys, expired' # expired, HasEnvelope(k),
                      envelopes'[k] = NoEnvelope
               PROVE  envelopes[k].ExpiresAt # NoExpiry /\ envelopes[k].ExpiresAt < now
    BY DEF ReapStep
  <1>1. ~(BlobNext \/ EnvelopeNext \/ Tick)
    <2>1. ~BlobNext
      BY DEF BlobNext, PutBlob, DeleteBlob, TouchBlob
    <2>2. ~EnvelopeNext
      BY Zenon DEF EnvelopeNext, PutEnvelope, UpdateEnvelope, DeleteEnvelope
    <2>3. ~Tick
      BY DEF Tick
    <2> QED
      BY <2>1, <2>2, <2>3
  <1>2. PICK e \in ExpiryEntry : DeleteExpiredEnvelope(e)
    BY <1>1 DEF Next, ReaperNext, GetExpiredEnvelopes, SkipExpiredEnvelope,
                AbandonBatch, HasEnvelope
  <1>3. expiryByKey[e[2]] = e[1] /\ RemoveEnvelope(e[2])
    BY <1>2 DEF DeleteExpiredEnvelope, dbVars, HasEnvelope
  <1>4. k = e[2]
    BY <1>3 DEF RemoveEnvelope, HasEnvelope, TypeOK
  <1>5. envelopes[k].ExpiresAt = e[1]
    BY <1>3, <1>4 DEF ExpiryIndexesExact, ExpiryOf
  <1> QED
    BY <1>2, <1>5 DEF DeleteExpiredEnvelope, BatchExpired

(* The reaper never deletes an envelope that a request has refreshed since *)
(* the batch was read: what it deletes has expired at that moment.         *)
THEOREM ReapsOnlyExpired == Spec => ReapOnlyExpired
  <1>1. TypeOK /\ ExpiryIndexesExact /\ BatchExpired /\ [Next]_vars => [ReapStep]_vars
    BY ReapedHadExpired
  <1> QED
    BY <1>1, TypeCorrect, IndexesExact, BatchStaysExpired, PTL
       DEF Spec, ReapOnlyExpired, ReapStep
-----------------------------------------------------------------------------
(* Callers that keep the order.                                            *)
LEMMA OrderedIsNext == ASSUME OrderedNext PROVE Next
  <1>1. ASSUME NEW h \in Hashes, PutBlobOnce(h) \/ DeleteBlobUnreferenced(h) \/ TouchBlob(h)
        PROVE  BlobNext
    BY <1>1 DEF PutBlobOnce, DeleteBlobUnreferenced, BlobNext
  <1>2. ASSUME NEW k \in Keys, NEW refs \in SUBSET Tracked, NEW t \in Expiries,
               PutEnvelope(k, refs, t)
        PROVE  EnvelopeNext
    BY <1>2 DEF EnvelopeNext, Tracked
  <1>3. ASSUME NEW k \in Keys, NEW refs \in SUBSET Tracked, NEW t \in Time,
               UpdateEnvelope(k, refs, t)
        PROVE  EnvelopeNext
    BY <1>3 DEF EnvelopeNext, Tracked
  <1>4. ASSUME NEW k \in Keys, DeleteEnvelope(k) PROVE EnvelopeNext
    BY <1>4 DEF EnvelopeNext
  <1> QED
    BY <1>1, <1>2, <1>3, <1>4 DEF OrderedNext, Next

LEMMA OrderedTypeCorrect == OrderedSpec => []TypeOK
  <1>1. OrderedSpec => Spec
    <2>1. [OrderedNext]_vars => [Next]_vars
      BY OrderedIsNext
    <2> QED
      BY <2>1, PTL DEF OrderedSpec, Spec
  <1> QED
    BY <1>1, TypeCorrect, PTL

(* What an ordered step does to the buckets, with the order's conditions.  *)
OrderedRowChange == \E h \in Hashes :
    /\ UNCHANGED envelopeRefs
    /\ \/ blobs[h] = NoRow /\ \E row \in BlobEntry :
             row.RefCount = 0 /\ blobs' = [blobs EXCEPT ![h] = row]
       \/ /\ blobs[h] # NoRow /\ blobs[h].RefCount = 0
          /\ blobs' = [blobs EXCEPT ![h] = NoRow]
       \/ blobs[h] # NoRow /\ \E row \in BlobEntry :
             row.RefCount = blobs[h].RefCount /\ blobs' = [blobs EXCEPT ![h] = row]

OrderedRefChange == \E k \in Keys, new \in SUBSET Tracked :
    /\ blobs' = DiffRefs(envelopeRefs[k], new)
    /\ envelopeRefs' = [envelopeRefs EXCEPT ![k] = new]

LEMMA OrderedEffect ==
    ASSUME TypeOK, [OrderedNext]_vars
    PROVE  OrderedRowChange \/ OrderedRefChange \/ UNCHANGED <<blobs, envelopeRefs>>
  <1>1. ASSUME NEW h \in Hashes, PutBlobOnce(h) PROVE OrderedRowChange
    <2>1. [RefCount |-> 0, LastAccess |-> now] \in BlobEntry
      BY DEF BlobEntry, TypeOK
    <2> QED
      BY <1>1, <2>1 DEF PutBlobOnce, PutBlob, HasRow, OrderedRowChange
  <1>2. ASSUME NEW h \in Hashes, DeleteBlobUnreferenced(h) PROVE OrderedRowChange
    BY <1>2 DEF DeleteBlobUnreferenced, DeleteBlob, HasRow, OrderedRowChange
  <1>3. ASSUME NEW h \in Hashes, TouchBlob(h) PROVE OrderedRowChange
    <2> DEFINE row == [blobs[h] EXCEPT !.LastAccess = now]
    <2>1. blobs[h] # NoRow /\ blobs[h] \in BlobEntry
      BY <1>3 DEF TouchBlob, HasRow, TypeOK
    <2>2. row \in BlobEntry /\ row.RefCount = blobs[h].RefCount
      BY <2>1 DEF BlobEntry, TypeOK
    <2>3. blobs' = [blobs EXCEPT ![h] = row] /\ UNCHANGED envelopeRefs
      BY <1>3 DEF TouchBlob
    <2> HIDE DEF row
    <2> QED
      BY <2>1, <2>2, <2>3 DEF OrderedRowChange
  <1>4. ASSUME NEW k \in Keys, NEW refs \in SUBSET Tracked, NEW t \in Expiries,
               PutEnvelope(k, refs, t)
        PROVE  OrderedRefChange
    BY <1>4 DEF PutEnvelope, StoreEnvelope, OrderedRefChange
  <1>5. ASSUME NEW k \in Keys, NEW refs \in SUBSET Tracked, NEW t \in Time,
               UpdateEnvelope(k, refs, t)
        PROVE  OrderedRefChange
    BY <1>5 DEF UpdateEnvelope, StoreEnvelope, OrderedRefChange
  <1>6. ASSUME NEW k \in Keys, RemoveEnvelope(k) PROVE OrderedRefChange
    BY <1>6 DEF RemoveEnvelope, OrderedRefChange
  <1>7. CASE ReaperNext
    BY <1>6, <1>7 DEF ReaperNext, GetExpiredEnvelopes, DeleteExpiredEnvelope,
                      SkipExpiredEnvelope, AbandonBatch, dbVars, ExpiryEntry
  <1>8. CASE Tick \/ UNCHANGED vars
    BY <1>8 DEF Tick, vars
  <1> QED
    BY <1>1, <1>2, <1>3, <1>4, <1>5, <1>6, <1>7, <1>8 DEF OrderedNext, DeleteEnvelope

(* With exact counts, a diff to blobs that have rows keeps them exact.     *)
LEMMA DiffKeepsExact ==
    ASSUME TypeOK, RefCountExact, NEW k \in Keys, NEW new \in SUBSET Tracked,
           blobs' = DiffRefs(envelopeRefs[k], new),
           envelopeRefs' = [envelopeRefs EXCEPT ![k] = new]
    PROVE  RefCountExact' /\ Tracked' = Tracked
  <1>0. envelopeRefs[k] \in SUBSET Hashes /\ new \in SUBSET Hashes
    BY DEF TypeOK, Tracked
  <1>1. \A h \in Hashes : HasRow(h)' <=> HasRow(h)
    BY <1>0, DiffRefsCounts DEF HasRow
  <1>2. Tracked' = Tracked
    BY <1>1 DEF Tracked
  <1>3. ASSUME NEW h \in Hashes
        PROVE  /\ HasRow(h)' => blobs'[h].RefCount = Cardinality(Holders(h)')
               /\ ~HasRow(h)' => Holders(h)' = {}
    <2>1. CASE HasRow(h)
      <3>1. blobs[h].RefCount = Cardinality(Holders(h)) /\ blobs[h].RefCount \in Nat
        BY <1>0, <2>1, DiffRefsCounts DEF RefCountExact, HasRow
      <3>2. h \in envelopeRefs[k] => Cardinality(Holders(h)) > 0
        BY HolderCounted
      <3>3. blobs'[h].RefCount = IF h \in new \ envelopeRefs[k] THEN blobs[h].RefCount + 1
                               ELSE IF h \in envelopeRefs[k] \ new /\ blobs[h].RefCount > 0
                                    THEN blobs[h].RefCount - 1
                                    ELSE blobs[h].RefCount
        BY <1>0, <2>1, DiffRefsCounts DEF HasRow
      <3>4. Cardinality(Holders(h)') =
                 IF h \in new \ envelopeRefs[k] THEN Cardinality(Holders(h)) + 1
                 ELSE IF h \in envelopeRefs[k] \ new THEN Cardinality(Holders(h)) - 1
                 ELSE Cardinality(Holders(h))
        BY <1>0, HoldersRewritten
      <3> QED
        BY <1>1, <2>1, <3>1, <3>2, <3>3, <3>4
    <2>2. CASE ~HasRow(h)
      <3>1. Holders(h) = {} /\ h \notin new
        BY <2>2 DEF RefCountExact, Tracked
      <3>2. Holders(h)' = {}
        BY <3>1 DEF Holders, TypeOK
      <3> QED
        BY <1>1, <2>2, <3>2
    <2> QED
      BY <2>1, <2>2
  <1> QED
    BY <1>2, <1>3 DEF RefCountExact

(* A step in that order keeps the counts exact.                            *)
LEMMA ExactKept ==
    ASSUME TypeOK, RefCountExact, [OrderedNext]_vars
    PROVE  RefCountExact'
  <1>1. CASE OrderedRowChange
    <2> SUFFICES ASSUME NEW g \in Hashes
                 PROVE  /\ HasRow(g)' => blobs'[g].RefCount = Cardinality(Holders(g)')
                        /\ ~HasRow(g)' => Holders(g)' = {}
      BY DEF RefCountExact
    <2>1. PICK h \in Hashes :
            /\ envelopeRefs' = envelopeRefs
            /\ \/ blobs[h] = NoRow /\ \E row \in BlobEntry :
                     row.RefCount = 0 /\ blobs' = [blobs EXCEPT ![h] = row]
               \/ /\ blobs[h] # NoRow /\ blobs[h].RefCount = 0
                  /\ blobs' = [blobs EXCEPT ![h] = NoRow]
               \/ blobs[h] # NoRow /\ \E row \in BlobEntry :
                     row.RefCount = blobs[h].RefCount /\ blobs' = [blobs EXCEPT ![h] = row]
      BY <1>1 DEF OrderedRowChange
    <2>2. Holders(g)' = Holders(g)
      BY <2>1 DEF Holders
    <2>3. Cardinality({}) = 0 /\ (Cardinality(Holders(g)) = 0 <=> Holders(g) = {})
      BY HoldersFinite, FS_EmptySet
    <2>4. CASE g = h
      BY <2>1, <2>2, <2>3, <2>4, MetaDBAssumption DEF HasRow, TypeOK, RefCountExact
    <2>5. CASE g # h
      BY <2>1, <2>2, <2>5 DEF HasRow, TypeOK, RefCountExact
    <2> QED
      BY <2>4, <2>5
  <1>2. CASE OrderedRefChange
    BY <1>2, DiffKeepsExact DEF OrderedRefChange
  <1>3. CASE UNCHANGED <<blobs, envelopeRefs>>
    BY <1>3 DEF RefCountExact, HasRow, Holders
  <1> QED
    BY <1>1, <1>2, <1>3, OrderedEffect

(* As long as rows are put once, deleted at count zero and referenced only *)
(* while they exist, every count is the number of entries that refer to    *)
(* the blob, and a blob without a row is referenced by none.               *)
THEOREM CountsExact == OrderedSpec => []RefCountExact
  <1>1. Init => RefCountExact
    BY DEF Init, RefCountExact, HasRow, Holders
  <1>2. TypeOK /\ RefCountExact /\ [OrderedNext]_vars => RefCountExact'
    BY ExactKept
  <1> QED
    BY <1>1, <1>2, OrderedTypeCorrect, PTL DEF OrderedSpec

(* Under the same order the counters implement the table of pins: a blob   *)
(* is forgotten only while no entry pins it.                               *)
THEOREM OrderedImplementsPinTable == OrderedSpec => ImplementsPinTable
  <1>1. Init => Pins!Init
    BY DEF Init, Pins!Init, Tracked, HasRow
  <1>2. TypeOK /\ RefCountExact /\ [OrderedNext]_vars => [Pins!Next]_(Pins!vars)
    <2> SUFFICES ASSUME TypeOK, RefCountExact, [OrderedNext]_vars
                 PROVE  Pins!Next \/ UNCHANGED Pins!vars
      OBVIOUS
    <2>1. CASE OrderedRowChange
      <3>1. PICK h \in Hashes :
              /\ envelopeRefs' = envelopeRefs
              /\ \/ blobs[h] = NoRow /\ \E row \in BlobEntry :
                       row.RefCount = 0 /\ blobs' = [blobs EXCEPT ![h] = row]
                 \/ /\ blobs[h] # NoRow /\ blobs[h].RefCount = 0
                    /\ blobs' = [blobs EXCEPT ![h] = NoRow]
                 \/ blobs[h] # NoRow /\ \E row \in BlobEntry :
                       row.RefCount = blobs[h].RefCount /\ blobs' = [blobs EXCEPT ![h] = row]
        BY <2>1 DEF OrderedRowChange
      <3>2. ASSUME NEW row \in BlobEntry, blobs' = [blobs EXCEPT ![h] = row]
            PROVE  Tracked' = Tracked \cup {h}
        BY <3>2, MetaDBAssumption DEF Tracked, HasRow, TypeOK
      <3>3. ASSUME blobs[h] # NoRow, blobs[h].RefCount = 0,
                   blobs' = [blobs EXCEPT ![h] = NoRow]
            PROVE  Pins!Forget(h)
        <4>1. Tracked' = Tracked \ {h}
          BY <3>3 DEF Tracked, HasRow, TypeOK
        <4>2. Holders(h) = {}
          BY <3>3, HoldersFinite, FS_EmptySet DEF RefCountExact, HasRow
        <4> QED
          BY <3>1, <4>1, <4>2 DEF Pins!Forget, Pins!Pinned, Holders
      <3> QED
        BY <3>1, <3>2, <3>3 DEF Pins!Next, Pins!Track
    <2>2. CASE OrderedRefChange
      <3>1. PICK k \in Keys, new \in SUBSET Tracked :
              /\ blobs' = DiffRefs(envelopeRefs[k], new)
              /\ envelopeRefs' = [envelopeRefs EXCEPT ![k] = new]
        BY <2>2 DEF OrderedRefChange
      <3>2. Tracked' = Tracked
        BY <3>1, DiffKeepsExact
      <3>3. Pins!SetPins(k, new)
        BY <3>1, <3>2 DEF Pins!SetPins
      <3> QED
        BY <3>3 DEF Pins!Next, Tracked
    <2>3. CASE UNCHANGED <<blobs, envelopeRefs>>
      BY <2>3 DEF Pins!vars, Tracked, HasRow
    <2> QED
      BY <2>1, <2>2, <2>3, OrderedEffect
  <1> QED
    BY <1>1, <1>2, OrderedTypeCorrect, CountsExact, PTL
       DEF OrderedSpec, ImplementsPinTable, Pins!Spec

(* What a call made by a request, a collector or the reaper is to MetaDB.  *)
LEMMA CacheStepIsNext ==
    ASSUME CacheTypeOK, [CacheNext]_cacheVars
    PROVE  [Next]_vars \/ RewriteRow
  <1>1. ASSUME NEW h \in Hashes, PutBlob(h) \/ DeleteBlob(h) \/ TouchBlob(h)
        PROVE  Next
    BY <1>1 DEF Next, BlobNext
  <1>2. ASSUME NEW w \in Writers, writers[w] # Idle
        PROVE  writers[w].hash \in Hashes /\ writers[w].key \in Keys
    BY <1>2 DEF CacheTypeOK, WriterState
  <1>3. CASE WriterNext
    <2> SUFFICES ASSUME NEW w \in Writers,
                        \/ \E h \in Hashes, k \in Keys : CheckExists(w, h, k)
                        \/ TouchExisting(w) \/ PutRow(w) \/ WriteFile(w)
                        \/ WriteFails(w) \/ Cleanup(w)
                        \/ \E refs \in SUBSET Hashes, t \in Time : PutIndex(w, refs, t)
                        \/ RequestFails(w)
                 PROVE  [Next]_vars
      BY <1>3 DEF WriterNext
    <2>1. CASE TouchExisting(w) \/ PutRow(w) \/ Cleanup(w)
      BY <1>1, <1>2, <2>1 DEF TouchExisting, PutRow, Cleanup, Idle
    <2>2. ASSUME NEW refs \in SUBSET Hashes, NEW t \in Time, PutIndex(w, refs, t)
          PROVE  Next
      <3>1. writers[w].key \in Keys /\ t \in Expiries /\ PutEnvelope(writers[w].key, refs, t)
        BY <1>2, <2>2 DEF PutIndex, Idle
      <3> QED
        BY <3>1 DEF Next, EnvelopeNext
    <2> QED
      BY <2>1, <2>2 DEF CheckExists, Exists, WriteFile, WriteFails, RequestFails
  <1>4. CASE ReaderNext
    <2>1. ASSUME DropEntry PROVE Next
      <3>1. reader.key \in Keys /\ DeleteEnvelope(reader.key)
        BY <2>1 DEF DropEntry, CacheTypeOK, ReaderState, Idle
      <3> QED
        BY <3>1 DEF Next, EnvelopeNext
    <2> QED
      BY <1>1, <1>4, <2>1 DEF ReaderNext, ServeBlob, MissBlob
  <1>5. CASE EvictorNext
    <2>1. ASSUME EvictRow PROVE Next
      BY <1>1, <2>1 DEF EvictRow, CacheTypeOK, EvictorState, Idle
    <2> QED
      BY <1>5, <2>1 DEF EvictorNext, SelectVictim, ReadRow, EvictFile, Remove, EvictFails
  <1>6. CASE GCStep \/ GCFault
    <2>1. ASSUME CollectRow PROVE Next
      BY <1>1, <2>1 DEF CollectRow, CacheTypeOK, GCState, Idle
    <2> QED
      BY <1>6, <2>1 DEF GCStep, GCFault, StartGC, CollectFile, Remove, CheckOrphan, ListFiles,
                        DeleteOrphan, EndGC, CollectFails, OrphanFails
  <1>7. CASE Crash
    <2>1. AbandonBatch \/ UNCHANGED vars
      BY <1>7 DEF Crash, AbandonBatch, vars, dbVars
    <2> QED
      BY <2>1 DEF Next, ReaperNext
  <1>8. CASE Reap \/ Clock \/ UNCHANGED cacheVars
    BY <1>8 DEF Reap, Clock, Next, cacheVars
  <1> QED
    BY <1>3, <1>4, <1>5, <1>6, <1>7, <1>8 DEF CacheNext
-----------------------------------------------------------------------------
(* The second chance writes back a row that had no references when read.   *)
StaleRowUncounted == evictor.pc = "rewrite" => evictor.row.RefCount = 0

CacheInv == TypeOK /\ CacheTypeOK /\ StaleRowUncounted

(* Each step changes the database in one of the ways DbEffect knows.       *)
LEMMA CacheEffect ==
    ASSUME CacheInv, [CacheNext]_cacheVars
    PROVE  DbChange /\ ReaperChange
  <1> USE DEF CacheInv
  <1>1. CASE [Next]_vars
    BY <1>1, DbEffect, ReaperEffect
  <1>2. CASE RewriteRow
    <2>1. /\ evictor.hash \in Hashes /\ evictor.row \in BlobEntry
          /\ evictor.row.RefCount = 0
      BY <1>2 DEF RewriteRow, CacheTypeOK, EvictorState, StaleRowUncounted, Idle
    <2>2. RowChange
      BY <1>2, <2>1 DEF RewriteRow, RowChange, Row
    <2>3. ReaperChange
      BY <1>2, MetaDBAssumption DEF RewriteRow, ReaperChange, TypeOK, Time
    <2> QED
      BY <2>2, <2>3 DEF DbChange
  <1> QED
    BY <1>1, <1>2, CacheStepIsNext

(* The processes keep their shape.                                         *)
LEMMA ProcessesKept ==
    ASSUME CacheInv, [CacheNext]_cacheVars
    PROVE  CacheTypeOK' /\ StaleRowUncounted'
  <1> USE DEF CacheInv
  <1>0. /\ files \subseteq Hashes /\ writers \in [Writers -> WriterState]
        /\ reader \in ReaderState /\ evictor \in EvictorState /\ gc \in GCState
        /\ gc.pc \in {"row", "orphan"} => gc.hash \notin gc.todo
        /\ faults \in 0..MaxFaults
    BY DEF CacheTypeOK
  <1>1. Fault => faults' \in 0..MaxFaults
    BY <1>0, CacheStoreAssumption DEF Fault
  <1>2. CASE WriterNext
    <2> SUFFICES ASSUME NEW w \in Writers,
                        \/ \E h \in Hashes, k \in Keys : CheckExists(w, h, k)
                        \/ TouchExisting(w) \/ PutRow(w) \/ WriteFile(w)
                        \/ WriteFails(w) \/ Cleanup(w)
                        \/ \E refs \in SUBSET Hashes, t \in Time : PutIndex(w, refs, t)
                        \/ RequestFails(w)
                 PROVE  CacheTypeOK' /\ StaleRowUncounted'
      BY <1>2 DEF WriterNext
    <2>1. UNCHANGED <<reader, evictor, gc>>
      BY DEF CheckExists, Exists, TouchExisting, PutRow, WriteFile, WriteFails, Cleanup, PutIndex,
             RequestFails
    <2>2. writers[w] # Idle =>
            /\ writers[w].hash \in Hashes
            /\ \A pc \in {"file", "index", "cleanup"} :
                  [writers[w] EXCEPT !.pc = pc] \in WriterState
      BY <1>0 DEF WriterState
    <2>3. writers' \in [Writers -> WriterState]
      <3>1. Idle \in WriterState
        BY DEF WriterState
      <3>2. ASSUME NEW pc \in {"file", "index", "cleanup"}, Goto(w, pc), writers[w] # Idle
            PROVE  writers' \in [Writers -> WriterState]
        BY <1>0, <2>2, <3>2 DEF Goto
      <3>3. ASSUME Done(w) PROVE writers' \in [Writers -> WriterState]
        BY <1>0, <3>1, <3>3 DEF Done
      <3>4. ASSUME NEW h \in Hashes, NEW k \in Keys, CheckExists(w, h, k)
            PROVE  writers' \in [Writers -> WriterState]
        BY <1>0, <3>4 DEF CheckExists, Exists, WriterState
      <3> QED
        BY <3>2, <3>3, <3>4 DEF TouchExisting, PutRow, WriteFile, WriteFails, Cleanup,
                                PutIndex, RequestFails, Idle
    <2>4. files' \subseteq Hashes
      BY <1>0, <2>2 DEF CheckExists, Exists, TouchExisting, PutRow, WriteFile, Write, WriteFails,
                        Cleanup, PutIndex, RequestFails, Idle
    <2>5. faults' \in 0..MaxFaults
      BY <1>0, <1>1 DEF CheckExists, Exists, TouchExisting, PutRow, WriteFile, WriteFails, Cleanup,
                        PutIndex, RequestFails
    <2> QED
      BY <1>0, <2>1, <2>3, <2>4, <2>5 DEF CacheTypeOK, StaleRowUncounted
  <1>3. CASE ReaderNext
    <2>1. UNCHANGED <<files, writers, evictor, gc, faults>> /\ reader' \in ReaderState
      BY <1>0, <1>3 DEF ReaderNext, ServeBlob, MissBlob, DropEntry, ReaderState, procs
    <2> QED
      BY <1>0, <2>1 DEF CacheTypeOK, StaleRowUncounted
  <1>4. CASE EvictorNext
    <2>1. UNCHANGED <<writers, reader, gc>> /\ files' \subseteq Hashes
      BY <1>0, <1>4 DEF EvictorNext, SelectVictim, ReadRow, EvictFile, Remove, EvictRow, EvictFails,
                        RewriteRow
    <2>2. evictor' \in EvictorState /\ StaleRowUncounted'
      <3>1. ASSUME NEW h \in Hashes, SelectVictim(h) \/ ReadRow(h)
            PROVE  evictor' \in EvictorState /\ StaleRowUncounted'
        BY <3>1 DEF SelectVictim, ReadRow, Evictable, HasRow, TypeOK, EvictorState,
                    StaleRowUncounted
      <3>2. ASSUME EvictFile PROVE evictor' \in EvictorState /\ StaleRowUncounted'
        BY <1>0, <3>2 DEF EvictFile, Remove, EvictorState, StaleRowUncounted, Idle
      <3>3. ASSUME EvictRow \/ EvictFails \/ RewriteRow
            PROVE  evictor' \in EvictorState /\ StaleRowUncounted'
        BY <3>3 DEF EvictRow, EvictFails, RewriteRow, EvictorState, StaleRowUncounted, Idle
      <3> QED
        BY <1>4, <3>1, <3>2, <3>3 DEF EvictorNext
    <2>3. faults' \in 0..MaxFaults
      BY <1>0, <1>1, <1>4 DEF EvictorNext, SelectVictim, ReadRow, EvictFile, Remove,
           EvictRow, EvictFails, RewriteRow
    <2> QED
      BY <1>0, <2>1, <2>2, <2>3 DEF CacheTypeOK
  <1>5. CASE GCStep \/ GCFault
    <2>1. UNCHANGED <<writers, reader, evictor>> /\ files' \subseteq Hashes
      BY <1>0, <1>5 DEF GCStep, GCFault, StartGC, CollectFile, Remove, CheckOrphan, ListFiles,
                        DeleteOrphan, EndGC, CollectFails, OrphanFails, CollectRow
    <2>2. faults' \in 0..MaxFaults
      BY <1>0, <1>1, <1>5 DEF GCStep, GCFault, StartGC, CollectFile, Remove, CheckOrphan, ListFiles,
                              DeleteOrphan, EndGC, CollectFails, OrphanFails, CollectRow
    <2>3. gc' \in GCState /\ (gc'.pc \in {"row", "orphan"} => gc'.hash \notin gc'.todo)
      <3>1. ASSUME NEW batch \in SUBSET Hashes, StartGC(batch)
            PROVE  gc' \in GCState /\ gc'.pc = "batch"
        BY <3>1 DEF StartGC, GCState
      <3>2. ASSUME NEW h \in Hashes, CollectFile(h)
            PROVE  gc' \in GCState /\ gc'.hash \notin gc'.todo
        BY <1>0, <3>2 DEF CollectFile, Remove, GCState, Idle
      <3>3. ASSUME CollectRow \/ ListFiles PROVE gc' \in GCState /\ gc'.pc \in {"batch", "orphans"}
        BY <1>0, <3>3, CacheStoreAssumption DEF CollectRow, ListFiles, List, GCState, Idle
      <3>4. ASSUME NEW h \in Hashes, CheckOrphan(h)
            PROVE  gc' \in GCState /\ (gc'.pc # "orphans" => gc'.hash \notin gc'.todo)
        BY <1>0, <3>4, CacheStoreAssumption DEF CheckOrphan, Checking, GCState, Idle
      <3>5. ASSUME DeleteOrphan PROVE gc' \in GCState /\ gc'.pc = "orphans"
        BY <1>0, <3>5, CacheStoreAssumption DEF DeleteOrphan, Remove, GCState, Idle
      <3>6. ASSUME EndGC PROVE gc' \in GCState /\ gc'.pc = "idle"
        BY <3>6 DEF EndGC, GCState, Idle
      <3>7. ASSUME NEW h \in Hashes, CollectFails(h) \/ OrphanFails(h)
            PROVE  gc' \in GCState /\ gc'.pc \in {"batch", "orphans"}
        BY <1>0, <3>7, CacheStoreAssumption
           DEF CollectFails, OrphanFails, Checking, GCState, Idle
      <3> QED
        BY <1>5, <3>1, <3>2, <3>3, <3>4, <3>5, <3>6, <3>7 DEF GCStep, GCFault
    <2> QED
      BY <1>0, <2>1, <2>2, <2>3 DEF CacheTypeOK, StaleRowUncounted
  <1>6. CASE Crash
    BY <1>0, <1>1, <1>6 DEF Crash, CacheTypeOK, StaleRowUncounted, WriterState, ReaderState,
                            EvictorState, GCState, Idle
  <1>7. CASE Reap \/ Clock \/ UNCHANGED cacheVars
    BY <1>0, <1>7 DEF Reap, Clock, cacheVars, procs, CacheTypeOK, StaleRowUncounted
  <1> QED
    BY <1>2, <1>3, <1>4, <1>5, <1>6, <1>7 DEF CacheNext

LEMMA CacheInitially == ASSUME CacheInit PROVE CacheInv
  <1>1. TypeOK
    BY MetaDBAssumption DEF CacheInit, Init, TypeOK, Time, NoExpiry
  <1>2. CacheTypeOK /\ StaleRowUncounted
    BY CacheStoreAssumption DEF CacheInit, CacheTypeOK, StaleRowUncounted, WriterState,
       ReaderState, EvictorState, GCState, Idle
  <1> QED
    BY <1>1, <1>2 DEF CacheInv

LEMMA CacheInvariant == CacheSpec => []CacheInv
  <1>1. CacheInit => CacheInv
    BY CacheInitially
  <1>2. CacheInv /\ [CacheNext]_cacheVars => CacheInv'
    BY CacheEffect, TypeKept, ProcessesKept DEF CacheInv
  <1> QED
    BY <1>1, <1>2, PTL DEF CacheSpec

(* The database and the processes beside it keep their types.              *)
THEOREM CacheTypeCorrect == CacheSpec => [](TypeOK /\ CacheTypeOK)
  <1>1. CacheInv => TypeOK /\ CacheTypeOK
    BY DEF CacheInv
  <1> QED
    BY <1>1, CacheInvariant, PTL

(* With requests, collector, eviction, reaper and crashes side by side, no *)
(* blob is ever counted more often than envelopes refer to it, and so none *)
(* is kept from collection by a count left over.                           *)
THEOREM CacheNotOverPinned == CacheSpec => []NeverOverPinned
  <1>1. CacheInit => NeverOverPinned
    BY DEF CacheInit, Init, NeverOverPinned, HasRow
  <1>2. CacheInv /\ NeverOverPinned /\ [CacheNext]_cacheVars => NeverOverPinned'
    BY CacheEffect, BoundKept DEF CacheInv
  <1> QED
    BY <1>1, <1>2, CacheInvariant, PTL DEF CacheSpec
-----------------------------------------------------------------------------
(* One request at a time, and nothing else that deletes blobs.             *)
Alone == Collectors = {} /\ \A v, w \in Writers : v = w

\* Where the one request stands, a blob that is not on disk is not referred to.
Standing(w) ==
    LET pc == writers[w].pc  h == writers[w].hash IN
      /\ pc \in {"row", "file", "cleanup"} => h \notin files
      /\ pc \in {"file", "cleanup"} => HasRow(h)
      /\ pc \in {"touch", "index"} => h \in files

AloneInv ==
    /\ CacheInv /\ RefCountExact /\ RowBeforeFile
    /\ evictor = Idle /\ gc = Idle
    /\ \A k \in Keys : envelopeRefs[k] \subseteq files
    /\ \A w \in Writers : Standing(w)

(* A row without a file is counted zero times.                             *)
LEMMA NoFileNoCount ==
    ASSUME AloneInv, NEW h \in Hashes, h \notin files, HasRow(h)
    PROVE  blobs[h].RefCount = 0
  <1>1. Holders(h) = {}
    BY DEF AloneInv, Holders
  <1> QED
    BY <1>1, FS_EmptySet DEF AloneInv, RefCountExact

(* Every step keeps the order: the row is put when there is none (or is    *)
(* the unreferenced one of an earlier attempt), references point to files  *)
(* that have rows, and only a row that nothing refers to is deleted.       *)
LEMMA AloneStep ==
    ASSUME Alone, AloneInv, [CacheNext]_cacheVars
    PROVE  [OrderedNext]_vars
  <1>0. CacheTypeOK /\ TypeOK
    BY DEF AloneInv, CacheInv
  <1>1. ASSUME NEW h \in Hashes, TouchBlob(h) PROVE OrderedNext
    BY <1>1 DEF OrderedNext
  <1>2. CASE WriterNext
    <2> SUFFICES ASSUME NEW w \in Writers,
                        \/ \E h \in Hashes, k \in Keys : CheckExists(w, h, k)
                        \/ TouchExisting(w) \/ PutRow(w) \/ WriteFile(w)
                        \/ WriteFails(w) \/ Cleanup(w)
                        \/ \E refs \in SUBSET Hashes, t \in Time : PutIndex(w, refs, t)
                        \/ RequestFails(w)
                 PROVE  [OrderedNext]_vars
      BY <1>2 DEF WriterNext
    <2> DEFINE h == writers[w].hash
    <2>1. writers[w] # Idle => h \in Hashes /\ writers[w].key \in Keys
      BY <1>0 DEF CacheTypeOK, WriterState
    <2>2. Standing(w)
      BY DEF AloneInv
    <2>3. CASE TouchExisting(w)
      BY <1>1, <2>1, <2>3 DEF TouchExisting, Idle
    <2>4. CASE PutRow(w)
      <3>1. h \in Hashes /\ h \notin files /\ PutBlob(h)
        BY <2>1, <2>2, <2>4 DEF PutRow, Standing, Idle
      <3>2. CASE HasRow(h)
        <4>1. blobs[h] \in BlobEntry /\ blobs[h].RefCount = 0
          BY <1>0, <3>1, <3>2, NoFileNoCount DEF TypeOK, HasRow
        <4>2. [blobs[h] EXCEPT !.LastAccess = now] = [RefCount |-> 0, LastAccess |-> now]
          BY <4>1 DEF BlobEntry
        <4>3. TouchBlob(h)
          BY <1>0, <3>1, <3>2, <4>1, <4>2 DEF PutBlob, TouchBlob, TypeOK
        <4> QED
          BY <1>1, <3>1, <4>3
      <3>3. CASE ~HasRow(h)
        BY <3>1, <3>3 DEF PutBlobOnce, OrderedNext
      <3> QED
        BY <3>2, <3>3
    <2>5. CASE Cleanup(w)
      <3>1. h \in Hashes /\ h \notin files /\ HasRow(h) /\ DeleteBlob(h)
        BY <2>1, <2>2, <2>5 DEF Cleanup, Standing, Idle
      <3> QED
        BY <3>1, NoFileNoCount DEF DeleteBlobUnreferenced, OrderedNext
    <2>6. ASSUME NEW refs \in SUBSET Hashes, NEW t \in Time, PutIndex(w, refs, t)
          PROVE  OrderedNext
      <3>1. /\ writers[w].key \in Keys /\ t \in Expiries
            /\ PutEnvelope(writers[w].key, refs, t) /\ refs \subseteq {h} /\ h \in files
        BY <2>1, <2>2, <2>6 DEF PutIndex, Standing, Idle
      <3>2. refs \in SUBSET Tracked
        BY <1>0, <3>1 DEF AloneInv, RowBeforeFile, Tracked, CacheTypeOK
      <3> QED
        BY <3>1, <3>2 DEF OrderedNext
    <2> QED
      BY <2>3, <2>4, <2>5, <2>6 DEF CheckExists, Exists, WriteFile, WriteFails, RequestFails
  <1>3. CASE ReaderNext
    <2>1. ASSUME DropEntry PROVE OrderedNext
      <3>1. reader.key \in Keys /\ DeleteEnvelope(reader.key)
        BY <1>0, <2>1 DEF DropEntry, CacheTypeOK, ReaderState, Idle
      <3> QED
        BY <3>1 DEF OrderedNext
    <2> QED
      BY <1>1, <1>3, <2>1 DEF ReaderNext, ServeBlob, MissBlob
  <1>4. ~EvictorNext
    BY DEF Alone, AloneInv, EvictorNext, SelectVictim, ReadRow, Evictable, EvictFile, Remove,
           EvictRow, EvictFails, RewriteRow, Idle
  <1>5. ~GCStep /\ ~GCFault
    BY DEF Alone, AloneInv, GCStep, GCFault, StartGC, CollectFile, Remove, CheckOrphan, Checking,
           ListFiles, List, DeleteOrphan, EndGC, CollectFails, OrphanFails, CollectRow, Idle
  <1>6. CASE Crash
    <2>1. AbandonBatch \/ UNCHANGED vars
      BY <1>6 DEF Crash, AbandonBatch, vars, dbVars
    <2> QED
      BY <2>1 DEF OrderedNext, ReaperNext
  <1>7. CASE Reap \/ Clock \/ UNCHANGED cacheVars
    BY <1>7 DEF Reap, Clock, OrderedNext, cacheVars
  <1> QED
    BY <1>2, <1>3, <1>4, <1>5, <1>6, <1>7 DEF CacheNext

(* How the steps of others change rows and references: a touched row stays *)
(* a row, and an envelope may only lose references.                        *)
LEMMA BesidesEffect ==
    ASSUME Alone, AloneInv, ReaderNext \/ Crash \/ Reap \/ Clock
    PROVE  /\ UNCHANGED <<files, evictor, gc>>
           /\ writers' = writers \/ writers' = [w \in Writers |-> Idle]
           /\ \A h \in Hashes : HasRow(h) => HasRow(h)'
           /\ \A k \in Keys : envelopeRefs'[k] \subseteq envelopeRefs[k]
  <1>0. TypeOK
    BY DEF AloneInv, CacheInv
  <1>1. ASSUME NEW k \in Keys, RemoveEnvelope(k)
        PROVE  /\ \A h \in Hashes : HasRow(h) => HasRow(h)'
               /\ \A l \in Keys : envelopeRefs'[l] \subseteq envelopeRefs[l]
    <2>1. envelopeRefs[k] \in SUBSET Hashes
      BY <1>0 DEF TypeOK
    <2>2. blobs' = DiffRefs(envelopeRefs[k], {})
      BY <1>1 DEF RemoveEnvelope
    <2>3. \A h \in Hashes : HasRow(h) => HasRow(h)'
      BY <1>0, <2>1, <2>2, DiffRefsCounts DEF HasRow
    <2> QED
      BY <1>0, <1>1, <2>3 DEF RemoveEnvelope, TypeOK
  <1>2. ASSUME NEW h \in Hashes, TouchBlob(h)
        PROVE  envelopeRefs' = envelopeRefs /\ \A g \in Hashes : HasRow(g) => HasRow(g)'
    <2>1. [blobs[h] EXCEPT !.LastAccess = now] \in BlobEntry
      BY <1>0, <1>2 DEF TouchBlob, HasRow, TypeOK, BlobEntry
    <2> QED
      BY <1>0, <1>2, <2>1, MetaDBAssumption DEF TouchBlob, HasRow, TypeOK
  <1>3. CASE ReaderNext
    <2>1. ASSUME DropEntry PROVE reader.key \in Keys /\ RemoveEnvelope(reader.key)
      BY <2>1 DEF DropEntry, DeleteEnvelope, AloneInv, CacheInv, CacheTypeOK, ReaderState, Idle
    <2>2. UNCHANGED <<files, writers, evictor, gc>>
      BY <1>3 DEF ReaderNext, ServeBlob, MissBlob, DropEntry, procs
    <2>3. ASSUME NEW k \in Keys, MissBlob(k) PROVE UNCHANGED <<blobs, envelopeRefs>>
      BY <2>3 DEF MissBlob, vars
    <2> QED
      BY <1>1, <1>2, <1>3, <2>1, <2>2, <2>3 DEF ReaderNext, ServeBlob, HasRow
  <1>4. CASE Crash
    <2>1. evictor' = evictor /\ gc' = gc
      BY <1>4 DEF Crash, AloneInv
    <2> QED
      BY <1>4, <2>1 DEF Crash, dbVars, HasRow
  <1>5. CASE Reap
    <2>1. UNCHANGED <<blobs, envelopeRefs>> \/ \E k \in Keys : RemoveEnvelope(k)
      BY <1>5 DEF Reap, ReaperNext, GetExpiredEnvelopes, DeleteExpiredEnvelope,
                  SkipExpiredEnvelope, AbandonBatch, dbVars, ExpiryEntry
    <2> QED
      BY <1>1, <1>5, <2>1 DEF Reap, procs, HasRow
  <1>6. CASE Clock
    BY <1>6 DEF Clock, Tick, procs, HasRow
  <1> QED
    BY <1>3, <1>4, <1>5, <1>6

(* Rows come before files, and files before references.                    *)
LEMMA AloneKept ==
    ASSUME Alone, AloneInv, [CacheNext]_cacheVars
    PROVE  AloneInv'
  <1>0. CacheTypeOK /\ TypeOK
    BY DEF AloneInv, CacheInv
  <1>1. CacheInv' /\ RefCountExact'
    BY AloneStep, ExactKept, CacheEffect, TypeKept, ProcessesKept DEF AloneInv, CacheInv
  <1> SUFFICES /\ \A h \in files' : HasRow(h)'
               /\ evictor' = Idle /\ gc' = Idle
               /\ \A k \in Keys : envelopeRefs'[k] \subseteq files'
               /\ \A w \in Writers : Standing(w)'
    BY <1>1 DEF AloneInv, RowBeforeFile
  <1>2. CASE WriterNext
    <2>1. PICK w \in Writers :
                 \/ \E h \in Hashes, k \in Keys : CheckExists(w, h, k)
                 \/ TouchExisting(w) \/ PutRow(w) \/ WriteFile(w)
                 \/ WriteFails(w) \/ Cleanup(w)
                 \/ \E refs \in SUBSET Hashes, t \in Time : PutIndex(w, refs, t)
                 \/ RequestFails(w)
      BY <1>2 DEF WriterNext
    <2> DEFINE h == writers[w].hash
    <2>2. writers[w] # Idle => h \in Hashes
      BY <1>0 DEF CacheTypeOK, WriterState
    <2>3. Standing(w) /\ \A v \in Writers : v = w
      BY DEF AloneInv, Alone
    <2>4. evictor' = Idle /\ gc' = Idle
      BY <2>1 DEF CheckExists, Exists, TouchExisting, PutRow, WriteFile, WriteFails, Cleanup, PutIndex,
                  RequestFails, AloneInv
    <2>5. writers \in [Writers -> WriterState]
      BY <1>0 DEF CacheTypeOK
    <2>6. ASSUME NEW g \in Hashes, NEW k \in Keys, CheckExists(w, g, k)
          PROVE  /\ UNCHANGED <<files, blobs, envelopeRefs>>
                 /\ Standing(w)'
      BY <2>5, <2>6 DEF CheckExists, Exists, vars, Standing
    <2>7. ASSUME TouchExisting(w)
          PROVE  /\ UNCHANGED <<files, envelopeRefs>>
                 /\ \A g \in Hashes : HasRow(g) => HasRow(g)'
                 /\ Standing(w)'
      <3>1. h \in files /\ writers'[w].pc = "index" /\ writers'[w].hash = h
        BY <2>2, <2>3, <2>5, <2>7 DEF TouchExisting, Goto, Standing, Idle
      <3>2. ASSUME TouchBlob(h) PROVE \A g \in Hashes : HasRow(g) => HasRow(g)'
        <4>1. h \in Hashes
          BY <2>2, <2>7 DEF TouchExisting, Idle
        <4>2. [blobs[h] EXCEPT !.LastAccess = now] \in BlobEntry
          BY <1>0, <3>2, <4>1 DEF TouchBlob, HasRow, TypeOK, BlobEntry
        <4> QED
          BY <1>0, <3>2, <4>2, MetaDBAssumption DEF TouchBlob, HasRow, TypeOK
      <3>3. \A g \in Hashes : HasRow(g) => HasRow(g)'
        BY <2>7, <3>2 DEF TouchExisting, vars, HasRow
      <3>4. UNCHANGED <<files, envelopeRefs>>
        BY <2>7 DEF TouchExisting, TouchBlob, vars
      <3> QED
        BY <3>1, <3>3, <3>4 DEF Standing
    <2>8. ASSUME PutRow(w)
          PROVE  /\ UNCHANGED <<files, envelopeRefs>>
                 /\ \A g \in Hashes : HasRow(g) => HasRow(g)'
                 /\ Standing(w)'
      <3>1. [RefCount |-> 0, LastAccess |-> now] \in BlobEntry
        BY <1>0 DEF TypeOK, BlobEntry
      <3>2. blobs'[h] # NoRow /\ \A g \in Hashes : HasRow(g) => HasRow(g)'
        <4>1. h \in Hashes /\ PutBlob(h)
          BY <2>2, <2>8 DEF PutRow, Idle
        <4>2. blobs' = [blobs EXCEPT ![h] = [RefCount |-> 0, LastAccess |-> now]]
          BY <4>1 DEF PutBlob
        <4>3. [RefCount |-> 0, LastAccess |-> now] # NoRow
          BY <3>1, MetaDBAssumption
        <4> HIDE DEF h
        <4> QED
          BY <1>0, <4>1, <4>2, <4>3 DEF HasRow, TypeOK
      <3> QED
        BY <2>3, <2>5, <2>8, <3>2 DEF PutRow, PutBlob, Goto, Standing, HasRow
    <2>9. ASSUME WriteFile(w)
          PROVE  /\ UNCHANGED <<blobs, envelopeRefs>> /\ files' = files \cup {h} /\ HasRow(h)
                 /\ Standing(w)'
      BY <2>3, <2>5, <2>9 DEF WriteFile, Write, Goto, vars, Standing
    <2>10. ASSUME WriteFails(w)
           PROVE  UNCHANGED <<files, blobs, envelopeRefs>> /\ Standing(w)'
      BY <2>3, <2>5, <2>10 DEF WriteFails, Goto, vars, Standing, HasRow
    <2>11. ASSUME Cleanup(w)
           PROVE  /\ UNCHANGED <<files, envelopeRefs>> /\ h \notin files
                  /\ \A g \in Hashes \ {h} : HasRow(g) => HasRow(g)'
                  /\ Standing(w)'
      BY <1>0, <2>3, <2>5, <2>11 DEF Cleanup, DeleteBlob, Done, Standing, Idle, HasRow, TypeOK
    <2>12. ASSUME NEW refs \in SUBSET Hashes, NEW t \in Time, PutIndex(w, refs, t)
           PROVE  /\ files' = files /\ \A g \in Hashes : HasRow(g) => HasRow(g)'
                  /\ \A k \in Keys : envelopeRefs'[k] \subseteq envelopeRefs[k] \cup files
                  /\ Standing(w)'
      <3> DEFINE k == writers[w].key
      <3>1. k \in Keys /\ h \in files /\ refs \subseteq {h}
        BY <1>0, <2>3, <2>12 DEF PutIndex, Standing, CacheTypeOK, WriterState, Idle
      <3>2. /\ blobs' = DiffRefs(envelopeRefs[k], refs)
            /\ envelopeRefs' = [envelopeRefs EXCEPT ![k] = refs]
        BY <2>12 DEF PutIndex, PutEnvelope, StoreEnvelope
      <3>3. envelopeRefs[k] \in SUBSET Hashes
        BY <1>0, <3>1 DEF TypeOK
      <3>4. \A g \in Hashes : HasRow(g) => HasRow(g)'
        BY <1>0, <3>2, <3>3, DiffRefsCounts DEF HasRow
      <3>5. files' = files /\ Standing(w)'
        BY <2>5, <2>12 DEF PutIndex, Done, Standing, Idle
      <3> QED
        BY <1>0, <3>1, <3>2, <3>4, <3>5 DEF TypeOK
    <2>13. ASSUME RequestFails(w)
           PROVE  UNCHANGED <<files, blobs, envelopeRefs>> /\ Standing(w)'
      BY <2>5, <2>13 DEF RequestFails, Done, vars, Standing, Idle
    <2>14. /\ \A g \in files' : HasRow(g)'
           /\ \A k \in Keys : envelopeRefs'[k] \subseteq files'
           /\ Standing(w)'
      <3>1. /\ \A g \in files : HasRow(g) /\ g \in Hashes
            /\ \A k \in Keys : envelopeRefs[k] \subseteq files
        BY <1>0 DEF AloneInv, RowBeforeFile, CacheTypeOK
      <3>2. CASE UNCHANGED <<files, blobs, envelopeRefs>> /\ Standing(w)'
        BY <3>1, <3>2 DEF HasRow
      <3>3. CASE TouchExisting(w) \/ PutRow(w)
        BY <2>7, <2>8, <3>1, <3>3
      <3>4. CASE WriteFile(w)
        BY <2>9, <3>1, <3>4 DEF HasRow
      <3>5. CASE Cleanup(w)
        BY <2>11, <3>1, <3>5
      <3>6. CASE \E refs \in SUBSET Hashes, t \in Time : PutIndex(w, refs, t)
        BY <2>12, <3>1, <3>6
      <3> QED
        BY <2>1, <2>6, <2>10, <2>13, <3>2, <3>3, <3>4, <3>5, <3>6
    <2> QED
      BY <2>3, <2>4, <2>14
  <1>3. CASE ReaderNext \/ Crash \/ Reap \/ Clock
    <2>1. /\ UNCHANGED <<files, evictor, gc>>
          /\ writers' = writers \/ writers' = [w \in Writers |-> Idle]
          /\ \A h \in Hashes : HasRow(h) => HasRow(h)'
          /\ \A k \in Keys : envelopeRefs'[k] \subseteq envelopeRefs[k]
      BY <1>3, BesidesEffect
    <2>2. \A w \in Writers : Standing(w)'
      <3>1. CASE writers' = writers
        <4> SUFFICES ASSUME NEW w \in Writers PROVE Standing(w)'
          OBVIOUS
        <4>1. Standing(w) /\ (writers[w] # Idle => writers[w].hash \in Hashes)
          BY <1>0 DEF AloneInv, CacheTypeOK, WriterState
        <4>2. writers'[w] = writers[w] /\ files' = files
          BY <2>1, <3>1
        <4> QED
          BY <2>1, <4>1, <4>2 DEF Standing, Idle
      <3>2. CASE writers' = [w \in Writers |-> Idle]
        BY <3>2 DEF Standing, Idle
      <3> QED
        BY <2>1, <3>1, <3>2
    <2> QED
      BY <1>0, <2>1, <2>2 DEF AloneInv, RowBeforeFile, CacheTypeOK
  <1>4. ~EvictorNext
    BY DEF Alone, AloneInv, EvictorNext, SelectVictim, ReadRow, Evictable, EvictFile, Remove,
           EvictRow, EvictFails, RewriteRow, Idle
  <1>5. ~GCStep /\ ~GCFault
    BY DEF Alone, AloneInv, GCStep, GCFault, StartGC, CollectFile, Remove, CheckOrphan, Checking,
           ListFiles, List, DeleteOrphan, EndGC, CollectFails, OrphanFails, CollectRow, Idle
  <1>6. CASE UNCHANGED cacheVars
    BY <1>6 DEF cacheVars, vars, procs, AloneInv, RowBeforeFile, Standing, HasRow
  <1> QED
    BY <1>2, <1>3, <1>4, <1>5, <1>6 DEF CacheNext

LEMMA AloneInitially == ASSUME CacheInit PROVE AloneInv
  <1>1. RefCountExact /\ RowBeforeFile
    BY DEF CacheInit, Init, RefCountExact, RowBeforeFile, HasRow, Holders
  <1> QED
    BY <1>1, CacheInitially DEF CacheInit, Init, AloneInv, Standing, Idle

(* One request at a time, with failures, crashes and the reaper: a blob on *)
(* disk always has its row.                                                *)
THEOREM AloneRowBeforeFile == ASSUME Alone PROVE CacheSpec => []RowBeforeFile
  <1>1. CacheInit => AloneInv
    BY AloneInitially
  <1>2. AloneInv /\ [CacheNext]_cacheVars => AloneInv'
    BY AloneKept
  <1>3. AloneInv => RowBeforeFile
    BY DEF AloneInv
  <1> QED
    BY <1>1, <1>2, <1>3, PTL DEF CacheSpec

(* One request at a time implements the order of calls of MetaDB, so that  *)
(* its reference counts are exact and a count of zero means unreferenced.  *)
THEOREM AloneFollowsOrder == ASSUME Alone PROVE CacheSpec => FollowsOrder
  <1>1. CacheInit => Init /\ AloneInv
    BY AloneInitially DEF CacheInit
  <1>2. AloneInv /\ [CacheNext]_cacheVars => AloneInv'
    BY AloneKept
  <1>3. AloneInv /\ [CacheNext]_cacheVars => [OrderedNext]_vars
    BY AloneStep
  <1> QED
    BY <1>1, <1>2, <1>3, PTL DEF CacheSpec, FollowsOrder, OrderedSpec

(* The flat entries: one is written or deleted, with its references and    *)
(* the rows' counts or without them, or nothing is.                        *)
EntryExpiry(entry) == IF entry = NoEnvelope THEN NoExpiry ELSE entry.ExpiresAt

FlatRefsMoved(k, refs) ==
    /\ blobs' = DiffRefs(metaRefs[k], refs)
    /\ metaRefs' = [metaRefs EXCEPT ![k] = refs]

FlatEntryWritten(k, entry) ==
    /\ metas' = [metas EXCEPT ![k] = entry]
    /\ metaExpiryByKey' = [metaExpiryByKey EXCEPT ![k] = EntryExpiry(entry)]
    /\ metaByExpiry' = (metaByExpiry \ {<<metaExpiryByKey[k], k>>})
                         \cup IndexEntries(k, EntryExpiry(entry))

FlatChange ==
    \/ \E k \in MetaKeys, entry \in MetadataEnvelope \cup {NoEnvelope} :
          /\ FlatEntryWritten(k, entry)
          /\ \/ \E refs \in SUBSET Hashes : FlatRefsMoved(k, refs)
             \/ UNCHANGED <<blobs, metaRefs>>
    \/ UNCHANGED <<blobs, metas, metaRefs, metaByExpiry, metaExpiryByKey>>

(* What a flat entry's write does, said once for the five methods.         *)
LEMMA FlatEffect ==
    ASSUME TypeOK, Flat!TypeOK, FlatNext
    PROVE  FlatChange /\ now' = now /\ expiredMeta' \subseteq expiredMeta \cup metaByExpiry
  <1>1. ASSUME NEW k \in MetaKeys, NEW t \in Time, Flat!UpdateExpiryIndex(k, t),
               NEW entry, EntryExpiry(entry) = t, metas' = [metas EXCEPT ![k] = entry]
        PROVE  FlatEntryWritten(k, entry)
    BY <1>1 DEF Flat!UpdateExpiryIndex, FlatEntryWritten, Flat!IndexEntries, IndexEntries,
                Flat!NoExpiry, NoExpiry
  <1>2. ASSUME NEW refs, NEW old PROVE Flat!DiffRefs(old, refs) = DiffRefs(old, refs)
    BY DEF Flat!DiffRefs, DiffRefs, Flat!IncrementRef, IncrementRef, Flat!DecrementRef,
           DecrementRef
  <1>3. ASSUME NEW refs \in SUBSET Hashes, NEW t \in Time
        PROVE  /\ [BlobRefs |-> refs, ExpiresAt |-> t] \in MetadataEnvelope
               /\ EntryExpiry([BlobRefs |-> refs, ExpiresAt |-> t]) = t
    <2>1. [BlobRefs |-> refs, ExpiresAt |-> t] \in MetadataEnvelope
      BY DEF MetadataEnvelope
    <2> QED
      BY <2>1, MetaDBAssumption DEF EntryExpiry
  <1>4. NoExpiry \in Time /\ EntryExpiry(NoEnvelope) = NoExpiry /\ Expiries \subseteq Time
    BY MetaDBAssumption DEF NoExpiry, Time, EntryExpiry, Expiries
  <1>5. ASSUME NEW k \in MetaKeys, NEW t \in Expiries, PutMeta(k, t)
        PROVE  FlatChange /\ UNCHANGED <<now, expiredMeta>>
    <2>1. metaRefs[k] \in SUBSET Hashes /\ t \in Time
      BY <1>4 DEF Flat!TypeOK
    <2>2. FlatEntryWritten(k, [BlobRefs |-> metaRefs[k], ExpiresAt |-> t])
      BY <1>1, <1>3, <1>5, <2>1 DEF PutMeta
    <2> QED
      BY <1>3, <1>5, <2>1, <2>2 DEF PutMeta, FlatChange
  <1>6. ASSUME NEW k \in MetaKeys, NEW refs \in SUBSET Hashes, NEW t \in Expiries,
               PutMetaWithRefs(k, refs, t)
        PROVE  FlatChange /\ UNCHANGED <<now, expiredMeta>>
    <2>1. t \in Time
      BY <1>4
    <2>2. /\ Flat!StoreEnvelope(k, [BlobRefs |-> refs, ExpiresAt |-> t])
          /\ UNCHANGED <<now, expiredMeta>>
      BY <1>6 DEF PutMetaWithRefs, Flat!PutEnvelope
    <2>3. /\ [BlobRefs |-> refs, ExpiresAt |-> t].BlobRefs = refs
          /\ [BlobRefs |-> refs, ExpiresAt |-> t].ExpiresAt = t
      OBVIOUS
    <2>4. FlatEntryWritten(k, [BlobRefs |-> refs, ExpiresAt |-> t])
      BY <1>1, <1>3, <2>1, <2>2, <2>3 DEF Flat!StoreEnvelope
    <2>5. FlatRefsMoved(k, refs)
      BY <1>2, <2>2, <2>3 DEF Flat!StoreEnvelope, FlatRefsMoved
    <2> QED
      BY <1>3, <2>1, <2>2, <2>4, <2>5 DEF FlatChange
  <1>7. ASSUME NEW k \in MetaKeys, Flat!RemoveEnvelope(k)
        PROVE  FlatChange
    <2>1. FlatEntryWritten(k, NoEnvelope)
      BY <1>1, <1>4, <1>7 DEF Flat!RemoveEnvelope, Flat!NoExpiry, NoExpiry
    <2>2. FlatRefsMoved(k, {})
      BY <1>2, <1>7 DEF Flat!RemoveEnvelope, FlatRefsMoved
    <2> QED
      BY <2>1, <2>2 DEF FlatChange
  <1>8. ASSUME NEW k \in MetaKeys, DeleteMeta(k)
        PROVE  FlatChange /\ UNCHANGED <<now, expiredMeta>>
    <2>1. FlatEntryWritten(k, NoEnvelope)
      BY <1>1, <1>4, <1>8 DEF DeleteMeta
    <2> QED
      BY <1>8, <2>1 DEF DeleteMeta, FlatChange
  <1>9. ASSUME NEW batch \in SUBSET Flat!ExpiryEntry, GetExpiredMeta(batch)
        PROVE  FlatChange /\ now' = now /\ expiredMeta' \subseteq metaByExpiry
    BY <1>9 DEF GetExpiredMeta, Flat!GetExpiredEnvelopes, Flat!ExpiredEntries, FlatChange
  <1>10. ASSUME NEW e \in Flat!ExpiryEntry, DeleteExpiredMeta(e)
         PROVE  FlatChange /\ now' = now /\ expiredMeta' \subseteq expiredMeta
    <2>1. e[2] \in MetaKeys
      BY DEF Flat!ExpiryEntry
    <2>2. now' = now /\ expiredMeta' \subseteq expiredMeta
      BY <1>10 DEF DeleteExpiredMeta, Flat!DeleteExpiredEnvelope
    <2>3. Flat!RemoveEnvelope(e[2]) \/ UNCHANGED Flat!dbVars
      BY <1>10 DEF DeleteExpiredMeta, Flat!DeleteExpiredEnvelope
    <2>4. UNCHANGED Flat!dbVars => FlatChange
      BY DEF Flat!dbVars, FlatChange
    <2> QED
      BY <1>7, <2>1, <2>2, <2>3, <2>4
  <1>11. ASSUME NEW e \in Flat!ExpiryEntry, Flat!SkipExpiredEnvelope(e)
         PROVE  FlatChange /\ now' = now /\ expiredMeta' \subseteq expiredMeta
    BY <1>11 DEF Flat!SkipExpiredEnvelope, FlatChange
  <1>12. ASSUME Flat!AbandonBatch
         PROVE  FlatChange /\ now' = now /\ expiredMeta' \subseteq expiredMeta
    BY <1>12 DEF Flat!AbandonBatch, FlatChange
  <1>13. ASSUME NEW k \in MetaKeys, DeleteMetaWithRefs(k)
         PROVE  FlatChange /\ UNCHANGED <<now, expiredMeta>>
    BY <1>7, <1>13 DEF DeleteMetaWithRefs, Flat!DeleteEnvelope
  <1> QED
    BY <1>5, <1>6, <1>8, <1>9, <1>10, <1>11, <1>12, <1>13 DEF FlatNext, UpdateMetaJSON
-----------------------------------------------------------------------------
(* The shape of every bucket; the indexes; the counts.                     *)
PinsOK ==
    /\ manual \in [Hashes -> 0..MaxManual]
    /\ scan = NoScan \/ scan \in [Keys -> SUBSET Hashes]
    /\ drifted \in BOOLEAN

MaintenanceTypes == TypeOK /\ Flat!TypeOK /\ PinsOK

MaintenanceInv ==
    /\ MaintenanceTypes
    /\ RefsMirrorEnvelopes /\ ExpiryIndexesExact /\ Flat!ExpiryIndexesExact
    /\ NeverOverPinnedByAny

(* A step is one of MetaDB, of the flat entries, or of pins and repair.    *)
EnvelopeStep ==
    /\ DbChange /\ ReaperChange
    /\ UNCHANGED <<metas, metaRefs, metaByExpiry, metaExpiryByKey, expiredMeta,
                   manual, scan, drifted>>

FlatStep ==
    /\ FlatChange /\ now' = now /\ expiredMeta' \subseteq expiredMeta \cup metaByExpiry
    /\ UNCHANGED <<envelopes, envelopeRefs, byExpiry, expiryByKey, expired,
                   manual, scan, drifted>>

RepairStep ==
    /\ RepairNext
    /\ UNCHANGED <<envelopes, envelopeRefs, byExpiry, expiryByKey, expired,
                   metas, metaRefs, metaByExpiry, metaExpiryByKey, expiredMeta>>

LEMMA MaintenanceEffect ==
    ASSUME TypeOK, Flat!TypeOK, [MaintenanceNext]_allVars
    PROVE  EnvelopeStep \/ FlatStep \/ RepairStep
  <1>1. CASE Next /\ UNCHANGED <<metaVars, repairVars>>
    BY <1>1, DbEffect, ReaperEffect DEF EnvelopeStep, metaVars, repairVars
  <1>2. CASE FlatNext /\ UNCHANGED <<envelopeVars, repairVars>>
    BY <1>2, FlatEffect DEF FlatStep, envelopeVars, repairVars
  <1>3. CASE RepairNext /\ UNCHANGED <<envelopeVars, metaVars>>
    BY <1>3 DEF RepairStep, envelopeVars, metaVars
  <1>4. CASE UNCHANGED allVars
    BY <1>4, DbEffect, ReaperEffect DEF EnvelopeStep, allVars, metaVars, repairVars
  <1> QED
    BY <1>1, <1>2, <1>3, <1>4 DEF MaintenanceNext

(* Pins by hand and recounts change rows only, and keep them rows.         *)
LEMMA RepairTypes ==
    ASSUME MaintenanceTypes, RepairStep
    PROVE  blobs' \in [Hashes -> Row] /\ now' = now /\ PinsOK'
  <1>1. /\ manual \in [Hashes -> 0..MaxManual] /\ drifted \in BOOLEAN
        /\ scan = NoScan \/ scan \in [Keys -> SUBSET Hashes]
        /\ blobs \in [Hashes -> Row]
    BY DEF MaintenanceTypes, PinsOK, TypeOK, Row
  <1>2. ASSUME NEW h \in Hashes, IncrementBlobRef(h) \/ DecrementBlobRef(h)
        PROVE  blobs' \in [Hashes -> Row] /\ now' = now /\ PinsOK'
    <2>1. blobs' \in [Hashes -> Row]
      BY <1>1, <1>2, RefStepTypes DEF IncrementBlobRef, DecrementBlobRef
    <2>2. manual' \in [Hashes -> 0..MaxManual]
      <3>1. manual[h] \in 0..MaxManual /\ MaxManual \in Nat
        BY <1>1, MaintenanceAssumption
      <3>2. CASE IncrementBlobRef(h)
        <4>1. manual' = [manual EXCEPT ![h] = manual[h] + 1] /\ manual[h] + 1 \in 0..MaxManual
          BY <3>1, <3>2 DEF IncrementBlobRef
        <4> QED
          BY <1>1, <4>1
      <3>3. CASE DecrementBlobRef(h)
        <4>1. manual' = [manual EXCEPT ![h] = manual[h] - 1] /\ manual[h] - 1 \in 0..MaxManual
          BY <3>1, <3>3 DEF DecrementBlobRef
        <4> QED
          BY <1>1, <4>1
      <3> QED
        BY <1>2, <3>2, <3>3
    <2>3. now' = now /\ scan' = scan /\ drifted' = drifted
      BY <1>2 DEF IncrementBlobRef, DecrementBlobRef
    <2> QED
      BY <1>1, <2>1, <2>2, <2>3 DEF PinsOK
  <1>3. ASSUME ScanEnvelopes
        PROVE  blobs' \in [Hashes -> Row] /\ now' = now /\ PinsOK'
    <2>1. scan' \in [Keys -> SUBSET Hashes]
      <3>1. ASSUME NEW k \in Keys
            PROVE  (IF HasEnvelope(k) THEN envelopes[k].BlobRefs ELSE {}) \in SUBSET Hashes
        BY DEF MaintenanceTypes, TypeOK, HasEnvelope, MetadataEnvelope
      <3> QED
        BY <1>3, <3>1 DEF ScanEnvelopes
    <2> QED
      BY <1>1, <1>3, <2>1 DEF ScanEnvelopes, PinsOK
  <1>4. ASSUME RebuildEnvelopeRefcounts
        PROVE  blobs' \in [Hashes -> Row] /\ now' = now /\ PinsOK'
    <2>1. ASSUME NEW h \in Hashes
          PROVE  (IF HasRow(h) THEN Recount(blobs[h], Counted(scan, h)) ELSE NoRow) \in Row
      <3>1. Counted(scan, h) \in Nat
        BY MetaDBAssumption, FS_Subset, FS_CardinalityType DEF Counted
      <3>2. CASE HasRow(h)
        <4>1. blobs[h] \in BlobEntry
          BY <1>1, <3>2 DEF HasRow, Row
        <4>2. Recount(blobs[h], Counted(scan, h)) \in BlobEntry
          BY <3>1, <4>1 DEF Recount, BlobEntry
        <4> QED
          BY <3>2, <4>2 DEF Row
      <3> QED
        BY <3>2 DEF Row
    <2>2. drifted' \in BOOLEAN
      BY <1>4 DEF RebuildEnvelopeRefcounts
    <2> QED
      BY <1>1, <1>4, <2>1, <2>2 DEF RebuildEnvelopeRefcounts, PinsOK
  <1>5. ASSUME AbandonRebuild
        PROVE  blobs' \in [Hashes -> Row] /\ now' = now /\ PinsOK'
    BY <1>1, <1>5 DEF AbandonRebuild, PinsOK
  <1> QED
    BY <1>2, <1>3, <1>4, <1>5 DEF RepairStep, RepairNext

(* Rows stay rows, and the flat buckets keep their shape.                  *)
LEMMA FlatTypes ==
    ASSUME MaintenanceTypes, FlatStep
    PROVE  /\ blobs' \in [Hashes -> Row]
           /\ metas' \in [MetaKeys -> MetadataEnvelope \cup {NoEnvelope}]
           /\ metaRefs' \in [MetaKeys -> SUBSET Hashes]
           /\ metaByExpiry' \subseteq Time \X MetaKeys
           /\ metaExpiryByKey' \in [MetaKeys -> Time]
           /\ expiredMeta' \subseteq Time \X MetaKeys
  <1>1. /\ blobs \in [Hashes -> Row]
        /\ metas \in [MetaKeys -> MetadataEnvelope \cup {NoEnvelope}]
        /\ metaRefs \in [MetaKeys -> SUBSET Hashes]
        /\ metaByExpiry \subseteq Time \X MetaKeys
        /\ metaExpiryByKey \in [MetaKeys -> Time]
        /\ expiredMeta \subseteq Time \X MetaKeys
    BY DEF MaintenanceTypes, TypeOK, Row, Flat!TypeOK, Flat!MetadataEnvelope, MetadataEnvelope,
           Flat!Time, Time, Flat!ExpiryEntry
  <1>2. expiredMeta' \subseteq Time \X MetaKeys
    BY <1>1 DEF FlatStep
  <1>3. CASE UNCHANGED <<blobs, metas, metaRefs, metaByExpiry, metaExpiryByKey>>
    BY <1>1, <1>2, <1>3
  <1>4. ASSUME NEW k \in MetaKeys, NEW entry \in MetadataEnvelope \cup {NoEnvelope},
               FlatEntryWritten(k, entry),
               \/ \E refs \in SUBSET Hashes : FlatRefsMoved(k, refs)
               \/ UNCHANGED <<blobs, metaRefs>>
        PROVE  /\ blobs' \in [Hashes -> Row]
               /\ metas' \in [MetaKeys -> MetadataEnvelope \cup {NoEnvelope}]
               /\ metaRefs' \in [MetaKeys -> SUBSET Hashes]
               /\ metaByExpiry' \subseteq Time \X MetaKeys
               /\ metaExpiryByKey' \in [MetaKeys -> Time]
    <2>1. EntryExpiry(entry) \in Time
      BY MetaDBAssumption DEF EntryExpiry, MetadataEnvelope, NoExpiry, Time
    <2>2. /\ metas' \in [MetaKeys -> MetadataEnvelope \cup {NoEnvelope}]
          /\ metaByExpiry' \subseteq Time \X MetaKeys
          /\ metaExpiryByKey' \in [MetaKeys -> Time]
      BY <1>1, <1>4, <2>1 DEF FlatEntryWritten, IndexEntries
    <2>3. ASSUME NEW refs \in SUBSET Hashes, FlatRefsMoved(k, refs)
          PROVE  blobs' \in [Hashes -> Row] /\ metaRefs' \in [MetaKeys -> SUBSET Hashes]
      <3>1. metaRefs[k] \in SUBSET Hashes
        BY <1>1
      <3>2. DiffRefs(metaRefs[k], refs) \in [Hashes -> Row]
        BY <3>1, DiffRefsType DEF MaintenanceTypes
      <3> QED
        BY <1>1, <2>3, <3>2 DEF FlatRefsMoved
    <2> QED
      BY <1>1, <1>4, <2>2, <2>3
  <1> QED
    BY <1>2, <1>3, <1>4 DEF FlatStep, FlatChange

LEMMA MaintenanceTypesKept ==
    ASSUME MaintenanceTypes, EnvelopeStep \/ FlatStep \/ RepairStep
    PROVE  MaintenanceTypes'
  <1> USE DEF MaintenanceTypes
  <1>1. CASE EnvelopeStep
    <2>1. TypeOK'
      BY <1>1, TypeKept DEF EnvelopeStep
    <2>2. Flat!TypeOK'
      <3>1. blobs' \in [Hashes -> Flat!BlobEntry \cup {NoRow}] /\ now' \in Flat!Time
        BY <2>1 DEF TypeOK, BlobEntry, Flat!BlobEntry, Time, Flat!Time
      <3>2. /\ metas' = metas /\ metaRefs' = metaRefs /\ metaByExpiry' = metaByExpiry
            /\ metaExpiryByKey' = metaExpiryByKey /\ expiredMeta' = expiredMeta
        BY <1>1 DEF EnvelopeStep
      <3> QED
        BY <3>1, <3>2 DEF Flat!TypeOK
    <2>3. PinsOK'
      BY <1>1 DEF EnvelopeStep, PinsOK
    <2> QED
      BY <2>1, <2>2, <2>3
  <1>2. CASE FlatStep
    <2>1. TypeOK'
      BY <1>2, FlatTypes DEF FlatStep, TypeOK, Row
    <2>2. Flat!TypeOK'
      <3>1. /\ blobs' \in [Hashes -> Flat!BlobEntry \cup {NoRow}] /\ now' \in Flat!Time
        BY <2>1 DEF TypeOK, BlobEntry, Flat!BlobEntry, Time, Flat!Time
      <3>2. /\ metas' \in [MetaKeys -> Flat!MetadataEnvelope \cup {NoEnvelope}]
            /\ metaByExpiry' \subseteq Flat!ExpiryEntry /\ expiredMeta' \subseteq Flat!ExpiryEntry
            /\ metaExpiryByKey' \in [MetaKeys -> Flat!Time]
        BY <1>2, FlatTypes
           DEF MetadataEnvelope, Flat!MetadataEnvelope, Time, Flat!Time, Flat!ExpiryEntry
      <3> QED
        BY <1>2, <3>1, <3>2, FlatTypes DEF Flat!TypeOK
    <2>3. PinsOK'
      BY <1>2 DEF FlatStep, PinsOK
    <2> QED
      BY <2>1, <2>2, <2>3
  <1>3. CASE RepairStep
    <2>1. TypeOK'
      BY <1>3, RepairTypes DEF RepairStep, TypeOK, Row
    <2>2. Flat!TypeOK'
      <3>1. /\ blobs' \in [Hashes -> Flat!BlobEntry \cup {NoRow}] /\ now' \in Flat!Time
        BY <2>1 DEF TypeOK, BlobEntry, Flat!BlobEntry, Time, Flat!Time
      <3> QED
        BY <1>3, <3>1 DEF RepairStep, Flat!TypeOK
    <2> QED
      BY <1>3, <2>1, <2>2, RepairTypes
  <1> QED
    BY <1>1, <1>2, <1>3
-----------------------------------------------------------------------------
(* How many references of each kind there are.                             *)
LEMMA PinnersType ==
    ASSUME PinsOK, NEW h \in Hashes
    PROVE  /\ Cardinality(Holders(h)) \in Nat /\ Cardinality(Flat!Holders(h)) \in Nat
           /\ manual[h] \in Nat
  <1>1. Cardinality(Flat!Holders(h)) \in Nat
    BY MaintenanceAssumption, FS_Subset, FS_CardinalityType DEF Flat!Holders
  <1>2. manual[h] \in Nat
    BY MaintenanceAssumption DEF PinsOK
  <1> QED
    BY <1>1, <1>2, HoldersFinite

(* Every kind of step keeps every count within the number of references.   *)
LEMMA AllPinsBound ==
    ASSUME MaintenanceTypes, MaintenanceTypes', NeverOverPinnedByAny,
           EnvelopeStep \/ FlatStep \/ RepairStep
    PROVE  NeverOverPinnedByAny'
  <1> SUFFICES ASSUME NEW h \in Hashes, ~drifted', blobs'[h] # NoRow
               PROVE  blobs'[h].RefCount <= Cardinality(Holders(h)')
                        + Cardinality(Flat!Holders(h)') + manual'[h]
    BY DEF NeverOverPinnedByAny, HasRow
  <1> DEFINE e == Cardinality(Holders(h))
             f == Cardinality(Flat!Holders(h))
             m == manual[h]
  <1>0. e \in Nat /\ f \in Nat /\ m \in Nat
    BY PinnersType DEF MaintenanceTypes
  <1>6. /\ Cardinality(Holders(h)') \in Nat /\ Cardinality(Flat!Holders(h)') \in Nat
        /\ manual'[h] \in Nat
    BY MetaDBAssumption, MaintenanceAssumption, FS_Subset, FS_CardinalityType
       DEF Holders, Flat!Holders, MaintenanceTypes, PinsOK
  <1>1. ~drifted => (blobs[h] # NoRow => blobs[h].RefCount <= e + f + m)
    BY DEF NeverOverPinnedByAny, HasRow
  <1>2. blobs \in [Hashes -> BlobEntry \cup {NoRow}] /\ TypeOK
    BY DEF MaintenanceTypes, TypeOK
  <1>3. CASE EnvelopeStep
    <2>1. Flat!Holders(h)' = Flat!Holders(h) /\ manual' = manual /\ drifted' = drifted
      BY <1>3 DEF EnvelopeStep, Flat!Holders
    <2>2. blobs[h] # NoRow => blobs[h].RefCount <= e + (f + m)
      BY <1>0, <1>1, <1>2, <2>1 DEF BlobEntry
    <2>3. CASE RowChange
      <3>1. Holders(h)' = Holders(h)
        BY <2>3 DEF RowChange, Holders
      <3>2. \/ blobs[h] # NoRow /\ blobs'[h].RefCount = blobs[h].RefCount
            \/ blobs'[h].RefCount = 0
        BY <1>2, <2>3 DEF RowChange
      <3> QED
        BY <1>0, <2>1, <2>2, <3>1, <3>2
    <2>4. ASSUME NEW k \in Keys, NEW new \in SUBSET Hashes,
                 blobs' = DiffRefs(envelopeRefs[k], new),
                 envelopeRefs' = [envelopeRefs EXCEPT ![k] = new]
          PROVE  blobs'[h].RefCount <= Cardinality(Holders(h)') + (f + m)
      <3>1. envelopeRefs[k] \in SUBSET Hashes
        BY <1>2 DEF TypeOK
      <3>2. Cardinality(Holders(h)') = IF h \in new \ envelopeRefs[k] THEN e + 1
                                       ELSE IF h \in envelopeRefs[k] \ new THEN e - 1 ELSE e
        BY <1>2, <2>4, HoldersRewritten
      <3>3. h \in envelopeRefs[k] => e > 0
        BY HolderCounted
      <3>4. Cardinality(Holders(h)') \in Nat /\ f + m \in Nat
        BY <1>0, <3>2, <3>3
      <3> HIDE DEF e, f, m
      <3> QED
        BY <1>0, <1>2, <2>2, <2>4, <3>1, <3>2, <3>3, <3>4, DiffWithinBound
    <2>8. blobs'[h].RefCount \in Int
      BY DEF MaintenanceTypes, TypeOK, BlobEntry
    <2>5. CASE EnvelopeStored
      <3>1. PICK k \in Keys, env \in MetadataEnvelope : StoreEnvelope(k, env)
        BY <2>5 DEF EnvelopeStored
      <3>2. env.BlobRefs \in SUBSET Hashes
        BY DEF MetadataEnvelope
      <3>3. blobs'[h].RefCount <= Cardinality(Holders(h)') + (f + m)
        BY <2>4, <3>1, <3>2 DEF StoreEnvelope
      <3> QED
        BY <1>0, <1>6, <2>1, <2>8, <3>3
    <2>6. CASE EnvelopeRemoved
      <3>1. blobs'[h].RefCount <= Cardinality(Holders(h)') + (f + m)
        BY <2>4, <2>6 DEF EnvelopeRemoved, RemoveEnvelope
      <3> QED
        BY <1>0, <1>6, <2>1, <2>8, <3>1
    <2>7. CASE UNCHANGED dbVars
      <3>1. Holders(h)' = Holders(h) /\ blobs' = blobs
        BY <2>7 DEF dbVars, Holders
      <3> QED
        BY <1>0, <2>1, <2>2, <3>1
    <2> QED
      BY <1>3, <2>3, <2>5, <2>6, <2>7 DEF EnvelopeStep, DbChange
  <1>4. CASE FlatStep
    <2>1. Holders(h)' = Holders(h) /\ manual' = manual /\ drifted' = drifted
      BY <1>4 DEF FlatStep, Holders
    <2>2. blobs[h] # NoRow => blobs[h].RefCount <= f + (e + m)
      BY <1>0, <1>1, <1>2, <2>1 DEF BlobEntry
    <2>3. CASE UNCHANGED <<blobs, metaRefs>>
      <3>1. Flat!Holders(h)' = Flat!Holders(h) /\ blobs' = blobs
        BY <2>3 DEF Flat!Holders
      <3> QED
        BY <1>0, <2>1, <2>2, <3>1
    <2>4. ASSUME NEW k \in MetaKeys, NEW refs \in SUBSET Hashes, FlatRefsMoved(k, refs)
          PROVE  blobs'[h].RefCount <= Cardinality(Flat!Holders(h)') + (e + m)
      <3>1. metaRefs \in [MetaKeys -> SUBSET Hashes]
        BY DEF MaintenanceTypes, Flat!TypeOK
      <3>2. /\ metaRefs' = [metaRefs EXCEPT ![k] = refs]
            /\ blobs' = DiffRefs(metaRefs[k], refs)
        BY <2>4 DEF FlatRefsMoved
      <3>3. /\ h \in metaRefs[k] => f > 0
            /\ Cardinality(Flat!Holders(h)') =
                 IF h \in refs \ metaRefs[k] THEN f + 1
                 ELSE IF h \in metaRefs[k] \ refs THEN f - 1 ELSE f
        <4>1. \A l \in MetaKeys : metaRefs'[l] = IF l = k THEN refs ELSE metaRefs[l]
          BY <3>1, <3>2
        <4>2. h \in metaRefs[k] => f > 0
          BY KeyCounted, MaintenanceAssumption DEF Flat!Holders
        <4>3. Cardinality(Flat!Holders(h)') =
                IF h \in refs \ metaRefs[k] THEN f + 1
                ELSE IF h \in metaRefs[k] \ refs THEN f - 1 ELSE f
          BY <3>1, <4>1, CountRewritten, MaintenanceAssumption DEF Flat!Holders
        <4> QED
          BY <4>2, <4>3
      <3>4. Cardinality(Flat!Holders(h)') \in Nat /\ e + m \in Nat /\ metaRefs[k] \in SUBSET Hashes
        BY <1>0, <3>1, <3>3
      <3> HIDE DEF e, f, m
      <3> QED
        BY <1>0, <1>2, <2>2, <3>2, <3>3, <3>4, DiffWithinBound
    <2>5. blobs'[h].RefCount \in Int
      BY DEF MaintenanceTypes, TypeOK, BlobEntry
    <2>6. (\E k \in MetaKeys, refs \in SUBSET Hashes : FlatRefsMoved(k, refs))
            \/ UNCHANGED <<blobs, metaRefs>>
      BY <1>4 DEF FlatStep, FlatChange
    <2>7. CASE \E k \in MetaKeys, refs \in SUBSET Hashes : FlatRefsMoved(k, refs)
      <3>1. blobs'[h].RefCount <= Cardinality(Flat!Holders(h)') + (e + m)
        BY <2>4, <2>7
      <3>2. Cardinality(Holders(h)') = e /\ manual'[h] = m
        BY <2>1
      <3> HIDE DEF e, m
      <3> QED
        BY <1>0, <1>6, <2>5, <3>1, <3>2
    <2> QED
      BY <2>3, <2>6, <2>7
  <1>5. CASE RepairStep
    <2>1. Holders(h)' = Holders(h) /\ Flat!Holders(h)' = Flat!Holders(h)
      BY <1>5 DEF RepairStep, Holders, Flat!Holders
    <2>2. manual \in [Hashes -> 0..MaxManual] /\ manual' \in [Hashes -> 0..MaxManual]
      BY DEF MaintenanceTypes, PinsOK
    <2>3. ASSUME NEW g \in Hashes, IncrementBlobRef(g)
          PROVE  blobs'[h].RefCount <= e + f + manual'[h]
      <3>1. blobs[g] \in BlobEntry /\ drifted' = drifted
        BY <1>2, <2>3 DEF IncrementBlobRef, HasRow
      <3>2. /\ blobs' = [blobs EXCEPT ![g] = IncrementRef(blobs[g])]
            /\ manual' = [manual EXCEPT ![g] = manual[g] + 1]
        BY <2>3 DEF IncrementBlobRef
      <3>3. IncrementRef(blobs[g]).RefCount = blobs[g].RefCount + 1
        BY <3>1, RefStepCounts
      <3>4. blobs[g].RefCount \in Nat
        BY <3>1 DEF BlobEntry
      <3>5. blobs[g] # NoRow
        BY <2>3 DEF IncrementBlobRef, HasRow
      <3>6. CASE g = h
        BY <1>0, <1>1, <1>2, <2>2, <3>1, <3>2, <3>3, <3>4, <3>5, <3>6
      <3>7. CASE g # h
        BY <1>0, <1>1, <1>2, <2>2, <3>1, <3>2, <3>7
      <3> QED
        BY <3>6, <3>7
    <2>4. ASSUME NEW g \in Hashes, DecrementBlobRef(g)
          PROVE  blobs'[h].RefCount <= e + f + manual'[h]
      <3>1. /\ blobs' = [blobs EXCEPT ![g] = DecrementRef(blobs[g])]
            /\ manual' = [manual EXCEPT ![g] = manual[g] - 1]
            /\ drifted' = drifted
            /\ manual[g] > 0
        BY <2>4 DEF DecrementBlobRef
      <3>2. CASE g = h
        <4>1. blobs'[h] = DecrementRef(blobs[h]) /\ manual'[h] = m - 1 /\ m > 0
          BY <1>2, <2>2, <3>1, <3>2
        <4>2. blobs[h] # NoRow
          BY <4>1 DEF DecrementRef
        <4>3. blobs[h] \in BlobEntry
          BY <1>2, <4>2
        <4>4. blobs[h].RefCount \in Nat
          BY <4>3 DEF BlobEntry
        <4>5. blobs'[h].RefCount = IF blobs[h].RefCount > 0 THEN blobs[h].RefCount - 1 ELSE 0
          BY <4>1, <4>3, RefStepCounts
        <4>6. blobs[h].RefCount <= e + f + m
          BY <1>1, <3>1, <4>2
        <4> HIDE DEF e, f, m
        <4> QED
          BY <1>0, <4>1, <4>4, <4>5, <4>6
      <3>3. CASE g # h
        BY <1>0, <1>1, <1>2, <2>2, <3>1, <3>3
      <3> QED
        BY <3>2, <3>3
    <2>5. CASE ScanEnvelopes \/ AbandonRebuild
      BY <1>1, <2>1, <2>5 DEF ScanEnvelopes, AbandonRebuild
    <2>6. CASE RebuildEnvelopeRefcounts
      <3>1. scan = envelopeRefs /\ manual' = manual
        BY <2>6 DEF RebuildEnvelopeRefcounts
      <3>2. HasRow(h) /\ blobs'[h] = Recount(blobs[h], Counted(scan, h))
        BY <2>6 DEF RebuildEnvelopeRefcounts
      <3>3. Counted(scan, h) = e
        BY <3>1 DEF Counted, Holders
      <3>4. blobs[h] \in BlobEntry
        BY <1>2, <3>2 DEF HasRow
      <3>5. blobs'[h].RefCount = e
        BY <3>2, <3>3, <3>4 DEF Recount, BlobEntry
      <3> QED
        BY <1>0, <2>1, <3>1, <3>5
    <2> QED
      BY <1>5, <2>1, <2>3, <2>4, <2>5, <2>6 DEF RepairStep, RepairNext
  <1> QED
    BY <1>3, <1>4, <1>5
-----------------------------------------------------------------------------
(* The flat entries' indexes move with the entry.                          *)
FlatExpiry(k) == EntryExpiry(metas[k])

FlatIndexes ==
    /\ \A k \in MetaKeys : metaExpiryByKey[k] = FlatExpiry(k)
    /\ metaByExpiry = ForwardOf(MetaKeys, metaExpiryByKey)

LEMMA FlatIndexesExact == Flat!ExpiryIndexesExact <=> FlatIndexes
  <1>1. \A k \in MetaKeys : Flat!ExpiryOf(k) = FlatExpiry(k)
    BY DEF Flat!ExpiryOf, FlatExpiry, EntryExpiry, Flat!HasEnvelope, Flat!NoExpiry, NoExpiry
  <1>2. Flat!ExpiryEntry = Time \X MetaKeys /\ Flat!NoExpiry = NoExpiry
    BY DEF Flat!ExpiryEntry, Flat!Time, Time, Flat!NoExpiry, NoExpiry
  <1>3. \A e \in Time \X MetaKeys : e[2] \in MetaKeys
    OBVIOUS
  <1> QED
    BY <1>1, <1>2, <1>3 DEF Flat!ExpiryIndexesExact, FlatIndexes, ForwardOf

LEMMA FlatIndexesKept ==
    ASSUME MaintenanceTypes, FlatIndexes, EnvelopeStep \/ FlatStep \/ RepairStep
    PROVE  FlatIndexes'
  <1>1. CASE UNCHANGED <<metas, metaByExpiry, metaExpiryByKey>>
    BY <1>1 DEF FlatIndexes, FlatExpiry
  <1>2. ASSUME NEW k \in MetaKeys, NEW entry \in MetadataEnvelope \cup {NoEnvelope},
               FlatEntryWritten(k, entry)
        PROVE  FlatIndexes'
    <2>1. EntryExpiry(entry) \in Time
      BY MetaDBAssumption DEF EntryExpiry, MetadataEnvelope, NoExpiry, Time
    <2>2. metaExpiryByKey \in [MetaKeys -> Time] /\ DOMAIN metas = MetaKeys
      BY DEF MaintenanceTypes, Flat!TypeOK, Flat!Time, Time
    <2>3. metaExpiryByKey' = [metaExpiryByKey EXCEPT ![k] = EntryExpiry(entry)]
      BY <1>2 DEF FlatEntryWritten
    <2>4. metaByExpiry' = ForwardOf(MetaKeys, metaExpiryByKey')
      <3>1. (ForwardOf(MetaKeys, metaExpiryByKey) \ {<<metaExpiryByKey[k], k>>})
              \cup IndexEntries(k, EntryExpiry(entry))
                = ForwardOf(MetaKeys, metaExpiryByKey')
        <4>1. \A l \in MetaKeys :
                metaExpiryByKey'[l] = IF l = k THEN EntryExpiry(entry) ELSE metaExpiryByKey[l]
          BY <2>2, <2>3
        <4>2. metaExpiryByKey \in [MetaKeys -> Time]
          BY <2>2
        <4> QED
          BY <2>1, <4>1, <4>2, IndexMoved
      <3>2. /\ metaByExpiry' = (metaByExpiry \ {<<metaExpiryByKey[k], k>>})
                                 \cup IndexEntries(k, EntryExpiry(entry))
            /\ metaByExpiry = ForwardOf(MetaKeys, metaExpiryByKey)
        BY <1>2 DEF FlatEntryWritten, FlatIndexes
      <3> QED
        BY <3>1, <3>2
    <2>5. \A l \in MetaKeys : metaExpiryByKey'[l] = EntryExpiry(metas'[l])
      BY <1>2, <2>2, <2>3 DEF FlatEntryWritten, FlatIndexes, FlatExpiry
    <2> QED
      BY <2>4, <2>5 DEF FlatIndexes, FlatExpiry
  <1> QED
    BY <1>1, <1>2 DEF EnvelopeStep, FlatStep, FlatChange, RepairStep

(* What MetaDB promises of envelopes holds beside flat entries and repair. *)
LEMMA EnvelopesUntouched ==
    ASSUME FlatStep \/ RepairStep
    PROVE  /\ RefsMirrorEnvelopes => RefsMirrorEnvelopes'
           /\ ExpiryIndexesExact => ExpiryIndexesExact'
  <1>1. UNCHANGED <<envelopes, envelopeRefs, byExpiry, expiryByKey>>
    BY DEF FlatStep, RepairStep
  <1> QED
    BY <1>1 DEF RefsMirrorEnvelopes, ExpiryIndexesExact, ExpiryOf, HasEnvelope

LEMMA MaintenanceInvInit == MaintenanceInit => MaintenanceInv
  <1> SUFFICES ASSUME MaintenanceInit PROVE MaintenanceInv
    OBVIOUS
  <1> USE DEF MaintenanceInit
  <1>1. NoExpiry \in Time /\ 0 \in 0..MaxManual
    BY MetaDBAssumption, MaintenanceAssumption DEF NoExpiry, Time
  <1>2. TypeOK /\ RefsMirrorEnvelopes /\ ExpiryIndexesExact
    BY <1>1 DEF Init, TypeOK, RefsMirrorEnvelopes, HasEnvelope, ExpiryIndexesExact, ExpiryOf,
                ExpiryEntry, NoExpiry
  <1>3. Flat!TypeOK
    BY <1>1 DEF Flat!Init, Flat!TypeOK, Flat!NoExpiry, NoExpiry, Flat!Time, Time
  <1>4. FlatIndexes
    BY DEF Flat!Init, FlatIndexes, ForwardOf, FlatExpiry, EntryExpiry, Flat!NoExpiry, NoExpiry
  <1>5. PinsOK
    BY <1>1 DEF PinsOK
  <1>6. NeverOverPinnedByAny
    BY DEF Init, NeverOverPinnedByAny, HasRow
  <1> QED
    BY <1>2, <1>3, <1>4, <1>5, <1>6, FlatIndexesExact DEF MaintenanceInv, MaintenanceTypes

LEMMA MaintenanceInvStep == MaintenanceInv /\ [MaintenanceNext]_allVars => MaintenanceInv'
  <1> SUFFICES ASSUME MaintenanceInv, [MaintenanceNext]_allVars PROVE MaintenanceInv'
    OBVIOUS
  <1> USE DEF MaintenanceInv
  <1>1. EnvelopeStep \/ FlatStep \/ RepairStep
    BY MaintenanceEffect DEF MaintenanceTypes
  <1>2. MaintenanceTypes'
    BY <1>1, MaintenanceTypesKept
  <1>3. NeverOverPinnedByAny'
    BY <1>1, <1>2, AllPinsBound
  <1>4. Flat!ExpiryIndexesExact'
    <2>1. FlatIndexes'
      BY <1>1, FlatIndexesExact, FlatIndexesKept
    <2>2. (Flat!ExpiryIndexesExact <=> FlatIndexes)'
      BY FlatIndexesExact, PTL
    <2> QED
      BY <2>1, <2>2
  <1>5. RefsMirrorEnvelopes' /\ ExpiryIndexesExact'
    BY <1>1, EnvelopesUntouched, MirrorKept, IndexesKept DEF EnvelopeStep, MaintenanceTypes
  <1> QED
    BY <1>2, <1>3, <1>4, <1>5

LEMMA MaintenanceInvHolds == MaintenanceSpec => []MaintenanceInv
  BY MaintenanceInvInit, MaintenanceInvStep, PTL DEF MaintenanceSpec

(* Flat entries, pins by hand and recounts beside the envelopes leave what *)
(* MetaDB promises of those as it is.                                      *)
THEOREM EnvelopesKept ==
    MaintenanceSpec => [](TypeOK /\ RefsMirrorEnvelopes /\ ExpiryIndexesExact)
  <1>1. MaintenanceInv => TypeOK /\ RefsMirrorEnvelopes /\ ExpiryIndexesExact
    BY DEF MaintenanceInv, MaintenanceTypes
  <1> QED
    BY <1>1, MaintenanceInvHolds, PTL

(* IncrementBlobRef, the diffs of both formats and the deletes of both     *)
(* reapers share one count: it never exceeds the references there are, as  *)
(* long as no rebuild has written what was not true any more.              *)
THEOREM NotOverPinnedByAny == MaintenanceSpec => []NeverOverPinnedByAny
  <1>1. MaintenanceInv => NeverOverPinnedByAny
    BY DEF MaintenanceInv
  <1> QED
    BY <1>1, MaintenanceInvHolds, PTL

(* PutMeta, PutMetaWithRefs, UpdateMetaJSON and the two deletes keep the   *)
(* two expiry indexes of the flat entries exact.                           *)
THEOREM FlatBuckets == MaintenanceSpec => []FlatBucketsExact
  <1>1. MaintenanceInv => FlatBucketsExact
    BY DEF MaintenanceInv, MaintenanceTypes, PinsOK, FlatBucketsExact
  <1> QED
    BY <1>1, MaintenanceInvHolds, PTL

LEMMA MaintenanceBatchStaysExpired == MaintenanceSpec => []BatchExpired
  <1>1. MaintenanceInit => BatchExpired
    BY DEF MaintenanceInit, Init, BatchExpired
  <1>2. MaintenanceInv /\ BatchExpired /\ [MaintenanceNext]_allVars => BatchExpired'
    <2> SUFFICES ASSUME MaintenanceInv, BatchExpired, [MaintenanceNext]_allVars
                 PROVE  BatchExpired'
      OBVIOUS
    <2>1. MaintenanceTypes /\ TypeOK /\ Flat!TypeOK /\ ExpiryIndexesExact
      BY DEF MaintenanceInv, MaintenanceTypes
    <2>2. CASE EnvelopeStep
      BY <2>1, <2>2, BatchKept DEF EnvelopeStep
    <2>3. CASE FlatStep \/ RepairStep
      <3>1. expired' = expired /\ now' = now
        BY <2>1, <2>3, RepairTypes DEF FlatStep, RepairStep
      <3> QED
        BY <3>1 DEF BatchExpired
    <2> QED
      BY <2>1, <2>2, <2>3, MaintenanceEffect
  <1> QED
    BY <1>1, <1>2, MaintenanceInvHolds, PTL DEF MaintenanceSpec

(* The envelope reaper deletes only what has expired, whatever the flat    *)
(* entries' reaper and the repairs do between its batch and its deletes.   *)
THEOREM ReapsOnlyExpiredBesideFlat == MaintenanceSpec => ReapOnlyExpired
  <1>1. MaintenanceInv /\ BatchExpired /\ [MaintenanceNext]_allVars => [ReapStep]_vars
    <2> SUFFICES ASSUME MaintenanceInv, BatchExpired, [MaintenanceNext]_allVars,
                        expired' # expired
                 PROVE  ReapStep
      BY DEF ReapStep
    <2>1. TypeOK /\ ExpiryIndexesExact /\ Flat!TypeOK
      BY DEF MaintenanceInv, MaintenanceTypes
    <2>2. Next
      BY DEF MaintenanceNext, allVars, envelopeVars, vars
    <2> QED
      BY <2>1, <2>2, ReapedHadExpired
  <1> QED
    BY <1>1, MaintenanceInvHolds, MaintenanceBatchStaysExpired, PTL
       DEF MaintenanceSpec, ReapOnlyExpired, ReapStep
=============================================================================
