------------------------------- MODULE MetaDB -------------------------------
(***************************************************************************)
(* The metadata database (store/metadb): blob rows with reference counts,  *)
(* metadata envelopes that refer to blobs, the two expiry indexes of the   *)
(* envelopes, and the reaper that deletes expired envelopes.               *)
(*                                                                         *)
(* Every mutating method of BoltDB runs in one bbolt write transaction,    *)
(* and bbolt runs write transactions one at a time, so each is one atomic  *)
(* action.  A transaction that fails is rolled back: a stuttering step.    *)
(* The reaper reads its batch in one transaction and deletes each entry in *)
(* another; everything else may run in between.                            *)
(***************************************************************************)
EXTENDS Integers, FiniteSets

CONSTANTS Hashes,      \* blob references ("blake3:<hex>")
          Keys,        \* envelope keys (protocol, kind, key)
          MaxTime,     \* bound on the clock
          BatchSize,   \* EnvelopeReaper.batchSize
          NoRow,       \* "no row for this hash"
          NoEnvelope   \* "no envelope under this key"

NoExpiry == 0
Time == 0..MaxTime

BlobEntry == [RefCount : Nat, LastAccess : Time]
MetadataEnvelope == [BlobRefs : SUBSET Hashes, ExpiresAt : Time]
ExpiryEntry == Time \X Keys

ASSUME MetaDBAssumption ==
    /\ MaxTime \in Nat
    /\ BatchSize \in Nat \ {0}
    /\ IsFiniteSet(Keys)
    /\ NoRow \notin BlobEntry
    /\ NoEnvelope \notin MetadataEnvelope

VARIABLES
    blobs,        \* bucket blobs_by_hash: hash -> row
    envelopes,    \* bucket envelopes: key -> envelope
    envelopeRefs, \* bucket envelope_blob_refs (a missing value reads as {})
    byExpiry,     \* bucket envelope_by_expiry, the forward index
    expiryByKey,  \* bucket envelope_expiry_by_key, the reverse index
    expired,      \* the entries of the reaper's batch still to be deleted
    now           \* the clock

dbVars == <<blobs, envelopes, envelopeRefs, byExpiry, expiryByKey>>
vars == <<blobs, envelopes, envelopeRefs, byExpiry, expiryByKey, expired, now>>

HasRow(h) == blobs[h] # NoRow
HasEnvelope(k) == envelopes[k] # NoEnvelope

\* The entries that refer to blob h, as the refs bucket has them.
Holders(h) == {k \in Keys : h \in envelopeRefs[k]}

Init ==
    /\ blobs = [h \in Hashes |-> NoRow]
    /\ envelopes = [k \in Keys |-> NoEnvelope]
    /\ envelopeRefs = [k \in Keys |-> {}]
    /\ byExpiry = {}
    /\ expiryByKey = [k \in Keys |-> NoExpiry]
    /\ expired = {}
    /\ now = 0
-----------------------------------------------------------------------------
(* Blob rows.                                                              *)

\* A put overwrites whatever row is there, its count included.
PutBlob(h) ==
    /\ blobs' = [blobs EXCEPT ![h] = [RefCount |-> 0, LastAccess |-> now]]
    /\ UNCHANGED <<envelopes, envelopeRefs, byExpiry, expiryByKey, expired, now>>

DeleteBlob(h) ==
    /\ blobs' = [blobs EXCEPT ![h] = NoRow]
    /\ UNCHANGED <<envelopes, envelopeRefs, byExpiry, expiryByKey, expired, now>>

\* ErrNotFound, and no change, when there is no row.
TouchBlob(h) ==
    /\ HasRow(h)
    /\ blobs' = [blobs EXCEPT ![h].LastAccess = now]
    /\ UNCHANGED <<envelopes, envelopeRefs, byExpiry, expiryByKey, expired, now>>

\* A reference to a blob without a row is not counted anywhere.
IncrementRef(row) ==
    IF row = NoRow THEN row ELSE [row EXCEPT !.RefCount = @ + 1]

DecrementRef_NoFloor(row) ==
    IF row = NoRow THEN row ELSE [row EXCEPT !.RefCount = @ - 1]

DecrementRef(row) ==
    IF row = NoRow THEN row
    ELSE [row EXCEPT !.RefCount = IF @ > 0 THEN @ - 1 ELSE 0]

DiffRefs_CountsKept(oldRefs, newRefs) ==
    [h \in Hashes |-> IF h \in newRefs THEN IncrementRef(blobs[h])
                      ELSE IF h \in oldRefs \ newRefs THEN DecrementRef(blobs[h])
                      ELSE blobs[h]]

\* The rows after a key's references change from oldRefs to newRefs.
DiffRefs(oldRefs, newRefs) ==
    [h \in Hashes |-> IF h \in newRefs \ oldRefs THEN IncrementRef(blobs[h])
                      ELSE IF h \in oldRefs \ newRefs THEN DecrementRef(blobs[h])
                      ELSE blobs[h]]
-----------------------------------------------------------------------------
(* Envelopes.                                                              *)

IndexEntries(k, expiresAt) ==
    IF expiresAt = NoExpiry THEN {} ELSE {<<expiresAt, k>>}

UpdateExpiryIndex_OldEntryStays(k, expiresAt) ==
    /\ byExpiry' = byExpiry \cup IndexEntries(k, expiresAt)
    /\ expiryByKey' = [expiryByKey EXCEPT ![k] = expiresAt]

\* The reverse index finds the old forward entry; NoExpiry only clears.
UpdateExpiryIndex(k, expiresAt) ==
    /\ byExpiry' = (byExpiry \ {<<expiryByKey[k], k>>}) \cup IndexEntries(k, expiresAt)
    /\ expiryByKey' = [expiryByKey EXCEPT ![k] = expiresAt]

\* Shared by PutEnvelope and UpdateEnvelope.
StoreEnvelope(k, env) ==
    /\ blobs' = DiffRefs(envelopeRefs[k], env.BlobRefs)
    /\ envelopeRefs' = [envelopeRefs EXCEPT ![k] = env.BlobRefs]
    /\ envelopes' = [envelopes EXCEPT ![k] = env]
    /\ UpdateExpiryIndex(k, env.ExpiresAt)

RemoveEnvelope_RefsStay(k) ==
    /\ blobs' = DiffRefs(envelopeRefs[k], {})
    /\ envelopes' = [envelopes EXCEPT ![k] = NoEnvelope]
    /\ UpdateExpiryIndex(k, NoExpiry)
    /\ UNCHANGED envelopeRefs

\* Shared by DeleteEnvelope, UpdateEnvelope and DeleteExpiredEnvelope.
RemoveEnvelope(k) ==
    /\ blobs' = DiffRefs(envelopeRefs[k], {})
    /\ envelopeRefs' = [envelopeRefs EXCEPT ![k] = {}]
    /\ envelopes' = [envelopes EXCEPT ![k] = NoEnvelope]
    /\ UpdateExpiryIndex(k, NoExpiry)

\* What a caller may ask for: no expiry, or now plus a positive TTL.
Expiries == {NoExpiry} \cup {t \in Time : t > now}

PutEnvelope(k, refs, expiresAt) ==
    /\ StoreEnvelope(k, [BlobRefs |-> refs, ExpiresAt |-> expiresAt])
    /\ UNCHANGED <<expired, now>>

DeleteEnvelope(k) ==
    /\ RemoveEnvelope(k)
    /\ UNCHANGED <<expired, now>>

\* EnvelopeIndex.Update: an existing envelope keeps its expiry time, a new
\* one gets the index's TTL.
UpdateEnvelope(k, refs, expiresAt) ==
    /\ HasEnvelope(k) => expiresAt = envelopes[k].ExpiresAt
    /\ ~HasEnvelope(k) => expiresAt \in Expiries
    /\ StoreEnvelope(k, [BlobRefs |-> refs, ExpiresAt |-> expiresAt])
    /\ UNCHANGED <<expired, now>>
-----------------------------------------------------------------------------
(* The envelope reaper.                                                    *)

\* The forward index's entries before the clock.
ExpiredEntries == {e \in byExpiry : e[1] < now}

GetExpiredEnvelopes_Late(batch) ==
    /\ expired = {} /\ batch # {}
    /\ batch \subseteq {e \in byExpiry : e[1] + 1 < now}
    /\ expired' = batch
    /\ UNCHANGED <<blobs, envelopes, envelopeRefs, byExpiry, expiryByKey, now>>

\* A batch is the first BatchSize entries in the order of the index.
GetExpiredEnvelopes(batch) ==
    /\ expired = {} /\ batch # {}
    /\ batch \subseteq ExpiredEntries
    /\ \A e \in batch, f \in ExpiredEntries \ batch : e[1] <= f[1]
    /\ Cardinality(batch) <= BatchSize
    /\ Cardinality(batch) < BatchSize => batch = ExpiredEntries
    /\ expired' = batch
    /\ UNCHANGED <<blobs, envelopes, envelopeRefs, byExpiry, expiryByKey, now>>

DeleteExpiredEnvelope_Unconditional(e) ==
    /\ e \in expired
    /\ expired' = expired \ {e}
    /\ RemoveEnvelope(e[2])
    /\ UNCHANGED now

\* A refresh since the batch was read has changed the reverse index.
DeleteExpiredEnvelope(e) ==
    /\ e \in expired
    /\ \A f \in expired : e[1] <= f[1]
    /\ expired' = expired \ {e}
    /\ \/ expiryByKey[e[2]] = e[1] /\ RemoveEnvelope(e[2])
       \/ expiryByKey[e[2]] # e[1] /\ UNCHANGED dbVars
    /\ UNCHANGED now

\* The delete failed: logged, and left to a later batch.
SkipExpiredEnvelope(e) ==
    /\ e \in expired
    /\ \A f \in expired : e[1] <= f[1]
    /\ expired' = expired \ {e}
    /\ UNCHANGED <<blobs, envelopes, envelopeRefs, byExpiry, expiryByKey, now>>

\* The reaper's context is cancelled, or the process stops, inside a batch.
AbandonBatch ==
    /\ expired # {}
    /\ expired' = {}
    /\ UNCHANGED <<blobs, envelopes, envelopeRefs, byExpiry, expiryByKey, now>>

Tick ==
    /\ now < MaxTime
    /\ now' = now + 1
    /\ UNCHANGED <<blobs, envelopes, envelopeRefs, byExpiry, expiryByKey, expired>>
-----------------------------------------------------------------------------
ReaperNext ==
    \/ \E batch \in SUBSET ExpiryEntry : GetExpiredEnvelopes(batch)
    \/ \E e \in ExpiryEntry : DeleteExpiredEnvelope(e) \/ SkipExpiredEnvelope(e)
    \/ AbandonBatch

EnvelopeNext ==
    \E k \in Keys :
        \/ \E refs \in SUBSET Hashes :
              \/ \E t \in Expiries : PutEnvelope(k, refs, t)
              \/ \E t \in Time : UpdateEnvelope(k, refs, t)
        \/ DeleteEnvelope(k)

BlobNext == \E h \in Hashes : PutBlob(h) \/ DeleteBlob(h) \/ TouchBlob(h)

Next == BlobNext \/ EnvelopeNext \/ ReaperNext \/ Tick

Spec == Init /\ [][Next]_vars

\* The reaper's goroutine keeps ticking, and a delete does not fail forever.
ReapKey(k) == \E t \in Time : DeleteExpiredEnvelope(<<t, k>>)

FairSpec ==
    /\ Spec
    /\ WF_vars(\E batch \in SUBSET ExpiryEntry : GetExpiredEnvelopes(batch))
    /\ \A k \in Keys : SF_vars(ReapKey(k))
-----------------------------------------------------------------------------
(***************************************************************************)
(* The order of calls under which reference counts are exact: a row is put *)
(* only when there is none, an envelope refers only to blobs that have a   *)
(* row, and a row is deleted only at count zero.  A single request does    *)
(* follow it (CAFS.Put, then the index's Put; the collectors read a count  *)
(* of zero); module CacheStore shows what concurrent requests do to it.    *)
(***************************************************************************)

PutBlobOnce(h) == ~HasRow(h) /\ PutBlob(h)
DeleteBlobUnreferenced(h) == HasRow(h) /\ blobs[h].RefCount = 0 /\ DeleteBlob(h)
Tracked == {h \in Hashes : HasRow(h)}

OrderedNext ==
    \/ \E h \in Hashes : PutBlobOnce(h) \/ DeleteBlobUnreferenced(h) \/ TouchBlob(h)
    \/ \E k \in Keys :
          \/ \E refs \in SUBSET Tracked :
                \/ \E t \in Expiries : PutEnvelope(k, refs, t)
                \/ \E t \in Time : UpdateEnvelope(k, refs, t)
          \/ DeleteEnvelope(k)
    \/ ReaperNext
    \/ Tick

OrderedSpec == Init /\ [][OrderedNext]_vars
-----------------------------------------------------------------------------
(* Properties.                                                             *)

\* Type invariant of the buckets and of the reaper's batch.
TypeOK ==
    /\ blobs \in [Hashes -> BlobEntry \cup {NoRow}]
    /\ envelopes \in [Keys -> MetadataEnvelope \cup {NoEnvelope}]
    /\ envelopeRefs \in [Keys -> SUBSET Hashes]
    /\ byExpiry \subseteq ExpiryEntry
    /\ expiryByKey \in [Keys -> Time]
    /\ expired \subseteq ExpiryEntry
    /\ now \in Time

\* A blob is never counted more often than entries refer to it, whatever the
\* order of puts, deletes and reaps: a count above the truth would keep a
\* blob from eviction and collection for ever.
NeverOverPinned ==
    \A h \in Hashes : HasRow(h) => blobs[h].RefCount <= Cardinality(Holders(h))

\* The refs bucket agrees with the envelopes: RebuildEnvelopeRefcounts reads
\* the envelopes, every other method reads the bucket.
RefsMirrorEnvelopes ==
    \A k \in Keys :
        envelopeRefs[k] = IF HasEnvelope(k) THEN envelopes[k].BlobRefs ELSE {}

ExpiryOf(k) == IF HasEnvelope(k) THEN envelopes[k].ExpiresAt ELSE NoExpiry

\* Forward and reverse expiry index hold exactly one entry for each envelope
\* that expires, and none for any other key: an extra forward entry would be
\* returned to the reaper for ever, a missing one would never expire.
ExpiryIndexesExact ==
    /\ \A k \in Keys : expiryByKey[k] = ExpiryOf(k)
    /\ byExpiry = {e \in ExpiryEntry : e[1] # NoExpiry /\ e[1] = ExpiryOf(e[2])}

\* The reaper works on a batch read earlier, while requests refresh the same
\* keys: it never deletes an envelope that has not expired.
ReapOnlyExpired ==
    [][\A k \in Keys :
          expired' # expired /\ HasEnvelope(k) /\ envelopes'[k] = NoEnvelope
            => envelopes[k].ExpiresAt # NoExpiry /\ envelopes[k].ExpiresAt < now]_vars

HasExpired(k) == HasEnvelope(k) /\ ExpiryOf(k) # NoExpiry /\ ExpiryOf(k) < now

\* An expired envelope is deleted or refreshed, however small the batches and
\* although batches are abandoned and single deletes fail.
ExpiredIsReaped == \A k \in Keys : HasExpired(k) ~> ~HasExpired(k)

\* In the order above the count is exact, so that zero means unreferenced.
RefCountExact ==
    \A h \in Hashes :
        /\ HasRow(h) => blobs[h].RefCount = Cardinality(Holders(h))
        /\ ~HasRow(h) => Holders(h) = {}

\* In the order above, the counters implement the table of pins.
Pins == INSTANCE PinTable WITH tracked <- Tracked, pins <- envelopeRefs
ImplementsPinTable == Pins!Spec
=============================================================================
