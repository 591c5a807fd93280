---------------------------- MODULE Maintenance -----------------------------
(***************************************************************************)
(* What the metadata database keeps beside module MetaDB's envelopes: the  *)
(* flat entries of the older format (PutMeta and its relatives, with a     *)
(* reaper of their own), pins taken by hand, and the offline repair of the *)
(* reference counts.  The older format is a second instance of MetaDB over *)
(* its own buckets; blob rows and clock are shared, so that one count adds *)
(* up the pins of both formats.                                            *)
(***************************************************************************)
EXTENDS MetaDB

CONSTANTS MetaKeys,  \* keys of flat entries (protocol, key)
          MaxManual, \* bound on pins taken by hand, for each blob
          NoScan     \* "no rebuild under way"

ASSUME MaintenanceAssumption == IsFiniteSet(MetaKeys) /\ MaxManual \in Nat

VARIABLES
    metas,           \* bucket meta: key -> entry; its BlobRefs are those it was put with
    metaRefs,        \* bucket meta_blob_refs
    metaByExpiry,    \* bucket meta_by_expiry
    metaExpiryByKey, \* bucket meta_expiry_by_key
    expiredMeta,     \* what is left of the expiry reaper's batch
    manual,          \* pins that callers of IncrementBlobRef hold
    scan,            \* the references a rebuild has read, or NoScan
    drifted          \* a rebuild has written counts that were not true any more

metaVars == <<metas, metaRefs, metaByExpiry, metaExpiryByKey, expiredMeta>>
repairVars == <<manual, scan, drifted>>
envelopeVars == <<envelopes, envelopeRefs, byExpiry, expiryByKey, expired>>
allVars == <<vars, metaVars, repairVars>>

Flat == INSTANCE MetaDB WITH
    Keys <- MetaKeys, envelopes <- metas, envelopeRefs <- metaRefs,
    byExpiry <- metaByExpiry, expiryByKey <- metaExpiryByKey, expired <- expiredMeta

MaintenanceInit ==
    /\ Init /\ Flat!Init
    /\ manual = [h \in Hashes |-> 0]
    /\ scan = NoScan /\ drifted = FALSE
-----------------------------------------------------------------------------
(* Flat entries.                                                           *)

\* A put without references leaves those of an earlier put in their bucket.
PutMeta(k, expiresAt) ==
    /\ metas' = [metas EXCEPT ![k] = [BlobRefs |-> metaRefs[k], ExpiresAt |-> expiresAt]]
    /\ Flat!UpdateExpiryIndex(k, expiresAt)
    /\ UNCHANGED <<blobs, metaRefs, expiredMeta, now>>

\* Reads (nothing, when there is no entry) and puts in one transaction; the
\* expiry time starts anew.
UpdateMetaJSON(k, expiresAt) == PutMeta(k, expiresAt)

PutMetaWithRefs(k, refs, expiresAt) == Flat!PutEnvelope(k, refs, expiresAt)

DeleteMetaWithRefs(k) == Flat!DeleteEnvelope(k)

DeleteMeta_IndexStays(k) ==
    /\ metas' = [metas EXCEPT ![k] = NoEnvelope]
    /\ UNCHANGED <<blobs, metaRefs, metaByExpiry, metaExpiryByKey, expiredMeta, now>>

\* The entry goes, its references stay.
DeleteMeta(k) ==
    /\ metas' = [metas EXCEPT ![k] = NoEnvelope]
    /\ Flat!UpdateExpiryIndex(k, NoExpiry)
    /\ UNCHANGED <<blobs, metaRefs, expiredMeta, now>>

GetExpiredMeta(batch) == Flat!GetExpiredEnvelopes(batch)

DeleteExpiredMeta(e) == Flat!DeleteExpiredEnvelope(e)

FlatNext ==
    \/ \E k \in MetaKeys :
         \/ \E t \in Expiries : PutMeta(k, t) \/ UpdateMetaJSON(k, t)
         \/ \E refs \in SUBSET Hashes, t \in Expiries : PutMetaWithRefs(k, refs, t)
         \/ DeleteMeta(k) \/ DeleteMetaWithRefs(k)
    \/ \E batch \in SUBSET Flat!ExpiryEntry : GetExpiredMeta(batch)
    \/ \E e \in Flat!ExpiryEntry : DeleteExpiredMeta(e) \/ Flat!SkipExpiredEnvelope(e)
    \/ Flat!AbandonBatch
-----------------------------------------------------------------------------
(* Pins by hand.  Their caller releases what it took.                      *)

IncrementBlobRef(h) ==
    /\ HasRow(h) /\ manual[h] < MaxManual
    /\ blobs' = [blobs EXCEPT ![h] = IncrementRef(@)]
    /\ manual' = [manual EXCEPT ![h] = @ + 1]
    /\ UNCHANGED <<scan, drifted, now>>

DecrementBlobRef(h) ==
    /\ manual[h] > 0
    /\ blobs' = [blobs EXCEPT ![h] = DecrementRef(@)]
    /\ manual' = [manual EXCEPT ![h] = @ - 1]
    /\ UNCHANGED <<scan, drifted, now>>

(* The repair reads the envelopes in one transaction and writes the counts *)
(* in another; flat entries and pins by hand it does not count.            *)

ScanEnvelopes ==
    /\ scan = NoScan
    /\ scan' = [k \in Keys |-> IF HasEnvelope(k) THEN envelopes[k].BlobRefs ELSE {}]
    /\ UNCHANGED <<blobs, manual, drifted, now>>

Counted(refs, h) == Cardinality({k \in Keys : h \in refs[k]})

Recount_AddsUp(row, count) == [row EXCEPT !.RefCount = @ + count]
Recount(row, count) == [row EXCEPT !.RefCount = count]

\* drifted records a scan that was not true any more when it was written.
RebuildEnvelopeRefcounts ==
    /\ scan # NoScan
    /\ blobs' = [h \in Hashes |->
         IF HasRow(h) THEN Recount(blobs[h], Counted(scan, h)) ELSE NoRow]
    /\ drifted' = (drifted \/ scan # envelopeRefs)
    /\ scan' = NoScan
    /\ UNCHANGED <<manual, now>>

\* The second transaction fails and is rolled back, or the process stops.
AbandonRebuild == scan # NoScan /\ scan' = NoScan /\ UNCHANGED <<blobs, manual, drifted, now>>

RepairNext ==
    \/ \E h \in Hashes : IncrementBlobRef(h) \/ DecrementBlobRef(h)
    \/ ScanEnvelopes \/ RebuildEnvelopeRefcounts \/ AbandonRebuild

MaintenanceNext ==
    \/ Next /\ UNCHANGED <<metaVars, repairVars>>
    \/ FlatNext /\ UNCHANGED <<envelopeVars, repairVars>>
    \/ RepairNext /\ UNCHANGED <<envelopeVars, metaVars>>

MaintenanceSpec == MaintenanceInit /\ [][MaintenanceNext]_allVars

\* Both reapers keep ticking, and a delete does not fail for ever.
Reaps(k) == ReapKey(k) /\ UNCHANGED <<metaVars, repairVars>>
ReapsMeta(k) == Flat!ReapKey(k) /\ UNCHANGED <<envelopeVars, repairVars>>

MaintenanceFairSpec ==
    /\ MaintenanceSpec
    /\ WF_allVars((\E batch \in SUBSET ExpiryEntry : GetExpiredEnvelopes(batch))
                    /\ UNCHANGED <<metaVars, repairVars>>)
    /\ WF_allVars((\E batch \in SUBSET Flat!ExpiryEntry : GetExpiredMeta(batch))
                    /\ UNCHANGED <<envelopeVars, repairVars>>)
    /\ \A k \in Keys : SF_allVars(Reaps(k))
    /\ \A k \in MetaKeys : SF_allVars(ReapsMeta(k))
-----------------------------------------------------------------------------
(* Properties.                                                             *)

\* Unless a rebuild has written stale counts, a blob is never counted more
\* often than envelopes, flat entries and callers pin it together
\* (bolt.go:632-700, 741-776; operations.go:101-176).
NeverOverPinnedByAny ==
    drifted \/ \A h \in Hashes : HasRow(h) =>
        blobs[h].RefCount <= Cardinality(Holders(h)) + Cardinality(Flat!Holders(h)) + manual[h]

\* The type invariant of what this module adds; and a flat entry that expires
\* has its one entry in both of its indexes, whichever of five methods wrote
\* it last (bolt.go:267-315).
FlatBucketsExact ==
    /\ Flat!TypeOK /\ Flat!ExpiryIndexesExact
    /\ manual \in [Hashes -> 0..MaxManual]
    /\ scan = NoScan \/ scan \in [Keys -> SUBSET Hashes]
    /\ drifted \in BOOLEAN

\* What has expired, an envelope or a flat entry, is deleted or refreshed in
\* the end, though batches are small, deletes fail and cycles are cut short
\* (envelope_reaper.go:186-215, reaper.go:110-139).
EveryExpiredIsReaped ==
    /\ ExpiredIsReaped
    /\ \A k \in MetaKeys : Flat!HasExpired(k) ~> ~Flat!HasExpired(k)
=============================================================================
