----------------------------- MODULE CacheStore -----------------------------
(***************************************************************************)
(* Blobs on disk beside the metadata database: the content-addressable     *)
(* store (store/cafs.go) that protocol handlers write through, the garbage *)
(* collector (store/gc) and the eviction of blobs, composed with MetaDB.   *)
(* Each call on the database or on the file system is a step of its own;   *)
(* no lock is held from one to the next.                                   *)
(*                                                                         *)
(* Eviction appears with its reads and writes of rows and files only;      *)
(* module S3Fifo has its queues and counters.                              *)
(***************************************************************************)
EXTENDS MetaDB

CONSTANTS Writers,     \* requests being cached
          Collectors,  \* which background deleters run: "gc", "evict"
          Retention,   \* gc.Config.BlobRetentionTTL
          GCBatchSize, \* gc.Config.BatchSize
          MaxFaults    \* bound on failing calls and crashes

ASSUME CacheStoreAssumption ==
    /\ Collectors \subseteq {"gc", "evict"}
    /\ Retention \in Nat
    /\ GCBatchSize \in Nat \ {0}
    /\ MaxFaults \in Nat

VARIABLES
    files,   \* the blobs on disk
    writers, \* writer -> where its request stands
    reader,  \* a request that reads a cached object
    evictor, \* the eviction goroutine
    gc,      \* the collector's goroutine
    faults   \* failures so far

procs == <<writers, reader, evictor, gc>>
cacheVars == <<vars, files, procs, faults>>

Idle == [pc |-> "idle"]

WriterState ==
    {Idle} \cup [pc : {"touch", "row", "file", "cleanup", "index"}, hash : Hashes, key : Keys]
ReaderState == {Idle} \cup [pc : {"delete"}, key : Keys]
EvictorState ==
    {Idle} \cup [pc : {"file", "row"}, hash : Hashes]
           \cup [pc : {"rewrite"}, hash : Hashes, row : BlobEntry]
GCState ==
    {Idle} \cup [pc : {"batch"}, todo : SUBSET Hashes]
           \cup [pc : {"row"}, todo : SUBSET Hashes, hash : Hashes]
           \cup [pc : {"orphans"}, todo : SUBSET Hashes, left : 0..GCBatchSize]
           \cup [pc : {"orphan"}, todo : SUBSET Hashes, left : 1..GCBatchSize, hash : Hashes]

Fault == faults < MaxFaults /\ faults' = faults + 1

CacheInit ==
    /\ Init
    /\ files = {}
    /\ writers = [w \in Writers |-> Idle]
    /\ reader = Idle /\ evictor = Idle /\ gc = Idle
    /\ faults = 0
-----------------------------------------------------------------------------
(* The file system (backend/filesystem.go), whose writes are renames: a    *)
(* file is there as a whole or not at all.                                 *)

Exists(h) == h \in files
Write(h) == files' = files \cup {h}
Remove(h) == files' = files \ {h}  \* no error if there is none
List == files                      \* without temporary files
-----------------------------------------------------------------------------
(* A request caches a blob: CAFS.PutWithResult or PutFramed, then the      *)
(* protocol's index.                                                       *)

Goto(w, pc) == writers' = [writers EXCEPT ![w].pc = pc]
Done(w) == writers' = [writers EXCEPT ![w] = Idle]

CheckExists_NotAsked(w, h, k) ==
    /\ writers[w] = Idle
    /\ writers' = [writers EXCEPT ![w] = [pc |-> "row", hash |-> h, key |-> k]]
    /\ UNCHANGED <<vars, files, reader, evictor, gc, faults>>

\* The content has been received and hashed: does its file exist?
CheckExists(w, h, k) ==
    /\ writers[w] = Idle
    /\ writers' = [writers EXCEPT
         ![w] = [pc |-> IF Exists(h) THEN "touch" ELSE "row", hash |-> h, key |-> k]]
    /\ UNCHANGED <<vars, files, reader, evictor, gc, faults>>

\* It does: touch the row.  That there is none, or an error, is only logged.
TouchExisting(w) ==
    /\ writers[w].pc = "touch"
    /\ TouchBlob(writers[w].hash) \/ UNCHANGED vars
    /\ Goto(w, "index")
    /\ UNCHANGED <<files, reader, evictor, gc, faults>>

PutRow_Forgotten(w) ==
    /\ writers[w].pc = "row"
    /\ Goto(w, "file")
    /\ UNCHANGED <<vars, files, reader, evictor, gc, faults>>

\* It does not: the row is put before the file is written.
PutRow(w) ==
    /\ writers[w].pc = "row"
    /\ PutBlob(writers[w].hash)
    /\ Goto(w, "file")
    /\ UNCHANGED <<files, reader, evictor, gc, faults>>

\* backend.Write renames a complete temporary file into place.
WriteFile(w) ==
    /\ writers[w].pc = "file"
    /\ Write(writers[w].hash)
    /\ Goto(w, "index")
    /\ UNCHANGED <<vars, reader, evictor, gc, faults>>

WriteFails(w) ==
    /\ writers[w].pc = "file"
    /\ Goto(w, "cleanup")
    /\ Fault
    /\ UNCHANGED <<vars, files, reader, evictor, gc>>

\* The row goes if the file could not be written.
Cleanup(w) ==
    /\ writers[w].pc = "cleanup"
    /\ DeleteBlob(writers[w].hash)
    /\ Done(w)
    /\ UNCHANGED <<files, reader, evictor, gc, faults>>

\* The handler's index entry.  The build cache's carries no reference.
PutIndex(w, refs, t) ==
    /\ writers[w].pc = "index"
    /\ refs \in {{}, {writers[w].hash}} /\ t \in Expiries
    /\ PutEnvelope(writers[w].key, refs, t)
    /\ Done(w)
    /\ UNCHANGED <<files, reader, evictor, gc, faults>>

\* The row or the index cannot be written: the request ends.  In the second
\* case the blob stays, unreferenced.
RequestFails(w) ==
    /\ writers[w].pc \in {"row", "index"}
    /\ Done(w)
    /\ Fault
    /\ UNCHANGED <<vars, files, reader, evictor, gc>>
-----------------------------------------------------------------------------
(* A request reads: the envelope, then the blob it refers to.              *)

\* The blob is there: it is served, and its row touched in the background.
ServeBlob(h) ==
    /\ h \in files /\ TouchBlob(h)
    /\ UNCHANGED <<files, procs, faults>>

\* The blob is missing: some handlers delete the entry, in a later step.
MissBlob(k) ==
    /\ reader = Idle
    /\ HasEnvelope(k) /\ ~(envelopes[k].BlobRefs \subseteq files)
    /\ reader' = [pc |-> "delete", key |-> k]
    /\ UNCHANGED <<vars, files, writers, evictor, gc, faults>>

DropEntry ==
    /\ reader.pc = "delete"
    /\ DeleteEnvelope(reader.key)
    /\ reader' = Idle
    /\ UNCHANGED <<files, writers, evictor, gc, faults>>
-----------------------------------------------------------------------------
(* Eviction (store/s3fifo: evictFromSmall, evictFromMain and               *)
(* deleteFromBackend).                                                     *)

Evictable(h) == evictor = Idle /\ "evict" \in Collectors /\ HasRow(h) /\ blobs[h].RefCount = 0

SelectVictim(h) ==
    /\ Evictable(h)
    /\ evictor' = [pc |-> "file", hash |-> h]
    /\ UNCHANGED <<vars, files, writers, reader, gc, faults>>

EvictFile ==
    /\ evictor.pc = "file"
    /\ Remove(evictor.hash)
    /\ evictor' = [evictor EXCEPT !.pc = "row"]
    /\ UNCHANGED <<vars, writers, reader, gc, faults>>

EvictRow ==
    /\ evictor.pc = "row"
    /\ DeleteBlob(evictor.hash)
    /\ evictor' = Idle
    /\ UNCHANGED <<files, writers, reader, gc, faults>>

\* deleteFromBackend fails: back into its queue.
EvictFails ==
    /\ evictor.pc \in {"file", "row"}
    /\ evictor' = Idle
    /\ Fault
    /\ UNCHANGED <<vars, files, writers, reader, gc>>

\* A second chance reads a row and writes it back with one hit less.
ReadRow(h) ==
    /\ Evictable(h)
    /\ evictor' = [pc |-> "rewrite", hash |-> h, row |-> blobs[h]]
    /\ UNCHANGED <<vars, files, writers, reader, gc, faults>>

RewriteRow ==
    /\ evictor.pc = "rewrite"
    /\ blobs' = [blobs EXCEPT ![evictor.hash] = evictor.row]
    /\ evictor' = Idle
    /\ UNCHANGED <<envelopes, envelopeRefs, byExpiry, expiryByKey, expired, now,
                   files, writers, reader, gc, faults>>
-----------------------------------------------------------------------------
(* Garbage collection (store/gc/phases.go).                                *)

Unreferenced ==
    {h \in Hashes : HasRow(h) /\ blobs[h].RefCount = 0
                              /\ blobs[h].LastAccess + Retention <= now}

\* GetUnreferencedBlobs returns at most GCBatchSize hashes.
StartGC(batch) ==
    /\ gc = Idle /\ "gc" \in Collectors
    /\ batch \subseteq Unreferenced /\ Cardinality(batch) <= GCBatchSize
    /\ Cardinality(batch) < GCBatchSize => batch = Unreferenced
    /\ gc' = [pc |-> "batch", todo |-> batch]
    /\ UNCHANGED <<vars, files, writers, reader, evictor, faults>>

CollectFile_StaysInBatch(h) ==
    /\ gc.pc = "batch" /\ h \in gc.todo
    /\ Remove(h)
    /\ gc' = [pc |-> "row", todo |-> gc.todo, hash |-> h]
    /\ UNCHANGED <<vars, writers, reader, evictor, faults>>

\* deleteBlob: the file, then the row; what the row says now is not asked.
CollectFile(h) ==
    /\ gc.pc = "batch" /\ h \in gc.todo
    /\ Remove(h)
    /\ gc' = [pc |-> "row", todo |-> gc.todo \ {h}, hash |-> h]
    /\ UNCHANGED <<vars, writers, reader, evictor, faults>>

CollectRow ==
    /\ gc.pc = "row"
    /\ DeleteBlob(gc.hash)
    /\ gc' = [pc |-> "batch", todo |-> gc.todo]
    /\ UNCHANGED <<files, writers, reader, evictor, faults>>

\* deleteBlob fails before the file is gone, or after: on to the next one.
CollectFails(h) ==
    /\ \/ gc.pc = "batch" /\ h \in gc.todo
       \/ gc.pc = "row" /\ h = gc.hash
    /\ gc' = [pc |-> "batch", todo |-> gc.todo \ {h}]
    /\ Fault
    /\ UNCHANGED <<vars, files, writers, reader, evictor>>

\* phaseDeleteOrphans lists the files,
ListFiles ==
    /\ gc.pc = "batch" /\ gc.todo = {}
    /\ gc' = [pc |-> "orphans", todo |-> List, left |-> GCBatchSize]
    /\ UNCHANGED <<vars, files, writers, reader, evictor, faults>>

Checking(h) == gc.pc = "orphans" /\ h \in gc.todo /\ gc.left > 0

CheckOrphan_RowsOnly(h) ==
    /\ Checking(h)
    /\ gc' = [gc EXCEPT !.todo = @ \ {h}]
    /\ UNCHANGED <<vars, files, writers, reader, evictor, faults>>

\* looks for the row of each,
CheckOrphan(h) ==
    /\ Checking(h)
    /\ gc' = IF HasRow(h) THEN [gc EXCEPT !.todo = @ \ {h}]
             ELSE [pc |-> "orphan", todo |-> gc.todo \ {h}, left |-> gc.left, hash |-> h]
    /\ UNCHANGED <<vars, files, writers, reader, evictor, faults>>

\* and deletes those that have none, at most GCBatchSize of them.
DeleteOrphan ==
    /\ gc.pc = "orphan"
    /\ Remove(gc.hash)
    /\ gc' = [pc |-> "orphans", todo |-> gc.todo, left |-> gc.left - 1]
    /\ UNCHANGED <<vars, writers, reader, evictor, faults>>

\* The row cannot be read, or the file not deleted: on to the next one.
OrphanFails(h) ==
    /\ \/ Checking(h)
       \/ gc.pc = "orphan" /\ h = gc.hash
    /\ gc' = [pc |-> "orphans", todo |-> gc.todo \ {h}, left |-> gc.left]
    /\ Fault
    /\ UNCHANGED <<vars, files, writers, reader, evictor>>

EndGC ==
    /\ gc.pc = "orphans" /\ (gc.todo = {} \/ gc.left = 0)
    /\ gc' = Idle
    /\ UNCHANGED <<vars, files, writers, reader, evictor, faults>>
-----------------------------------------------------------------------------
\* The process stops between any two steps; the database and the files stay.
Crash ==
    /\ writers' = [w \in Writers |-> Idle]
    /\ reader' = Idle /\ evictor' = Idle /\ gc' = Idle
    /\ expired' = {}
    /\ Fault
    /\ UNCHANGED <<dbVars, now, files>>

\* The envelope reaper and the clock, beside the store.
Reap == ReaperNext /\ UNCHANGED <<files, procs, faults>>
Clock == Tick /\ UNCHANGED <<files, procs, faults>>

WriterNext ==
    \E w \in Writers :
        \/ \E h \in Hashes, k \in Keys : CheckExists(w, h, k)
        \/ TouchExisting(w) \/ PutRow(w) \/ WriteFile(w) \/ WriteFails(w) \/ Cleanup(w)
        \/ \E refs \in SUBSET Hashes, t \in Time : PutIndex(w, refs, t)
        \/ RequestFails(w)

ReaderNext ==
    \/ \E h \in Hashes : ServeBlob(h)
    \/ \E k \in Keys : MissBlob(k)
    \/ DropEntry

EvictorNext ==
    \/ \E h \in Hashes : SelectVictim(h) \/ ReadRow(h)
    \/ EvictFile \/ EvictRow \/ EvictFails \/ RewriteRow

GCStep ==
    \/ \E batch \in SUBSET Hashes : StartGC(batch)
    \/ \E h \in Hashes : CollectFile(h) \/ CheckOrphan(h)
    \/ CollectRow \/ ListFiles \/ DeleteOrphan \/ EndGC

GCFault == \E h \in Hashes : CollectFails(h) \/ OrphanFails(h)

CacheNext ==
    \/ WriterNext \/ ReaderNext \/ EvictorNext \/ GCStep \/ GCFault
    \/ Crash \/ Reap \/ Clock

CacheSpec == CacheInit /\ [][CacheNext]_cacheVars

\* The collector runs every Interval, and a crashed process starts again.
CacheFairSpec == CacheSpec /\ WF_cacheVars(GCStep)
-----------------------------------------------------------------------------
(* Properties.                                                             *)

\* Type invariant of the processes; the collector deals with a blob once.
CacheTypeOK ==
    /\ files \subseteq Hashes
    /\ writers \in [Writers -> WriterState]
    /\ reader \in ReaderState
    /\ evictor \in EvictorState
    /\ gc \in GCState
    /\ gc.pc \in {"row", "orphan"} => gc.hash \notin gc.todo
    /\ faults \in 0..MaxFaults

\* "concurrent readers never see a blob on disk without a corresponding DB
\* row": the order row, file on the way in.
RowBeforeFile == \A h \in files : HasRow(h)

\* What requests do to the database, when nothing else deletes blobs and they
\* come one at a time, is the order under which reference counts are exact.
FollowsOrder == OrderedSpec

\* What a crash, a failed write or a lost race leaves behind: a file without a
\* row, or an unreferenced row without a file.
Debris(h) ==
    \/ h \in files /\ ~HasRow(h)
    \/ h \notin files /\ HasRow(h) /\ blobs[h].RefCount = 0

\* The collector removes all of it.
DebrisIsReclaimed == \A h \in Hashes : Debris(h) ~> ~Debris(h)

\* "deletes blobs without metadata references": at the time it deletes them.
CollectsOnlyUnreferenced ==
    [][\A h \in Hashes : gc.pc = "row" /\ gc' # gc /\ HasRow(h) /\ blobs[h].RefCount > 0
          => blobs'[h] # NoRow]_cacheVars

\* "ref will be set when blob is stored": a stored blob is counted once for
\* each entry that refers to it.
NeverUnderPinned ==
    \A h \in Hashes : HasRow(h) => blobs[h].RefCount >= Cardinality(Holders(h))
=============================================================================
