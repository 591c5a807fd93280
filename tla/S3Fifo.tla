------------------------------- MODULE S3Fifo -------------------------------
(***************************************************************************)
(* Size-based eviction (store/s3fifo): the small and main FIFO queues and  *)
(* the ghost set, persisted in bbolt; the byte and length counters the     *)
(* manager keeps in memory; the eviction goroutine; and what runs beside   *)
(* it: uploads that admit new blobs, the garbage collector, which deletes  *)
(* blobs and calls Remove, envelopes that pin and unpin, cache hits, and   *)
(* restarts.                                                               *)
(*                                                                         *)
(* queueMu: Admit holds it shared from its ghost check to its counters;    *)
(* Remove, each eviction candidate, and the end of a pending eviction hold *)
(* it exclusively.  A step below is atomic where the lock makes it so.     *)
(***************************************************************************)
EXTENDS Integers, Sequences, FiniteSets, FiniteSetsExt

CONSTANTS Hashes,            \* blob references
          Putters,           \* concurrent uploads
          Size,              \* size of each blob
          MaxSize,           \* Config.MaxSize
          SmallQueuePercent, \* Config.SmallQueuePercent
          GhostMaxEntries,   \* Config.GhostMaxEntries, 0 for automatic
          GhostFloor,        \* ghostFloor
          MaxAccess,         \* cap of AccessCount (3 in TouchBlob)
          NoRow,             \* "no row for this hash"
          MaxOps,            \* bound on new uploads and cache hits
          MaxFaults,         \* bound on failing calls and restarts together
          MaxRestarts        \* bound on restarts

QueueNames == {"small", "main"}
Places == QueueNames \cup {"ghost"}
SmallTarget == (MaxSize * SmallQueuePercent) \div 100
BlobEntry == [RefCount : 0..1, AccessCount : 0..MaxAccess]

ASSUME S3FifoAssumption ==
    /\ IsFiniteSet(Hashes)
    /\ Size \in [Hashes -> Nat \ {0}]
    /\ MaxSize \in Nat \ {0} /\ SmallQueuePercent \in 1..100
    /\ GhostMaxEntries \in Nat /\ GhostFloor \in Nat
    /\ {MaxAccess, MaxOps, MaxFaults, MaxRestarts} \subseteq Nat
    /\ NoRow \notin BlobEntry

VARIABLES
    rows,      \* blobs_by_hash: hash -> row
    files,     \* the blobs on disk
    queues,    \* name -> the queue's hashes, oldest first
    ghost,     \* the ghost set, oldest first
    bytes,     \* smallBytes and mainBytes, by queue name
    len,       \* smallLen and mainLen, by queue name
    ghostLen,  \* ghostLen
    evictCh,   \* whether the one-slot wake-up channel is full
    worker,    \* the eviction goroutine
    putters,   \* the uploads
    collector, \* the garbage collector's goroutine
    used       \* how much of each bound is used up

counters == <<bytes, len, ghostLen>>
vars == <<rows, files, queues, ghost, counters, evictCh, worker, putters, collector, used>>

Idle == [pc |-> "idle"]
Scan(queue, attempts) == [pc |-> "scan", queue |-> queue, attempts |-> attempts]
Pending(pc, queue, h) == [pc |-> pc, queue |-> queue, hash |-> h]

WorkerState ==
    {Idle} \cup [pc : {"scan"}, queue : QueueNames, attempts : Nat]
           \cup [pc : {"reinsert"}, hash : Hashes, row : BlobEntry]
           \cup [pc : {"file", "row", "finish", "restore"}, queue : QueueNames, hash : Hashes]
PutterState ==
    {Idle} \cup [pc : {"write", "admit"}, hash : Hashes]
           \cup [pc : {"checked"}, hash : Hashes, inGhost : BOOLEAN]
CollectorState ==
    {Idle} \cup [pc : {"file"}, hash : Hashes]
           \cup [pc : {"row", "hook"}, hash : Hashes, size : Nat]

Entries(s) == {s[i] : i \in DOMAIN s}

\* Removal finds the entry in the index by hash: a queue holds a hash once.
Without(s, h) ==
    IF h \notin Entries(s) THEN s
    ELSE LET p == CHOOSE i \in DOMAIN s : s[i] = h
         IN  [i \in 1..(Len(s) - 1) |-> s[IF i < p THEN i ELSE i + 1]]

HasRow(h) == rows[h] # NoRow
Pinned(h) == HasRow(h) /\ rows[h].RefCount > 0
TotalSize(S) == MapThenSumSet(LAMBDA h : Size[h], S)
FloorSub(a, b) == IF a > b THEN a - b ELSE 0

\* txPushHead: an entry already in the queue moves to its head.
PushHead(s, h) == Append(Without(s, h), h)

OverLimit == bytes["small"] + bytes["main"] > MaxSize

\* A signal is dropped when the channel already holds one.
SignalIf(progress) == evictCh' = (evictCh \/ (progress /\ OverLimit'))

UseOp == used["ops"] < MaxOps /\ used' = [used EXCEPT !["ops"] = @ + 1]
Fault(kind) ==
    /\ used["faults"] + used["restarts"] < MaxFaults
    /\ used' = [used EXCEPT ![kind] = @ + 1]

Init ==
    /\ rows = [h \in Hashes |-> NoRow]
    /\ files = {}
    /\ queues = [q \in QueueNames |-> <<>>]
    /\ ghost = <<>>
    /\ bytes = [q \in QueueNames |-> 0]
    /\ len = [q \in QueueNames |-> 0]
    /\ ghostLen = 0
    /\ evictCh = FALSE
    /\ worker = Idle
    /\ putters = [p \in Putters |-> Idle]
    /\ collector = Idle
    /\ used = [ops |-> 0, faults |-> 0, restarts |-> 0]
-----------------------------------------------------------------------------
(* Locking.                                                                *)

SharedLocked == \E p \in Putters : putters[p].pc = "checked"
ExclusiveLocked == worker.pc = "reinsert"
CanLock == ~SharedLocked /\ ~ExclusiveLocked
-----------------------------------------------------------------------------
(* Uploads.                                                                *)

\* CAFS.PutWithResult finds no file.  (When it finds one: TouchBlob.)
BeginPut(p, h) ==
    /\ putters[p] = Idle /\ h \notin files
    /\ putters' = [putters EXCEPT ![p] = [pc |-> "write", hash |-> h]]
    /\ UseOp
    /\ UNCHANGED <<rows, files, queues, ghost, counters, evictCh, worker, collector>>

\* The row, then the file.  What happens between the two: module CacheStore.
StoreBlob(p) ==
    /\ putters[p].pc = "write"
    /\ LET h == putters[p].hash IN
         /\ rows' = [rows EXCEPT ![h] = [RefCount |-> 0, AccessCount |-> 0]]
         /\ files' = files \cup {h}
         /\ putters' = [putters EXCEPT ![p] = [pc |-> "admit", hash |-> h]]
    /\ UNCHANGED <<queues, ghost, counters, evictCh, worker, collector, used>>

\* Admit takes the shared lock and reads the ghost set.
CheckGhost(p) ==
    /\ putters[p].pc = "admit" /\ ~ExclusiveLocked
    /\ LET h == putters[p].hash IN
         putters' = [putters EXCEPT
            ![p] = [pc |-> "checked", hash |-> h, inGhost |-> h \in Entries(ghost)]]
    /\ UNCHANGED <<rows, files, queues, ghost, counters, evictCh, worker, collector, used>>

\* The ghost set cannot be read: the blob is taken for a new one.
CheckGhostFails(p) ==
    /\ putters[p].pc = "admit" /\ ~ExclusiveLocked
    /\ putters' = [putters EXCEPT
         ![p] = [pc |-> "checked", hash |-> putters[p].hash, inGhost |-> FALSE]]
    /\ Fault("faults")
    /\ UNCHANGED <<rows, files, queues, ghost, counters, evictCh, worker, collector>>

CountIn(q, h) ==
    /\ bytes' = [bytes EXCEPT ![q] = @ + Size[h]]
    /\ len' = [len EXCEPT ![q] = @ + 1]

AdmitToSmall(h) ==
    /\ queues' = [queues EXCEPT !["small"] = PushHead(@, h)]
    /\ UNCHANGED <<ghost, ghostLen>>
    /\ IF h \in Entries(queues["small"])
         THEN UNCHANGED <<bytes, len, evictCh>>
         ELSE CountIn("small", h) /\ SignalIf(TRUE)

\* AdmitGhostHit: the entry may be gone since the check, taken by another
\* upload.  Whether main held the hash already is not asked.
AdmitGhostHit(h) ==
    IF h \notin Entries(ghost)
      THEN UNCHANGED <<queues, ghost, counters, evictCh>>
      ELSE /\ ghost' = Without(ghost, h)
           /\ queues' = [queues EXCEPT !["main"] = PushHead(@, h)]
           /\ CountIn("main", h)
           /\ ghostLen' = FloorSub(ghostLen, 1)
           /\ SignalIf(TRUE)

Admit(p) ==
    /\ putters[p].pc = "checked"
    /\ IF putters[p].inGhost THEN AdmitGhostHit(putters[p].hash)
                             ELSE AdmitToSmall(putters[p].hash)
    /\ putters' = [putters EXCEPT ![p] = Idle]
    /\ UNCHANGED <<rows, files, worker, collector, used>>

\* The queue write fails: the blob stays on disk, in no queue.
AdmitFails(p) ==
    /\ putters[p].pc = "checked"
    /\ putters' = [putters EXCEPT ![p] = Idle]
    /\ Fault("faults")
    /\ UNCHANGED <<rows, files, queues, ghost, counters, evictCh, worker, collector>>

\* TouchBlob, for a cache hit or a repeated upload.
TouchBlob(h) ==
    /\ HasRow(h) /\ rows[h].AccessCount < MaxAccess
    /\ rows' = [rows EXCEPT ![h].AccessCount = @ + 1]
    /\ UseOp
    /\ UNCHANGED <<files, queues, ghost, counters, evictCh, worker, putters, collector>>

\* An envelope takes its first reference, or drops its last one.
SetRefCount(h, n) ==
    /\ HasRow(h) /\ rows[h].RefCount # n
    /\ rows' = [rows EXCEPT ![h].RefCount = n]
    /\ UNCHANGED <<files, queues, ghost, counters, evictCh, worker, putters, collector, used>>

PinBlob(h) == SetRefCount(h, 1)
UnpinBlob(h) == SetRefCount(h, 0)
-----------------------------------------------------------------------------
(* The garbage collector (store/gc, deleteBlob and the orphan phase).      *)

\* A blob of the batch that GetUnreferencedBlobs returned.
CollectBlob(h) ==
    /\ collector = Idle
    /\ HasRow(h) /\ ~Pinned(h)
    /\ collector' = [pc |-> "file", hash |-> h]
    /\ UNCHANGED <<rows, files, queues, ghost, counters, evictCh, worker, putters, used>>

\* GetBlob, for the size alone, and backend.Delete.
CollectFile ==
    /\ collector.pc = "file"
    /\ LET h == collector.hash IN
         /\ files' = files \ {h}
         /\ collector' = [pc |-> "row", hash |-> h,
                          size |-> IF HasRow(h) THEN Size[h] ELSE 0]
    /\ UNCHANGED <<rows, queues, ghost, counters, evictCh, worker, putters, used>>

CollectRow ==
    /\ collector.pc = "row"
    /\ rows' = [rows EXCEPT ![collector.hash] = NoRow]
    /\ collector' = [collector EXCEPT !.pc = "hook"]
    /\ UNCHANGED <<files, queues, ghost, counters, evictCh, worker, putters, used>>

Remove_LenOfBoth(h, size, places) ==
    LET has(q) == q \in places /\ h \in Entries(queues[q]) IN
      /\ queues' = [q \in QueueNames |-> IF has(q) THEN Without(queues[q], h) ELSE queues[q]]
      /\ bytes' = [q \in QueueNames |-> IF has(q) THEN FloorSub(bytes[q], size) ELSE bytes[q]]
      /\ len' = [q \in QueueNames |-> FloorSub(len[q], 1)]
      /\ IF "ghost" \in places /\ h \in Entries(ghost)
           THEN ghost' = Without(ghost, h) /\ ghostLen' = FloorSub(ghostLen, 1)
           ELSE UNCHANGED <<ghost, ghostLen>>

\* Manager.Remove: out of both queues and the ghost set; places are those
\* where the removal succeeds.
Remove(h, size, places) ==
    LET has(q) == q \in places /\ h \in Entries(queues[q]) IN
      /\ queues' = [q \in QueueNames |-> IF has(q) THEN Without(queues[q], h) ELSE queues[q]]
      /\ bytes' = [q \in QueueNames |-> IF has(q) THEN FloorSub(bytes[q], size) ELSE bytes[q]]
      /\ len' = [q \in QueueNames |-> IF has(q) THEN FloorSub(len[q], 1) ELSE len[q]]
      /\ IF "ghost" \in places /\ h \in Entries(ghost)
           THEN ghost' = Without(ghost, h) /\ ghostLen' = FloorSub(ghostLen, 1)
           ELSE UNCHANGED <<ghost, ghostLen>>

CollectHook(places) ==
    /\ collector.pc = "hook" /\ CanLock
    /\ Remove(collector.hash, collector.size, places)
    /\ collector' = Idle
    /\ IF places = Places THEN UNCHANGED used ELSE Fault("faults")
    /\ UNCHANGED <<rows, files, evictCh, worker, putters>>

\* The file or the row cannot be deleted: the hook is not called.
CollectFails ==
    /\ collector.pc \in {"file", "row"}
    /\ collector' = Idle
    /\ Fault("faults")
    /\ UNCHANGED <<rows, files, queues, ghost, counters, evictCh, worker, putters>>

\* A file without a row is deleted, and the eviction manager is not told.
\* What happens between the look and the deletion: module CacheStore.
CollectOrphan(h) ==
    /\ collector = Idle
    /\ h \in files /\ ~HasRow(h)
    /\ files' = files \ {h}
    /\ UNCHANGED <<rows, queues, ghost, counters, evictCh, worker, putters, collector, used>>
-----------------------------------------------------------------------------
(* The eviction goroutine: run, maybeEvict, scanEvictionQueue.             *)

\* A signal or the ticker; under the limit a pass does nothing.
MaybeEvict ==
    /\ worker = Idle
    /\ evictCh \/ OverLimit
    /\ evictCh' \in IF OverLimit THEN {FALSE, evictCh} ELSE {FALSE}
    /\ worker' = IF OverLimit THEN Scan("small", len["small"]) ELSE Idle
    /\ UNCHANGED <<rows, files, queues, ghost, counters, putters, collector, used>>

ScanOver_Unbounded ==
    \/ ~OverLimit
    \/ worker.queue = "small" /\ (bytes["small"] <= SmallTarget \/ len["small"] = 0)
    \/ worker.queue = "main" /\ len["main"] = 0

ScanOver ==
    \/ worker.attempts = 0
    \/ ~OverLimit
    \/ worker.queue = "small" /\ (bytes["small"] <= SmallTarget \/ len["small"] = 0)
    \/ worker.queue = "main" /\ len["main"] = 0

EndScan_SmallOnly ==
    /\ worker.pc = "scan" /\ ScanOver
    /\ worker' = Idle
    /\ UNCHANGED <<rows, files, queues, ghost, counters, evictCh, putters, collector, used>>

\* Small could not contribute: try main.  Main could not: allow an overrun.
EndScan ==
    /\ worker.pc = "scan" /\ ScanOver
    /\ worker' = IF worker.queue = "small" THEN Scan("main", len["main"]) ELSE Idle
    /\ UNCHANGED <<rows, files, queues, ghost, counters, evictCh, putters, collector, used>>

Selecting == worker.pc = "scan" /\ ~ScanOver /\ CanLock
Oldest == Head(queues[worker.queue])

\* The scan goes on to a candidate h: the tail of the scanned queue.
Candidate(q, h) ==
    /\ Selecting /\ q = worker.queue
    /\ queues[q] # <<>> /\ h = Oldest

\* The pass made its decision, and looks at the limit again.
Decided ==
    /\ worker' = Idle
    /\ SignalIf(TRUE)

\* ErrQueueEmpty counts as a decision.
PopEmptyQueue ==
    /\ Selecting /\ queues[worker.queue] = <<>>
    /\ UNCHANGED <<rows, files, queues, ghost, counters, putters, collector, used>>
    /\ Decided

\* No row: the entry is dropped, its bytes stay counted.
DropOrphan(q, h) ==
    /\ Candidate(q, h) /\ ~HasRow(h)
    /\ queues' = [queues EXCEPT ![q] = Tail(@)]
    /\ len' = [len EXCEPT ![q] = @ - 1]
    /\ UNCHANGED <<rows, files, ghost, bytes, ghostLen, putters, collector, used>>
    /\ Decided

\* Pinned: to the head again, and on to the next candidate.
SkipPinned(q, h) ==
    /\ Candidate(q, h) /\ Pinned(h)
    /\ queues' = [queues EXCEPT ![q] = PushHead(@, h)]
    /\ worker' = Scan(q, worker.attempts - 1)
    /\ UNCHANGED <<rows, files, ghost, counters, evictCh, putters, collector, used>>

Promote_BytesLost(h) ==
    /\ Candidate("small", h)
    /\ HasRow(h) /\ ~Pinned(h) /\ rows[h].AccessCount > 0
    /\ queues' = [small |-> Tail(queues["small"]), main |-> PushHead(queues["main"], h)]
    /\ bytes' = [bytes EXCEPT !["small"] = @ - Size[h]]
    /\ len' = [small |-> len["small"] - 1, main |-> len["main"] + 1]
    /\ UNCHANGED <<rows, files, ghost, ghostLen, putters, collector, used>>
    /\ Decided

\* Hit since it was admitted: from small to the head of main.
Promote(h) ==
    /\ Candidate("small", h)
    /\ HasRow(h) /\ ~Pinned(h) /\ rows[h].AccessCount > 0
    /\ queues' = [small |-> Tail(queues["small"]), main |-> PushHead(queues["main"], h)]
    /\ bytes' = [small |-> bytes["small"] - Size[h], main |-> bytes["main"] + Size[h]]
    /\ len' = [small |-> len["small"] - 1, main |-> len["main"] + 1]
    /\ UNCHANGED <<rows, files, ghost, ghostLen, putters, collector, used>>
    /\ Decided

\* Main's candidate has been hit.  Its row is read here and written back in
\* Reinsert; the manager's locks do not cover the rows.
SecondChance(h) ==
    /\ Candidate("main", h)
    /\ HasRow(h) /\ ~Pinned(h) /\ rows[h].AccessCount > 0
    /\ queues' = [queues EXCEPT !["main"] = Tail(@)]
    /\ len' = [len EXCEPT !["main"] = @ - 1]
    /\ worker' = [pc |-> "reinsert", hash |-> h, row |-> rows[h]]
    /\ UNCHANGED <<rows, files, ghost, bytes, ghostLen, evictCh, putters, collector, used>>

BackToMain(h) ==
    /\ queues' = [queues EXCEPT !["main"] = PushHead(@, h)]
    /\ len' = [len EXCEPT !["main"] = @ + 1]

Reinsert ==
    /\ worker.pc = "reinsert"
    /\ rows' = [rows EXCEPT ![worker.hash] = [worker.row EXCEPT !.AccessCount = @ - 1]]
    /\ BackToMain(worker.hash)
    /\ UNCHANGED <<files, ghost, bytes, ghostLen, putters, collector, used>>
    /\ Decided

ReinsertFails ==
    /\ worker.pc = "reinsert"
    /\ BackToMain(worker.hash)
    /\ worker' = Idle
    /\ Fault("faults")
    /\ UNCHANGED <<rows, files, ghost, bytes, ghostLen, evictCh, putters, collector>>

\* Never hit: out of its queue and its counters; the blob is deleted later,
\* outside the locks.
SelectVictim(q, h) ==
    /\ Candidate(q, h)
    /\ HasRow(h) /\ ~Pinned(h) /\ rows[h].AccessCount = 0
    /\ queues' = [queues EXCEPT ![q] = Tail(@)]
    /\ bytes' = [bytes EXCEPT ![q] = @ - Size[h]]
    /\ len' = [len EXCEPT ![q] = @ - 1]
    /\ worker' = Pending("file", q, h)
    /\ UNCHANGED <<rows, files, ghost, ghostLen, evictCh, putters, collector, used>>

\* GetBlob fails, or the push to main does: the candidate goes back to the
\* head of its queue, or is lost when that push fails too, and the pass ends
\* with an error.
CandidateFails(q, h) ==
    /\ Candidate(q, h)
    /\ queues' \in {[queues EXCEPT ![q] = PushHead(@, h)], [queues EXCEPT ![q] = Tail(@)]}
    /\ worker' = Idle
    /\ Fault("faults")
    /\ UNCHANGED <<rows, files, ghost, counters, evictCh, putters, collector>>

\* A pinned candidate, or one in its second chance, cannot be pushed back.
CandidateLost(q, h) ==
    /\ Candidate(q, h) /\ HasRow(h)
    /\ Pinned(h) \/ (q = "main" /\ rows[h].AccessCount > 0)
    /\ queues' = [queues EXCEPT ![q] = Tail(@)]
    /\ len' = [len EXCEPT ![q] = @ - 1]
    /\ rows' = IF Pinned(h) THEN rows ELSE [rows EXCEPT ![h].AccessCount = @ - 1]
    /\ worker' = Idle
    /\ Fault("faults")
    /\ UNCHANGED <<files, ghost, bytes, ghostLen, evictCh, putters, collector>>

\* Nothing is popped: the queue cannot be read, or the pass is cancelled.
PassFails ==
    /\ Selecting
    /\ worker' = Idle
    /\ Fault("faults")
    /\ UNCHANGED <<rows, files, queues, ghost, counters, evictCh, putters, collector>>

\* restorePendingEviction: an upload may have admitted the blob meanwhile.
Restore ==
    LET q == worker.queue  h == worker.hash IN
      /\ worker.pc = "restore" /\ CanLock
      /\ queues' = [queues EXCEPT ![q] = PushHead(@, h)]
      /\ IF h \in Entries(queues[q]) THEN UNCHANGED <<bytes, len>> ELSE CountIn(q, h)
      /\ worker' = Idle
      /\ UNCHANGED <<rows, files, ghost, ghostLen, evictCh, putters, collector, used>>

\* The candidate cannot be pushed back: out of all queues, uncounted.  That
\* follows a delete that failed, and is not bounded again.
RestoreFails ==
    /\ worker.pc = "restore" /\ CanLock
    /\ worker' = Idle
    /\ UNCHANGED <<rows, files, queues, ghost, counters, evictCh, putters, collector, used>>

\* deleteFromBackend: the file, then the row.
DeleteFile ==
    /\ worker.pc = "file"
    /\ files' = files \ {worker.hash}
    /\ worker' = [worker EXCEPT !.pc = "row"]
    /\ UNCHANGED <<rows, queues, ghost, counters, evictCh, putters, collector, used>>

DeleteRow ==
    /\ worker.pc = "row"
    /\ rows' = [rows EXCEPT ![worker.hash] = NoRow]
    /\ worker' = [worker EXCEPT !.pc = "finish"]
    /\ UNCHANGED <<files, queues, ghost, counters, evictCh, putters, collector, used>>

DeleteFails ==
    /\ worker.pc \in {"file", "row"}
    /\ worker' = [worker EXCEPT !.pc = "restore"]
    /\ Fault("faults")
    /\ UNCHANGED <<rows, files, queues, ghost, counters, evictCh, putters, collector>>

GhostMax ==
    IF GhostMaxEntries > 0 THEN GhostMaxEntries
    ELSE IF len["main"] < GhostFloor THEN GhostFloor ELSE len["main"]

\* GhostTrimToMaxSize drops the oldest.
Trim(s, max) == IF Len(s) > max THEN SubSeq(s, Len(s) - max + 1, Len(s)) ELSE s

\* finishPendingEviction: a victim from small enters the ghost set.
Finish ==
    /\ worker.pc = "finish"
    /\ IF worker.queue = "small"
         THEN /\ CanLock
              /\ ghost' = Trim(PushHead(ghost, worker.hash), GhostMax)
              /\ ghostLen' = IF ghostLen + 1 > GhostMax THEN GhostMax ELSE ghostLen + 1
         ELSE UNCHANGED <<ghost, ghostLen>>
    /\ UNCHANGED <<rows, files, queues, bytes, len, putters, collector, used>>
    /\ Decided

\* The victim cannot be added to the ghost set, or the set not trimmed.
FinishFails ==
    /\ worker.pc = "finish" /\ worker.queue = "small" /\ CanLock
    /\ \/ /\ ghost' = Trim(ghost, GhostMax)
          /\ ghostLen' = IF ghostLen > GhostMax THEN GhostMax ELSE ghostLen
       \/ /\ ghost' = PushHead(ghost, worker.hash)
          /\ ghostLen' = IF ghostLen + 1 > GhostMax THEN GhostMax ELSE ghostLen + 1
    /\ Fault("faults")
    /\ UNCHANGED <<rows, files, queues, bytes, len, putters, collector>>
    /\ Decided
-----------------------------------------------------------------------------
(* Restart: recomputeState.                                                *)

\* Every entry is counted, and the bytes of those that have a row.
RecomputedBytes(s) == TotalSize({h \in Entries(s) : HasRow(h)})

\* The process stops anywhere and starts again.  When it stops while a
\* candidate is popped and not yet pushed, the entry is lost.
Restart(popped) ==
    /\ popped => worker.pc = "scan" /\ queues[worker.queue] # <<>>
    /\ queues' = IF popped THEN [queues EXCEPT ![worker.queue] = Tail(@)] ELSE queues
    /\ bytes' = [q \in QueueNames |-> RecomputedBytes(queues'[q])]
    /\ len' = [q \in QueueNames |-> Len(queues'[q])]
    /\ ghostLen' = Len(ghost)
    /\ evictCh' = OverLimit'
    /\ worker' = Idle /\ collector' = Idle
    /\ putters' = [p \in Putters |-> Idle]
    /\ used["restarts"] < MaxRestarts /\ Fault("restarts")
    /\ UNCHANGED <<rows, files, ghost>>
-----------------------------------------------------------------------------
PutterNext ==
    \E p \in Putters :
        \/ \E h \in Hashes : BeginPut(p, h)
        \/ StoreBlob(p) \/ CheckGhost(p) \/ CheckGhostFails(p)
        \/ Admit(p) \/ AdmitFails(p)

RowNext == \E h \in Hashes : TouchBlob(h) \/ PinBlob(h) \/ UnpinBlob(h)

CollectStep == CollectFile \/ CollectRow \/ \E places \in SUBSET Places : CollectHook(places)

CollectorNext ==
    \/ \E h \in Hashes : CollectBlob(h) \/ CollectOrphan(h)
    \/ CollectStep \/ CollectFails

WorkerStep ==
    \/ MaybeEvict \/ EndScan \/ PopEmptyQueue
    \/ \E h \in Hashes, q \in QueueNames :
          DropOrphan(q, h) \/ SkipPinned(q, h) \/ SelectVictim(q, h)
    \/ \E h \in Hashes : Promote(h) \/ SecondChance(h)
    \/ Reinsert \/ DeleteFile \/ DeleteRow \/ Finish \/ Restore

WorkerFault ==
    \/ \E h \in Hashes, q \in QueueNames : CandidateFails(q, h) \/ CandidateLost(q, h)
    \/ PassFails \/ ReinsertFails \/ DeleteFails \/ RestoreFails \/ FinishFails

Next ==
    \/ PutterNext \/ RowNext \/ CollectorNext \/ WorkerStep \/ WorkerFault
    \/ \E popped \in BOOLEAN : Restart(popped)

Spec == Init /\ [][Next]_vars

\* The eviction goroutine runs, its ticker ticks, the collector finishes what
\* it began with a blob, and uploads release the lock.
FairSpec ==
    /\ Spec
    /\ WF_vars(WorkerStep)
    /\ WF_vars(CollectStep)
    /\ \A p \in Putters : WF_vars(Admit(p))
-----------------------------------------------------------------------------
(* Properties.                                                             *)

\* Type invariant of the queues, the counters and the goroutines.
TypeOK ==
    /\ rows \in [Hashes -> BlobEntry \cup {NoRow}]
    /\ files \subseteq Hashes
    /\ queues \in [QueueNames -> Seq(Hashes)]
    /\ ghost \in Seq(Hashes)
    /\ bytes \in [QueueNames -> Int] /\ len \in [QueueNames -> Int]
    /\ ghostLen \in Nat
    /\ evictCh \in BOOLEAN
    /\ worker \in WorkerState
    /\ putters \in [Putters -> PutterState]
    /\ collector \in CollectorState
    /\ used \in [{"ops", "faults", "restarts"} -> Nat]

\* Each byte counter covers the blobs in its queue, whatever uploads, removals
\* and failed deletes do: were it lower, the cache would grow beyond its limit
\* unnoticed.  It holds until the first restart.
BytesCoverQueues ==
    used["restarts"] = 0 =>
        \A q \in QueueNames : bytes[q] >= RecomputedBytes(queues[q])

\* The byte counters count bytes: none goes below zero.
BytesNeverNegative == \A q \in QueueNames : bytes[q] >= 0

\* Each length counter covers its queue: it bounds the scan, and a main queue
\* with a length of zero is never scanned.
LenCoversQueues == \A q \in QueueNames : len[q] >= Len(queues[q])

Queued(h) == \E q \in QueueNames : h \in Entries(queues[q])

\* What the two scans of a pass look at.
Evictable(h) ==
    /\ ~Pinned(h)
    /\ \/ h \in Entries(queues["main"])
       \/ h \in Entries(queues["small"]) /\ bytes["small"] > SmallTarget

\* While the cache is over its limit, no unpinned entry of main, or of a small
\* queue above its target, is left in place for ever.
OverrunIsRelieved == \A h \in Hashes : ~<>[](OverLimit /\ Evictable(h))

\* "Pinned blob must not be evicted."
NeverEvictsPinned ==
    [][\A h \in Hashes : worker.pc = "row" /\ Pinned(h) /\ worker' # worker
          => rows'[h] # NoRow]_vars

\* A second chance spends one of the hits the blob has had, and nothing else.
SecondChanceSpendsOneHit ==
    [][\A h \in Hashes : worker.pc = "reinsert" /\ worker' # worker /\ rows'[h] # rows[h]
          => HasRow(h) /\ rows'[h] = [rows[h] EXCEPT !.AccessCount = @ - 1]]_vars

InFlight(h) ==
    \/ \E p \in Putters : putters[p] # Idle /\ putters[p].hash = h
    \/ worker.pc \notin {"idle", "scan"} /\ worker.hash = h
    \/ collector # Idle /\ collector.hash = h

\* A blob on disk with a row is subject to size eviction.
StoredIsQueued ==
    \A h \in files :
        HasRow(h) /\ ~InFlight(h) => Queued(h)

\* A further pass is scheduled only after real progress.
RetriesAfterProgress ==
    [][worker # Idle /\ worker' = Idle /\ evictCh' /\ ~evictCh
          => <<rows, files, queues>>' # <<rows, files, queues>> \/ worker.pc = "finish"]_vars

\* An overrun lasts only while all candidates are pinned: with the set of
\* pinned blobs settled, an unpinned one does not stay queued for ever.
OverrunOnlyWhenPinned ==
    \A S \in SUBSET Hashes :
        ~<>[](/\ OverLimit
              /\ S = {h \in Hashes : Pinned(h)}
              /\ \E h \in Hashes \ S : HasRow(h) /\ Queued(h))
=============================================================================
