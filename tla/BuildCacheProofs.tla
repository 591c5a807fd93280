-------------------------- MODULE BuildCacheProofs --------------------------
(***************************************************************************)
(* Proofs about BuildCache for any actions, outputs and clients, and any   *)
(* number of registrations and restarts.  A registration is named by its   *)
(* generation, which no later one reuses: what an earlier one has left     *)
(* behind cannot end it.                                                   *)
(***************************************************************************)
EXTENDS BuildCache, TLAPS

\* A timer that has fired is not running, and its registration is an old one.
FiredTimers ==
    \A lease \in expiring : lease \notin armed /\ lease.generation <= nextGeneration

RegistryInv == RegistryTracksUploads /\ FiredTimers

-----------------------------------------------------------------------------
(* An upload that goes on keeps its lease.                                 *)
LEMMA UploadGoesOn ==
    ASSUME RegistryInv, NEW c \in Clients, uploads[c] \in Upload,
           NEW upload \in Upload, upload.lease = LeaseOf(c),
           upload.pc \in {"size", "index"} => upload.hooked,
           uploads' = [uploads EXCEPT ![c] = upload],
           UNCHANGED <<registry, crashes>>,
           releasing' \subseteq Leases, files' \subseteq Outputs,
           index' \in [Actions -> Outputs \cup {None}]
    PROVE  RegistryInv'
  <1> USE DEF RegistryInv, RegistryTracksUploads, registry
  <1>1. /\ uploads' \in [Clients -> {Idle} \cup Upload]
        /\ \A d \in Clients : uploads'[d] = IF d = c THEN upload ELSE uploads[d]
    BY DEF TypeOK
  <1>2. TypeOK'
    BY <1>1 DEF TypeOK
  <1>3. ASSUME NEW d \in Clients, Active(d) PROVE Active(d)' /\ LeaseOf(d)' = LeaseOf(d)
    BY <1>1, <1>3 DEF Active, LeaseOf, Upload, Idle
  <1>4. ASSUME NEW k \in Keys, entries'[k] # 0
        PROVE  \E d \in Clients : (Active(d) /\ LeaseOf(d) = Holds(k, entries[k]))'
    <2>1. PICK d \in Clients : Active(d) /\ LeaseOf(d) = Holds(k, entries[k])
      BY <1>4
    <2>2. Holds(k, entries[k])' = Holds(k, entries[k])
      BY DEF Holds
    <2> QED
      BY <1>3, <2>1, <2>2
  <1>5. FiredTimers' /\ \A lease \in armed' : entries'[lease.key] = lease.generation
    BY DEF FiredTimers
  <1> QED
    BY <1>2, <1>4, <1>5

(* Whoever removes a registration leaves a registry that tracks uploads.   *)
LEMMA RemoveEntryKeeps ==
    ASSUME RegistryInv, NEW lease \in Leases, NEW stopExpiry \in BOOLEAN,
           RemoveEntry(lease, stopExpiry), stopExpiry \/ lease \notin armed,
           expiring' \subseteq expiring
    PROVE  /\ entries' \in [Keys -> 0..nextGeneration']
           /\ nextGeneration' = nextGeneration /\ armed' \subseteq Leases
           /\ \A k \in Keys : entries'[k] # 0 =>
                entries'[k] = entries[k] /\ Holds(k, entries[k]) # lease
           /\ \A l \in armed' : entries'[l.key] = l.generation
           /\ FiredTimers'
  <1> USE DEF RegistryInv, RegistryTracksUploads
  <1>1. entries \in [Keys -> 0..nextGeneration] /\ armed \subseteq Leases
    BY DEF TypeOK
  <1>2. lease.key \in Keys /\ lease.generation \in 1..MaxUploads
    BY DEF Leases
  <1>3. nextGeneration' = nextGeneration /\ armed' \subseteq armed
    BY DEF RemoveEntry
  <1>4. \A k \in Keys : Holds(k, entries[k]) = lease =>
           k = lease.key /\ entries[k] = lease.generation
    BY DEF Holds
  <1>5. ASSUME NEW l \in armed' PROVE entries'[l.key] = l.generation
    <2>1. l \in armed /\ l \in Leases /\ entries[l.key] = l.generation
      BY <1>1, <1>3
    <2>2. CASE l.key # lease.key \/ entries[lease.key] # lease.generation
      BY <1>1, <1>2, <2>1, <2>2 DEF RemoveEntry
    <2>3. CASE l.key = lease.key /\ entries[lease.key] = lease.generation
      <3>1. l = lease
        BY <2>1, <2>3 DEF Leases
      <3> QED
        BY <2>1, <2>3, <3>1 DEF RemoveEntry
    <2> QED
      BY <2>2, <2>3
  <1>6. FiredTimers'
    BY <1>3 DEF FiredTimers
  <1>7. entries' \in [Keys -> 0..nextGeneration]
    BY <1>1, <1>2, BuildCacheAssumption DEF RemoveEntry, TypeOK
  <1>8. \A k \in Keys : entries'[k] # 0 =>
           entries'[k] = entries[k] /\ Holds(k, entries[k]) # lease
    BY <1>1, <1>2, <1>4 DEF RemoveEntry
  <1> QED
    BY <1>1, <1>3, <1>5, <1>6, <1>7, <1>8

(* So does a removal in a step that leaves the uploads alone.              *)
LEMMA RemovalKeeps ==
    ASSUME RegistryInv, NEW lease \in Leases, NEW stopExpiry \in BOOLEAN,
           RemoveEntry(lease, stopExpiry), stopExpiry \/ lease \notin armed,
           expiring' \subseteq expiring, releasing' \subseteq releasing,
           UNCHANGED <<uploads, index, files, crashes>>
    PROVE  RegistryInv'
  <1>1. /\ entries' \in [Keys -> 0..nextGeneration']
        /\ nextGeneration' = nextGeneration /\ armed' \subseteq Leases
        /\ \A k \in Keys : entries'[k] # 0 => entries'[k] = entries[k]
        /\ \A l \in armed' : entries'[l.key] = l.generation
        /\ FiredTimers'
    BY RemoveEntryKeeps
  <1>2. TypeOK'
    BY <1>1 DEF RegistryInv, RegistryTracksUploads, TypeOK, At
  <1>3. ASSUME NEW k \in Keys, entries'[k] # 0
        PROVE  \E d \in Clients : (Active(d) /\ LeaseOf(d) = Holds(k, entries[k]))'
    BY <1>1, <1>3 DEF RegistryInv, RegistryTracksUploads, Active, LeaseOf, Holds
  <1> QED
    BY <1>1, <1>2, <1>3 DEF RegistryInv, RegistryTracksUploads

-----------------------------------------------------------------------------
(* Nothing is registered at first.                                         *)
LEMMA RegistryInvInit == Init => RegistryInv
  <1> SUFFICES ASSUME Init PROVE RegistryInv
    OBVIOUS
  <1>1. TypeOK
    BY BuildCacheAssumption DEF Init, TypeOK, At, Idle
  <1> QED
    BY <1>1 DEF Init, RegistryInv, RegistryTracksUploads, FiredTimers

(* A registration is new, and no timer of its pair is running.             *)
LEMMA AcquireKeeps ==
    ASSUME RegistryInv, NEW c \in Clients, NEW k \in Keys, Acquire(c, k)
    PROVE  RegistryInv'
  <1> DEFINE lease == [key |-> k, generation |-> nextGeneration + 1]
             upload == [pc |-> "lookup", hooked |-> FALSE, cancelled |-> FALSE, lease |-> lease]
  <1> USE DEF RegistryInv, RegistryTracksUploads
  <1>1. /\ entries[k] = 0 /\ nextGeneration' = nextGeneration + 1
        /\ entries' = [entries EXCEPT ![k] = nextGeneration + 1]
        /\ armed' = armed \cup {lease}
        /\ uploads' = [uploads EXCEPT ![c] = upload]
        /\ uploads[c] = Idle /\ nextGeneration < MaxUploads
        /\ UNCHANGED <<expiring, releasing, index, files, crashes>>
    BY DEF Acquire, AcquireEntry, Active
  <1>2. /\ nextGeneration \in 0..MaxUploads /\ MaxUploads \in Nat
        /\ entries \in [Keys -> 0..nextGeneration]
        /\ armed \subseteq Leases /\ expiring \subseteq Leases
        /\ uploads \in [Clients -> {Idle} \cup Upload]
    BY BuildCacheAssumption DEF TypeOK
  <1>3. lease \in Leases /\ lease.key = k /\ lease.generation = nextGeneration + 1
    BY <1>1, <1>2 DEF Leases
  <1>4. upload \in Upload /\ upload # Idle /\ upload.lease = lease /\ upload.pc = "lookup"
    BY <1>3 DEF Upload, Idle
  <1> HIDE DEF lease, upload
  <1>5. /\ uploads' \in [Clients -> {Idle} \cup Upload]
        /\ \A d \in Clients : uploads'[d] = IF d = c THEN upload ELSE uploads[d]
    BY <1>1, <1>2, <1>4
  <1>6. /\ entries' \in [Keys -> 0..nextGeneration']
        /\ \A q \in Keys : entries'[q] = IF q = k THEN nextGeneration + 1 ELSE entries[q]
    BY <1>1, <1>2
  <1>7. TypeOK'
    BY <1>1, <1>2, <1>3, <1>4, <1>5, <1>6 DEF TypeOK, At
  <1>8. ASSUME NEW q \in Keys, entries'[q] # 0
        PROVE  \E d \in Clients : (Active(d) /\ LeaseOf(d) = Holds(q, entries[q]))'
    <2>1. CASE q = k
      <3>1. (Active(c) /\ LeaseOf(c) = Holds(q, entries[q]))'
        BY <1>4, <1>5, <1>6, <2>1 DEF Active, LeaseOf, Holds, lease
      <3> QED
        BY <3>1
    <2>2. CASE q # k
      <3>1. entries'[q] = entries[q] /\ entries[q] # 0
        BY <1>6, <1>8, <2>2
      <3>2. PICK d \in Clients : Active(d) /\ LeaseOf(d) = Holds(q, entries[q])
        BY <3>1
      <3>3. d # c
        BY <1>1, <3>2 DEF Active
      <3>4. (Active(d) /\ LeaseOf(d) = Holds(q, entries[q]))'
        BY <1>5, <3>1, <3>2, <3>3 DEF Active, LeaseOf, Holds
      <3> QED
        BY <3>4
    <2> QED
      BY <2>1, <2>2
  <1>9. ASSUME NEW l \in armed' PROVE entries'[l.key] = l.generation
    <2>1. CASE l = lease
      BY <1>3, <1>6, <2>1
    <2>2. CASE l # lease
      <3>1. l \in armed /\ l.key \in Keys /\ l.generation # 0 /\ entries[l.key] = l.generation
        BY <1>1, <1>2, <1>9, <2>2 DEF Leases
      <3> QED
        BY <1>1, <1>6, <3>1
    <2> QED
      BY <2>1, <2>2
  <1>10. FiredTimers'
    <2>1. ASSUME NEW l \in expiring
          PROVE  l \notin armed' /\ l.generation <= nextGeneration'
      <3>1. l \in Leases /\ l \notin armed /\ l.generation <= nextGeneration
        BY <1>2 DEF FiredTimers
      <3>2. l # lease
        BY <1>2, <1>3, <3>1
      <3> QED
        BY <1>1, <1>2, <3>1, <3>2 DEF Leases
    <2> QED
      BY <1>1, <2>1 DEF FiredTimers
  <1> QED
    BY <1>7, <1>8, <1>9, <1>10

(* The steps of an upload that has its registration, up to its end.        *)
LEMMA UploadSteps ==
    ASSUME RegistryInv, NEW c \in Clients,
           \/ Lookup(c) \/ Has(c) \/ HookCancellation(c) \/ StoreBlob(c)
           \/ Size(c) \/ PutIndex(c) \/ Cancel(c)
    PROVE  RegistryInv'
  <1>1. /\ uploads \in [Clients -> {Idle} \cup Upload]
        /\ releasing \subseteq Leases /\ files \subseteq Outputs
        /\ index \in [Actions -> Outputs \cup {None}]
        /\ \A d \in Clients : uploads[d].pc \in {"size", "index"} => uploads[d].hooked
    BY DEF RegistryInv, RegistryTracksUploads, TypeOK
  <1>2. uploads[c] \in Upload
    BY <1>1 DEF Lookup, Has, HookCancellation, StoreBlob, Size, PutIndex, Cancel, At, Active,
                Idle
  <1>3. /\ LeaseOf(c) \in Leases /\ ActionOf(c) \in Actions /\ OutputOf(c) \in Outputs
    BY <1>2 DEF LeaseOf, ActionOf, OutputOf, Upload, Leases, Keys
  <1>4. \A pc \in {"lookup", "has", "store", "size", "index", "done"} :
          LET upload == [uploads[c] EXCEPT !.pc = pc] IN
          /\ upload \in Upload /\ upload.lease = LeaseOf(c)
          /\ upload.pc = pc /\ upload.hooked = uploads[c].hooked
    BY <1>2 DEF Upload, LeaseOf
  <1>5. ASSUME NEW pc \in {"lookup", "has", "store", "size", "index", "done"}, Goto(c, pc),
               pc \in {"size", "index"} => uploads[c].hooked,
               UNCHANGED <<registry, crashes, releasing>>, files' \subseteq Outputs,
               index' \in [Actions -> Outputs \cup {None}]
        PROVE  RegistryInv'
    <2> DEFINE upload == [uploads[c] EXCEPT !.pc = pc]
    <2>1. upload \in Upload /\ upload.lease = LeaseOf(c)
          /\ (upload.pc \in {"size", "index"} => upload.hooked)
      BY <1>4, <1>5
    <2>2. uploads' = [uploads EXCEPT ![c] = upload]
      BY <1>5 DEF Goto
    <2> HIDE DEF upload
    <2> QED
      BY <1>1, <1>2, <1>5, <2>1, <2>2, UploadGoesOn
  <1>6. CASE Lookup(c)
    BY <1>1, <1>5, <1>6 DEF Lookup
  <1>7. CASE Has(c)
    BY <1>1, <1>5, <1>7 DEF Has
  <1>8. CASE HookCancellation(c)
    <2> DEFINE upload == [uploads[c] EXCEPT !.hooked = TRUE]
    <2>1. upload \in Upload /\ upload.lease = LeaseOf(c) /\ upload.hooked
      BY <1>2 DEF Upload, LeaseOf
    <2>2. uploads' = [uploads EXCEPT ![c] = upload]
      BY <1>8 DEF HookCancellation
    <2>3. releasing' \subseteq Leases /\ UNCHANGED <<registry, index, files, crashes>>
      BY <1>1, <1>3, <1>8 DEF HookCancellation
    <2> HIDE DEF upload
    <2> QED
      BY <1>1, <1>2, <2>1, <2>2, <2>3, UploadGoesOn
  <1>9. CASE StoreBlob(c)
    BY <1>1, <1>3, <1>5, <1>9 DEF StoreBlob
  <1>10. CASE Size(c)
    <2>1. uploads[c].hooked
      BY <1>1, <1>10 DEF Size, At
    <2> QED
      BY <1>1, <1>5, <1>10, <2>1 DEF Size
  <1>11. CASE PutIndex(c)
    <2>1. index' \in [Actions -> Outputs \cup {None}]
      BY <1>1, <1>3, <1>11 DEF PutIndex
    <2> QED
      BY <1>1, <1>5, <1>11, <2>1 DEF PutIndex
  <1>12. CASE Cancel(c)
    <2> DEFINE upload == [uploads[c] EXCEPT !.cancelled = TRUE]
    <2>1. /\ upload \in Upload /\ upload.lease = LeaseOf(c)
          /\ upload.pc = uploads[c].pc /\ upload.hooked = uploads[c].hooked
      BY <1>2 DEF Upload, LeaseOf
    <2>2. uploads' = [uploads EXCEPT ![c] = upload]
      BY <1>12 DEF Cancel
    <2>3. releasing' \subseteq Leases /\ UNCHANGED <<registry, index, files, crashes>>
      BY <1>1, <1>3, <1>12 DEF Cancel
    <2> HIDE DEF upload
    <2> QED
      BY <1>1, <1>2, <2>1, <2>2, <2>3, UploadGoesOn
  <1> QED
    BY <1>6, <1>7, <1>8, <1>9, <1>10, <1>11, <1>12

(* The upload ends with its registration.                                  *)
LEMMA FinishKeeps ==
    ASSUME RegistryInv, NEW c \in Clients, Finish(c)
    PROVE  RegistryInv'
  <1>1. /\ uploads \in [Clients -> {Idle} \cup Upload]
        /\ \A d \in Clients : uploads[d].pc \in {"size", "index"} => uploads[d].hooked
    BY DEF RegistryInv, RegistryTracksUploads, TypeOK
  <1>2. uploads[c] \in Upload
    BY <1>1 DEF Finish, At, Idle
  <1>3. LeaseOf(c) \in Leases
    BY <1>2 DEF LeaseOf, Upload
  <1>4. /\ entries' \in [Keys -> 0..nextGeneration']
        /\ nextGeneration' = nextGeneration /\ armed' \subseteq Leases
        /\ \A k \in Keys : entries'[k] # 0 =>
             entries'[k] = entries[k] /\ Holds(k, entries[k]) # LeaseOf(c)
        /\ \A l \in armed' : entries'[l.key] = l.generation
        /\ FiredTimers'
    BY <1>3, RemoveEntryKeeps DEF Finish
  <1>5. /\ uploads' \in [Clients -> {Idle} \cup Upload]
        /\ \A d \in Clients : uploads'[d] = IF d = c THEN Idle ELSE uploads[d]
    BY <1>1 DEF Finish
  <1>6. TypeOK'
    BY <1>1, <1>4, <1>5 DEF RegistryInv, RegistryTracksUploads, TypeOK, At, Idle, Finish
  <1>7. ASSUME NEW k \in Keys, entries'[k] # 0
        PROVE  \E d \in Clients : (Active(d) /\ LeaseOf(d) = Holds(k, entries[k]))'
    <2>1. entries'[k] = entries[k] /\ Holds(k, entries[k]) # LeaseOf(c) /\ entries[k] # 0
      BY <1>4, <1>7
    <2>2. PICK d \in Clients : Active(d) /\ LeaseOf(d) = Holds(k, entries[k])
      BY <2>1 DEF RegistryInv, RegistryTracksUploads
    <2>3. (Active(d) /\ LeaseOf(d) = Holds(k, entries[k]))'
      BY <1>5, <2>1, <2>2 DEF Active, LeaseOf, Holds
    <2> QED
      BY <2>3
  <1> QED
    BY <1>4, <1>6, <1>7 DEF RegistryInv, RegistryTracksUploads

(* A timer that fires is running no more; its goroutine ends what it owns. *)
LEMMA TimersKeep ==
    ASSUME RegistryInv, Timers
    PROVE  RegistryInv'
  <1>1. /\ armed \subseteq Leases /\ expiring \subseteq Leases
        /\ entries \in [Keys -> 0..nextGeneration]
    BY DEF RegistryInv, RegistryTracksUploads, TypeOK
  <1>2. ASSUME NEW lease \in armed, Fire(lease) PROVE RegistryInv'
    <2>1. lease \in Leases /\ entries[lease.key] = lease.generation /\ lease.key \in Keys
      BY <1>1 DEF RegistryInv, RegistryTracksUploads, Leases
    <2>2. nextGeneration \in Nat /\ entries[lease.key] <= nextGeneration
      BY <1>1, <2>1, BuildCacheAssumption DEF RegistryInv, RegistryTracksUploads, TypeOK
    <2>3. FiredTimers'
      BY <1>2, <2>1, <2>2 DEF Fire, RegistryInv, FiredTimers
    <2>4. TypeOK'
      BY <1>1, <1>2 DEF Fire, RegistryInv, RegistryTracksUploads, TypeOK, At
    <2> QED
      BY <1>2, <2>3, <2>4 DEF Fire, RegistryInv, RegistryTracksUploads, Active, LeaseOf, Holds
  <1>3. ASSUME NEW lease \in expiring, Expire(lease) PROVE RegistryInv'
    <2>1. lease \in Leases /\ lease \notin armed
      BY <1>1 DEF RegistryInv, FiredTimers
    <2> QED
      BY <1>3, <2>1, RemovalKeeps DEF Expire
  <1> QED
    BY <1>2, <1>3 DEF Timers

(* Around the uploads; a restart forgets them and the registry together.   *)
LEMMA SurroundingsKeep ==
    ASSUME RegistryInv
    PROVE  /\ \A lease \in releasing : ReleaseCancelled(lease) => RegistryInv'
           /\ \A o \in Outputs : Reclaim(o) => RegistryInv'
           /\ \A a \in Actions : ExpireIndex(a) => RegistryInv'
           /\ Crash => RegistryInv'
  <1> USE DEF RegistryInv, RegistryTracksUploads
  <1>1. ASSUME NEW lease \in releasing, ReleaseCancelled(lease) PROVE RegistryInv'
    <2>1. lease \in Leases
      BY DEF TypeOK
    <2>2. /\ RemoveEntry(lease, TRUE) /\ expiring' = expiring
          /\ releasing' \subseteq releasing /\ UNCHANGED <<uploads, index, files, crashes>>
      BY <1>1 DEF ReleaseCancelled
    <2> HIDE DEF RegistryInv
    <2> QED
      BY <2>1, <2>2, RemovalKeeps
  <1>2. ASSUME NEW o \in Outputs, Reclaim(o) PROVE RegistryInv'
    BY <1>2 DEF Reclaim, TypeOK, FiredTimers, Active, LeaseOf, Holds, At, registry
  <1>3. ASSUME NEW a \in Actions, ExpireIndex(a) PROVE RegistryInv'
    BY <1>3 DEF ExpireIndex, TypeOK, FiredTimers, Active, LeaseOf, Holds, At, registry
  <1>4. ASSUME Crash PROVE RegistryInv'
    <2>1. TypeOK'
      BY <1>4, BuildCacheAssumption DEF Crash, TypeOK, At, Idle
    <2> QED
      BY <1>4, <2>1 DEF Crash, FiredTimers
  <1> HIDE DEF RegistryInv
  <1> QED
    BY <1>1, <1>2, <1>3, <1>4

(* The invariant is inductive.                                             *)
LEMMA RegistryInvStep == RegistryInv /\ [Next]_vars => RegistryInv'
  <1> SUFFICES ASSUME RegistryInv, [Next]_vars PROVE RegistryInv'
    OBVIOUS
  <1>1. ASSUME NEW c \in Clients, Put(c) PROVE RegistryInv'
    BY <1>1, AcquireKeeps, UploadSteps, FinishKeeps DEF Put
  <1>2. CASE UNCHANGED vars
    BY <1>2 DEF vars, registry, RegistryInv, RegistryTracksUploads, TypeOK, FiredTimers,
                Active, LeaseOf, Holds, At
  <1> QED
    BY <1>1, <1>2, TimersKeep, SurroundingsKeep DEF Next

(* A pair is registered only while its upload runs, and a running timer    *)
(* belongs to its pair's registration (handler.go:141, uploads.go:88-91).  *)
THEOREM RegistryTracks == Spec => []RegistryTracksUploads
  <1>1. RegistryInv => RegistryTracksUploads
    BY DEF RegistryInv
  <1> QED
    BY <1>1, RegistryInvInit, RegistryInvStep, PTL DEF Spec

-----------------------------------------------------------------------------
(* What removes a registration holds its lease.                            *)
LEMMA RemovesItsOwn ==
    ASSUME TypeOK, NEW lease \in Leases, NEW stopExpiry \in BOOLEAN,
           RemoveEntry(lease, stopExpiry), NEW k \in Keys, entries'[k] # entries[k]
    PROVE  entries'[k] = 0 /\ Holds(k, entries[k]) = lease
  <1>1. /\ entries \in [Keys -> 0..nextGeneration] /\ lease.key \in Keys
        /\ lease = [key |-> lease.key, generation |-> lease.generation]
    BY DEF TypeOK, Leases
  <1>2. k = lease.key /\ entries[k] = lease.generation /\ entries'[k] = 0
    BY <1>1 DEF RemoveEntry
  <1> QED
    BY <1>1, <1>2 DEF Holds

(* No step but the registration's own holders, or a restart, ends it.      *)
LEMMA StepEndsItsOwn ==
    ASSUME RegistryInv, [Next]_vars, NEW k \in Keys,
           entries[k] # 0, entries'[k] # entries[k]
    PROVE  EndedByItsOwn(k)
  <1> USE DEF EndedByItsOwn
  <1>0. /\ TypeOK /\ entries \in [Keys -> 0..nextGeneration] /\ crashes \in Nat
        /\ expiring \subseteq Leases /\ releasing \subseteq Leases
        /\ uploads \in [Clients -> {Idle} \cup Upload]
    BY BuildCacheAssumption DEF RegistryInv, RegistryTracksUploads, TypeOK
  <1>1. ASSUME NEW c \in Clients, Put(c) PROVE EndedByItsOwn(k)
    <2>1. ASSUME NEW q \in Keys, Acquire(c, q) PROVE EndedByItsOwn(k)
      <3>1. entries[q] = 0 /\ entries' = [entries EXCEPT ![q] = nextGeneration + 1]
        BY <2>1 DEF Acquire, AcquireEntry
      <3>2. entries'[k] = entries[k]
        BY <1>0, <3>1
      <3> QED
        BY <3>2
    <2>2. CASE \/ Lookup(c) \/ Has(c) \/ HookCancellation(c) \/ StoreBlob(c)
               \/ Size(c) \/ PutIndex(c) \/ Cancel(c)
      BY <2>2 DEF Lookup, Has, HookCancellation, StoreBlob, Size, PutIndex, Cancel, registry
    <2>3. CASE Finish(c)
      <3>1. uploads[c] \in Upload
        BY <1>0, <2>3 DEF Finish, At, Idle
      <3>2. LeaseOf(c) \in Leases /\ At(c, "done") /\ RemoveEntry(LeaseOf(c), TRUE)
        BY <2>3, <3>1 DEF Finish, LeaseOf, Upload
      <3>3. entries'[k] = 0 /\ Holds(k, entries[k]) = LeaseOf(c)
        BY <1>0, <3>2, RemovesItsOwn
      <3> QED
        BY <3>2, <3>3
    <2> QED
      BY <1>1, <2>1, <2>2, <2>3 DEF Put
  <1>2. CASE Timers
    <2>1. ASSUME NEW lease \in expiring, Expire(lease) PROVE EndedByItsOwn(k)
      <3>1. entries'[k] = 0 /\ Holds(k, entries[k]) = lease
        BY <1>0, <2>1, RemovesItsOwn DEF Expire
      <3> QED
        BY <3>1
    <2> QED
      BY <1>2, <2>1 DEF Timers, Fire
  <1>3. ASSUME NEW lease \in releasing, ReleaseCancelled(lease) PROVE EndedByItsOwn(k)
    <2>1. entries'[k] = 0 /\ Holds(k, entries[k]) = lease
      BY <1>0, <1>3, RemovesItsOwn DEF ReleaseCancelled
    <2> QED
      BY <2>1
  <1>4. ASSUME NEW o \in Outputs, Reclaim(o) PROVE EndedByItsOwn(k)
    BY <1>4 DEF Reclaim, registry
  <1>5. CASE Crash
    <2>1. crashes' # crashes
      BY <1>0, <1>5 DEF Crash
    <2>2. entries'[k] = 0
      BY <1>5 DEF Crash
    <2> QED
      BY <2>1, <2>2
  <1>6. ASSUME NEW a \in Actions, ExpireIndex(a) PROVE EndedByItsOwn(k)
    BY <1>6 DEF ExpireIndex, registry
  <1>7. CASE UNCHANGED vars
    BY <1>7 DEF vars, registry
  <1> HIDE DEF EndedByItsOwn
  <1>9. CASE Next
    BY <1>1, <1>2, <1>3, <1>4, <1>5, <1>6, <1>9 DEF Next
  <1> QED
    BY <1>7, <1>9

(* A registration ends by its own upload, timer or cancellation only, never *)
(* by what an earlier one of its pair left behind (uploads.go:81-87).      *)
THEOREM RegistrationsEndByTheirOwn == Spec => EndsByItsOwn
  <1>1. Spec => []RegistryInv
    BY RegistryInvInit, RegistryInvStep, PTL DEF Spec
  <1>2. RegistryInv /\ [Next]_vars
          => [\A k \in Keys :
                entries[k] # 0 /\ entries'[k] # entries[k] => EndedByItsOwn(k)]_vars
    BY StepEndsItsOwn
  <1> QED
    BY <1>1, <1>2, PTL DEF Spec, EndsByItsOwn
=============================================================================
