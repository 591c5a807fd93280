----------------------------- MODULE BuildCache -----------------------------
(***************************************************************************)
(* The build cache's uploads (protocol/buildcache).  One PUT of an action  *)
(* and output at a time holds the registration for the pair; it ends with  *)
(* the handler, with the request's cancellation or with a timer, three     *)
(* goroutines that know the registration by its generation only.           *)
(*                                                                         *)
(* A build tool names an output by the digest of its content: an output    *)
(* stands for its blob.                                                    *)
(***************************************************************************)
EXTENDS Naturals

CONSTANTS Actions,    \* action IDs
          Outputs,    \* output IDs, and their blobs
          Clients,    \* requests that may run at the same time
          None,       \* an action without an entry
          MaxUploads, \* bound on registrations
          MaxCrashes  \* bound on restarts

ASSUME BuildCacheAssumption ==
    /\ None \notin Outputs
    /\ MaxUploads \in Nat /\ MaxCrashes \in Nat

VARIABLES
    entries,        \* uploadRegistry.entries: key -> generation, 0 for none
    nextGeneration, \* uploadRegistry.nextGeneration
    armed,          \* leases whose timer is running
    expiring,       \* leases whose timer has fired, before remove
    releasing,      \* leases whose request was cancelled, before release
    uploads,        \* client -> where its PUT stands
    index,          \* action -> the output of its entry
    files,          \* the outputs whose blob is stored
    crashes         \* restarts so far

registry == <<entries, nextGeneration, armed, expiring>>
vars == <<registry, releasing, uploads, index, files, crashes>>

Keys == Actions \X Outputs
Leases == [key : Keys, generation : 1..MaxUploads]

Idle == [pc |-> "idle"]
Upload == [pc : {"lookup", "has", "store", "size", "index", "done"},
           lease : Leases, hooked : BOOLEAN, cancelled : BOOLEAN]

Active(c) == uploads[c] # Idle
At(c, pc) == uploads[c].pc = pc
LeaseOf(c) == uploads[c].lease
ActionOf(c) == LeaseOf(c).key[1]
OutputOf(c) == LeaseOf(c).key[2]
Goto(c, pc) == uploads' = [uploads EXCEPT ![c].pc = pc]

Init ==
    /\ entries = [k \in Keys |-> 0]
    /\ nextGeneration = 0
    /\ armed = {} /\ expiring = {} /\ releasing = {}
    /\ uploads = [c \in Clients |-> Idle]
    /\ index = [a \in Actions |-> None]
    /\ files = {}
    /\ crashes = 0
-----------------------------------------------------------------------------
(* The registry.  Each operation holds its mutex throughout.               *)

AcquireEntry_NoTimer(k) ==
    LET generation == nextGeneration + 1 IN
    /\ entries[k] = 0
    /\ nextGeneration' = generation
    /\ entries' = [entries EXCEPT ![k] = generation]
    /\ UNCHANGED <<armed, expiring>>

\* acquire, for the caller that becomes the leader.
AcquireEntry(k) ==
    LET generation == nextGeneration + 1 IN
    /\ entries[k] = 0
    /\ nextGeneration' = generation
    /\ entries' = [entries EXCEPT ![k] = generation]
    /\ armed' = armed \cup {[key |-> k, generation |-> generation]}
    /\ UNCHANGED expiring

RemoveEntry_AnyGeneration(lease, stopExpiry) ==
    /\ entries' = [entries EXCEPT ![lease.key] = 0]
    /\ armed' = IF stopExpiry THEN armed \ {lease} ELSE armed
    /\ UNCHANGED nextGeneration

\* remove: nothing, unless the registration is still this lease's.  Stop
\* has no effect on a timer that has fired.
RemoveEntry(lease, stopExpiry) ==
    LET owns == entries[lease.key] = lease.generation IN
    /\ entries' = IF owns THEN [entries EXCEPT ![lease.key] = 0] ELSE entries
    /\ armed' = IF owns /\ stopExpiry THEN armed \ {lease} ELSE armed
    /\ UNCHANGED nextGeneration

\* The timer fires: its function runs in a goroutine of its own ...
Fire(lease) ==
    /\ armed' = armed \ {lease}
    /\ expiring' = expiring \cup {lease}
    /\ UNCHANGED <<entries, nextGeneration, releasing, uploads, index, files, crashes>>

\* ... which takes the mutex later.
Expire(lease) ==
    /\ RemoveEntry(lease, FALSE)
    /\ expiring' = expiring \ {lease}
    /\ UNCHANGED <<releasing, uploads, index, files, crashes>>

\* The goroutine that context.AfterFunc starts for a cancelled request.
ReleaseCancelled(lease) ==
    /\ RemoveEntry(lease, TRUE)
    /\ releasing' = releasing \ {lease}
    /\ UNCHANGED <<expiring, uploads, index, files, crashes>>
-----------------------------------------------------------------------------
(* handlePut.  A follower is answered at once and changes nothing.         *)

Acquire(c, k) ==
    /\ ~Active(c) /\ nextGeneration < MaxUploads
    /\ AcquireEntry(k)
    /\ uploads' = [uploads EXCEPT ![c] =
         [pc |-> "lookup", hooked |-> FALSE, cancelled |-> FALSE,
          lease |-> [key |-> k, generation |-> nextGeneration']]]
    /\ UNCHANGED <<releasing, index, files, crashes>>

\* index.Get: only an entry of the same output is looked at further.  A
\* failing index ends the upload.
Lookup(c) ==
    /\ At(c, "lookup")
    /\ \/ Goto(c, IF index[ActionOf(c)] = OutputOf(c) THEN "has" ELSE "store")
       \/ Goto(c, "done")
    /\ UNCHANGED <<registry, releasing, index, files, crashes>>

\* store.Has: the output is there already, is not, or the store fails.
Has(c) ==
    /\ At(c, "has")
    /\ \/ OutputOf(c) \notin files /\ Goto(c, "store")
       \/ Goto(c, "done")
    /\ UNCHANGED <<registry, releasing, index, files, crashes>>

\* context.AfterFunc: lease.release runs on cancellation, at once if the
\* request is cancelled already.
HookCancellation(c) ==
    /\ At(c, "store") /\ ~uploads[c].hooked
    /\ uploads' = [uploads EXCEPT ![c].hooked = TRUE]
    /\ releasing' = IF uploads[c].cancelled THEN releasing \cup {LeaseOf(c)} ELSE releasing
    /\ UNCHANGED <<registry, index, files, crashes>>

\* store.Put, then ctx.Err.  A cancelled or failing Put may have stored the
\* blob or not.
StoreBlob(c) ==
    /\ At(c, "store") /\ uploads[c].hooked
    /\ \/ /\ ~uploads[c].cancelled
          /\ files' = files \cup {OutputOf(c)}
          /\ Goto(c, "size")
       \/ /\ files' \in {files, files \cup {OutputOf(c)}}
          /\ Goto(c, "done")
    /\ UNCHANGED <<registry, releasing, index, crashes>>

\* store.Size, then ctx.Err.
Size(c) ==
    /\ At(c, "size")
    /\ \/ OutputOf(c) \in files /\ ~uploads[c].cancelled /\ Goto(c, "index")
       \/ Goto(c, "done")
    /\ UNCHANGED <<registry, releasing, index, files, crashes>>

\* index.Put, which may fail.
PutIndex(c) ==
    /\ At(c, "index")
    /\ index' \in {index, [index EXCEPT ![ActionOf(c)] = OutputOf(c)]}
    /\ Goto(c, "done")
    /\ UNCHANGED <<registry, releasing, files, crashes>>

Finish_OnlyHooked(c) ==
    /\ At(c, "done")
    /\ IF uploads[c].hooked THEN RemoveEntry(LeaseOf(c), TRUE)
                            ELSE UNCHANGED <<entries, armed, nextGeneration>>
    /\ uploads' = [uploads EXCEPT ![c] = Idle]
    /\ UNCHANGED <<expiring, releasing, index, files, crashes>>

\* The deferred calls: the hook is stopped and the lease released.
Finish(c) ==
    /\ At(c, "done")
    /\ RemoveEntry(LeaseOf(c), TRUE)
    /\ uploads' = [uploads EXCEPT ![c] = Idle]
    /\ UNCHANGED <<expiring, releasing, index, files, crashes>>

\* The client gives up.
Cancel(c) ==
    /\ Active(c) /\ ~uploads[c].cancelled
    /\ uploads' = [uploads EXCEPT ![c].cancelled = TRUE]
    /\ releasing' = IF uploads[c].hooked THEN releasing \cup {LeaseOf(c)} ELSE releasing
    /\ UNCHANGED <<registry, index, files, crashes>>
-----------------------------------------------------------------------------
(* Around the uploads.                                                     *)

\* Eviction or collection: the entry holds no reference to its blob.
Reclaim(o) ==
    /\ o \in files /\ files' = files \ {o}
    /\ UNCHANGED <<registry, releasing, uploads, index, crashes>>

\* The envelope reaper.
ExpireIndex(a) ==
    /\ index[a] # None /\ index' = [index EXCEPT ![a] = None]
    /\ UNCHANGED <<registry, releasing, uploads, files, crashes>>

\* The registry and the requests do not survive a restart.
Crash ==
    /\ crashes < MaxCrashes /\ crashes' = crashes + 1
    /\ entries' = [k \in Keys |-> 0] /\ nextGeneration' = 0
    /\ armed' = {} /\ expiring' = {} /\ releasing' = {}
    /\ uploads' = [c \in Clients |-> Idle]
    /\ UNCHANGED <<index, files>>

Put(c) ==
    \/ \E k \in Keys : Acquire(c, k)
    \/ Lookup(c) \/ Has(c) \/ HookCancellation(c) \/ StoreBlob(c)
    \/ Size(c) \/ PutIndex(c) \/ Finish(c) \/ Cancel(c)

Timers ==
    \/ \E lease \in armed : Fire(lease)
    \/ \E lease \in expiring : Expire(lease)

Next ==
    \/ \E c \in Clients : Put(c)
    \/ Timers
    \/ \E lease \in releasing : ReleaseCancelled(lease)
    \/ \E o \in Outputs : Reclaim(o)
    \/ \E a \in Actions : ExpireIndex(a)
    \/ Crash

Spec == Init /\ [][Next]_vars

\* Timers fire and their goroutines run.  No request need ever end.
FairSpec ==
    /\ Spec
    /\ \A lease \in Leases :
         /\ WF_vars(lease \in armed /\ Fire(lease))
         /\ WF_vars(lease \in expiring /\ Expire(lease))
-----------------------------------------------------------------------------
(* Properties.                                                             *)

\* Generations are within their counter, and each step of an upload finds
\* what the steps before it have set: only a hooked upload stores.
TypeOK ==
    /\ entries \in [Keys -> 0..nextGeneration]
    /\ nextGeneration \in 0..MaxUploads
    /\ armed \subseteq Leases /\ expiring \subseteq Leases /\ releasing \subseteq Leases
    /\ uploads \in [Clients -> {Idle} \cup Upload]
    /\ \A c \in Clients : uploads[c].pc \in {"size", "index"} => uploads[c].hooked
    /\ index \in [Actions -> Outputs \cup {None}]
    /\ files \subseteq Outputs
    /\ crashes \in 0..MaxCrashes

Holds(k, g) == [key |-> k, generation |-> g]

\* What may end the registration of k: its upload, its timer, its own
\* cancellation, or a restart.
EndedByItsOwn(k) ==
    /\ entries'[k] = 0
    /\ \/ Holds(k, entries[k]) \in expiring
       \/ Holds(k, entries[k]) \in releasing
       \/ crashes' # crashes
       \/ \E c \in Clients : At(c, "done") /\ LeaseOf(c) = Holds(k, entries[k])

\* A registration ends only by its own upload, when that is done or has
\* been cancelled, or by its own timer; never by a release or a timer that
\* an earlier registration of the pair has left behind (uploads.go:81-87).
EndsByItsOwn ==
    [][\A k \in Keys :
         entries[k] # 0 /\ entries'[k] # entries[k] => EndedByItsOwn(k)]_vars

\* The registry tells what goes on (and the types hold).  While a pair is
\* registered, the upload it stands for is running, so that no path through
\* the handler answers later uploads of the pair as followers of one that has
\* ended (handler.go:141); and a running timer belongs to its pair's present
\* registration: whoever removes one stops its timer, and nothing is
\* registered over another (uploads.go:88-91).
RegistryTracksUploads ==
    /\ TypeOK
    /\ \A k \in Keys : entries[k] # 0 =>
         \E c \in Clients : Active(c) /\ LeaseOf(c) = Holds(k, entries[k])
    /\ \A lease \in armed : entries[lease.key] = lease.generation

\* Whatever becomes of the upload, its registration ends, as its timer is
\* armed when it is made (uploads.go:65-67).
EveryRegistrationEnds ==
    \A k \in Keys, g \in 1..MaxUploads : entries[k] = g ~> entries[k] # g
=============================================================================
