----------------------------- MODULE CacheProg ------------------------------
(***************************************************************************)
(* The client that Go runs as its build cache (cmd/content-cache,          *)
(* cacheprog.go): gets and puts of one action, by the goroutines of        *)
(* several Go invocations that share a local directory and a server.  Each *)
(* invocation is a process with a latch that its first remote failure      *)
(* sets; actions share nothing but that latch.  The local copy is two      *)
(* files, written one after the other.                                     *)
(***************************************************************************)
EXTENDS Integers, FiniteSets

CONSTANTS Calls,      \* goroutines that serve gets and puts
          Programs,   \* Go invocations
          Outputs,    \* what the action may produce; builds need not be reproducible
          None, Torn, \* no file; a sidecar that does not parse
          MaxFaults,  \* bound on failing writes and files removed by others
          MaxStops    \* bound on programs that end

ASSUME CacheProgAssumption ==
    /\ IsFiniteSet(Calls)
    /\ None \notin Outputs /\ Torn \notin Outputs \cup {None}
    /\ MaxFaults \in Nat /\ MaxStops \in Nat

VARIABLES
    programOf,      \* the invocation that each goroutine belongs to; never changes
    blob,           \* the output in the local file
    sidecar,        \* the output that the file beside it names
    remote,         \* the output the server has
    remoteDisabled, \* the latch of each program
    calls,          \* call -> what it is doing
    failures,       \* remote failures of each program's invocation
    lastSidecar,    \* how the last writeSidecar ended
    disturbed,      \* writes overlapped, stopped between the files, or lost a sidecar
    used            \* faults and stops so far

local == <<blob, sidecar, lastSidecar, disturbed>>
latch == <<programOf, remoteDisabled, failures>>
vars == <<local, remote, latch, calls, used>>

Idle == [pc |-> "idle"]
Call ==
    [pc : {"hit"}, output : Outputs]
    \cup [pc : {"asking"}, command : {"get", "put"}, output : Outputs \cup {None}]
    \cup [pc : {"storing", "renamed", "truncated", "stored"}, command : {"get", "put"},
          output : Outputs]

Init ==
    /\ programOf \in [Calls -> Programs]
    /\ blob = None /\ sidecar = None /\ lastSidecar = "none" /\ disturbed = FALSE
    /\ remote \in Outputs \cup {None}
    /\ remoteDisabled = [p \in Programs |-> FALSE]
    /\ failures = [p \in Programs |-> 0]
    /\ calls = [c \in Calls |-> Idle]
    /\ used = [faults |-> 0, stops |-> 0]

At(c, pc) == calls[c].pc = pc
Become(c, call) == calls' = [calls EXCEPT ![c] = call]
Continue(c, pc) == calls' = [calls EXCEPT ![c].pc = pc]
Fault == used.faults < MaxFaults /\ used' = [used EXCEPT !.faults = @ + 1]
-----------------------------------------------------------------------------
(* The latch.                                                              *)

DisableRemote(p) ==
    /\ remoteDisabled' = [remoteDisabled EXCEPT ![p] = TRUE]
    /\ failures' = [failures EXCEPT ![p] = @ + 1]
    /\ UNCHANGED programOf

\* No answer within the client's timeout, an error, or a status that is
\* neither success nor a miss; what was sent may have been stored.
Fails(c) ==
    /\ DisableRemote(programOf[c])
    /\ remote' \in {remote} \cup (IF calls[c].command = "put" THEN {calls[c].output} ELSE {})
    /\ Become(c, Idle)
    /\ UNCHANGED <<local, used>>

TimesOut_WithoutTimeout(c) == FALSE /\ Fails(c)
TimesOut(c) == At(c, "asking") /\ Fails(c)
-----------------------------------------------------------------------------
(* Requests.                                                               *)

\* A sidecar that parses, beside a blob.
Readable == sidecar \in Outputs /\ blob # None

Hit(c) ==
    /\ At(c, "idle") /\ Readable
    /\ Become(c, [pc |-> "hit", output |-> sidecar])
    /\ UNCHANGED <<local, remote, latch, used>>

\* Once the latch is set, a miss of the local files is a miss.
Get(c) ==
    /\ At(c, "idle") /\ ~Readable
    /\ ~remoteDisabled[programOf[c]]
    /\ Become(c, [pc |-> "asking", command |-> "get", output |-> None])
    /\ UNCHANGED <<local, remote, latch, used>>

Put(c, output) ==
    /\ At(c, "idle")
    /\ Become(c, [pc |-> "storing", command |-> "put", output |-> output])
    /\ UNCHANGED <<local, remote, latch, used>>

\* A put is uploaded after it is stored, unless the latch is set.
Stored_Uploads(c) ==
    /\ At(c, "stored")
    /\ IF calls[c].command = "get" THEN Become(c, Idle) ELSE Continue(c, "asking")
    /\ UNCHANGED <<local, remote, latch, used>>

Stored(c) ==
    /\ At(c, "stored")
    /\ IF calls[c].command = "get" \/ remoteDisabled[programOf[c]]
         THEN Become(c, Idle) ELSE Continue(c, "asking")
    /\ UNCHANGED <<local, remote, latch, used>>

Answer(c) ==
    /\ At(c, "hit") /\ Become(c, Idle)
    /\ UNCHANGED <<local, remote, latch, used>>
-----------------------------------------------------------------------------
(* The server's answers.                                                   *)

\* 404 to a get is no failure; an upload may be answered 204 and not stored.
Serves(c) ==
    /\ At(c, "asking")
    /\ \/ /\ calls[c].command = "get"
          /\ Become(c, IF remote = None THEN Idle
                       ELSE [calls[c] EXCEPT !.pc = "storing", !.output = remote])
          /\ UNCHANGED remote
       \/ /\ calls[c].command = "put"
          /\ remote' \in {remote, calls[c].output}
          /\ Become(c, Idle)
    /\ UNCHANGED <<local, latch, used>>

\* The body of the answer to a get ends early.
Interrupted(c) ==
    /\ At(c, "storing") /\ calls[c].command = "get"
    /\ Fails(c)

\* Other clients, and the entry's expiry.
RemoteChanges ==
    /\ remote' \in Outputs \cup {None}
    /\ UNCHANGED <<local, latch, calls, used>>
-----------------------------------------------------------------------------
(* The local files: the blob is renamed into place, the sidecar written    *)
(* over the one that is there.                                             *)

BetweenFiles == {d \in Calls : calls[d].pc \in {"renamed", "truncated"}}

Rename(c) ==
    /\ At(c, "storing")
    /\ blob' = calls[c].output
    /\ disturbed' = (disturbed \/ BetweenFiles # {})
    /\ Continue(c, "renamed")
    /\ UNCHANGED <<sidecar, lastSidecar, remote, latch, used>>

RenameFails_StillWritesSidecar(c) ==
    /\ At(c, "storing") /\ Fault /\ Continue(c, "renamed")
    /\ UNCHANGED <<local, remote, latch>>

\* Creating, writing or renaming the temporary file fails: a get is a miss,
\* a put an error.
RenameFails(c) ==
    /\ At(c, "storing") /\ Fault /\ Become(c, Idle)
    /\ UNCHANGED <<local, remote, latch>>

TruncateSidecar(c) ==
    /\ At(c, "renamed")
    /\ sidecar' = Torn
    /\ Continue(c, "truncated")
    /\ UNCHANGED <<blob, lastSidecar, disturbed, remote, latch, used>>

\* Two writers at once may leave the tail of the longer one.
WriteSidecar(c) ==
    /\ At(c, "truncated")
    /\ sidecar' \in {calls[c].output} \cup (IF BetweenFiles = {c} THEN {} ELSE {Torn})
    /\ lastSidecar' = "written"
    /\ Continue(c, "stored")
    /\ UNCHANGED <<blob, disturbed, remote, latch, used>>

\* Not reported: the call goes on.
SidecarFails(c) ==
    /\ calls[c].pc \in {"renamed", "truncated"} /\ Fault
    /\ lastSidecar' = "failed"
    /\ disturbed' = (disturbed \/ At(c, "renamed"))
    /\ Continue(c, "stored")
    /\ UNCHANGED <<blob, sidecar, remote, latch>>

Prune ==
    /\ Fault
    /\ \/ blob' = None /\ UNCHANGED sidecar
       \/ sidecar' = None /\ UNCHANGED blob
    /\ UNCHANGED <<lastSidecar, disturbed, remote, latch, calls>>
-----------------------------------------------------------------------------
\* Close, end of input or a kill: the goroutines end where they are.  The
\* next invocation starts with the latch open.
Stop(p) ==
    /\ used.stops < MaxStops
    /\ used' = [used EXCEPT !.stops = @ + 1]
    /\ calls' = [c \in Calls |-> IF programOf[c] = p THEN Idle ELSE calls[c]]
    /\ remoteDisabled' = [remoteDisabled EXCEPT ![p] = FALSE]
    /\ failures' = [failures EXCEPT ![p] = 0]
    /\ disturbed' = (disturbed \/ \E c \in Calls : programOf[c] = p /\ At(c, "renamed"))
    /\ UNCHANGED <<blob, sidecar, lastSidecar, remote, programOf>>

LocalStep(c) ==
    \/ Rename(c) \/ RenameFails(c) \/ TruncateSidecar(c) \/ WriteSidecar(c) \/ SidecarFails(c)
    \/ Stored(c) \/ Answer(c)

Next ==
    \/ \E c \in Calls :
         \/ Hit(c) \/ Get(c) \/ LocalStep(c)
         \/ Serves(c) \/ TimesOut(c) \/ Interrupted(c)
         \/ \E output \in Outputs : Put(c, output)
    \/ \E p \in Programs : Stop(p)
    \/ RemoteChanges \/ Prune

Spec == Init /\ [][Next]_vars

\* The goroutines run, and the client's timeout fires; the server may never
\* answer.
FairSpec == Spec /\ \A c \in Calls : WF_vars(LocalStep(c)) /\ WF_vars(TimesOut(c))
-----------------------------------------------------------------------------
(* Properties.                                                             *)

TypeOK ==
    /\ programOf \in [Calls -> Programs]
    /\ blob \in Outputs \cup {None}
    /\ sidecar \in Outputs \cup {None, Torn}
    /\ remote \in Outputs \cup {None}
    /\ remoteDisabled \in [Programs -> BOOLEAN]
    /\ calls \in [Calls -> Call \cup {Idle}]
    /\ failures \in [Programs -> Nat]
    /\ lastSidecar \in {"none", "written", "failed"}
    /\ disturbed \in BOOLEAN
    /\ used \in [faults : 0..MaxFaults, stops : 0..MaxStops]

\* Without overlapping writes, stops between the files and lost sidecars, the
\* two files agree whenever no call is between them: the output that a hit
\* names is the one in the file (cacheprog.go:199-216, 271-284, 319-324).  The
\* types hold, too.
SidecarDescribesBlob ==
    /\ TypeOK
    /\ ~disturbed /\ BetweenFiles = {} /\ Readable => sidecar = blob

\* A dead server costs an invocation as many timeouts as it has requests at
\* once, not one for each of its requests (cacheprog.go:103-112).
OutageIsBounded ==
    \A p \in Programs : failures[p] <= Cardinality({c \in Calls : programOf[c] = p})

\* Every get and put is answered, whatever the server does, unless its
\* program ends first (README.md:206-211).
EveryCallEnds == \A c \in Calls : []<>(At(c, "idle"))

\* "Errors are non-fatal; the sidecar just won't be used for the fast path
\* next time" (cacheprog.go:360).
UnwrittenIsUnused ==
    [][\A c \in Calls : lastSidecar = "failed" /\ At(c, "idle") => calls'[c].pc # "hit"]_vars
=============================================================================
