-------------------------- MODULE CacheProgProofs ---------------------------
(***************************************************************************)
(* Proofs about CacheProg for every set of goroutines, invocations and     *)
(* outputs.  Two invariants: what the two files hold while a goroutine is  *)
(* between them, and how many remote failures an invocation may still      *)
(* meet once its latch is set.                                             *)
(***************************************************************************)
EXTENDS CacheProg, FiniteSetTheorems, TLAPS

\* Who is between the files wrote the blob, and has torn the sidecar or is
\* about to; nobody else is.  A file that is gone names nothing.
FilesOK ==
    ~disturbed =>
        /\ BetweenFiles = {} /\ Readable => sidecar = blob
        /\ \A c, d \in BetweenFiles : c = d
        /\ \A c \in BetweenFiles : blob \in {calls[c].output, None}
        /\ \A c \in Calls : At(c, "truncated") => sidecar \in {Torn, None}

\* The calls of a program that may still meet a remote failure.
Exposed(call) == call.pc = "asking" \/ (call.pc = "storing" /\ call.command = "get")
ExposedOf(p) == {c \in Calls : programOf[c] = p /\ Exposed(calls[c])}
CallsOf(p) == {c \in Calls : programOf[c] = p}

LatchOK ==
    \A p \in Programs :
        /\ ~remoteDisabled[p] => failures[p] = 0
        /\ failures[p] + Cardinality(ExposedOf(p)) <= Cardinality(CallsOf(p))

IInv == TypeOK /\ FilesOK /\ LatchOK
-----------------------------------------------------------------------------
(* What a call is at each pc.                                              *)
Working == [pc : {"storing", "renamed", "truncated", "stored"}, command : {"get", "put"},
            output : Outputs]
Asking == [pc : {"asking"}, command : {"get", "put"}, output : Outputs \cup {None}]
Serving == [pc : {"hit"}, output : Outputs]

LEMMA CallKinds ==
    ASSUME NEW call \in Call \cup {Idle}
    PROVE  /\ call.pc = "idle" <=> call = Idle
           /\ call.pc \in {"storing", "renamed", "truncated", "stored"} <=> call \in Working
           /\ call.pc = "asking" <=> call \in Asking
           /\ call.pc = "hit" <=> call \in Serving
  <1>1. CASE call \in Working
    BY <1>1 DEF Working, Asking, Serving, Idle
  <1>2. CASE call \in Asking
    BY <1>2 DEF Working, Asking, Serving, Idle
  <1>3. CASE call \in Serving
    BY <1>3 DEF Working, Asking, Serving, Idle
  <1>4. CASE call = Idle
    BY <1>4 DEF Working, Asking, Serving, Idle
  <1> QED
    BY <1>1, <1>2, <1>3, <1>4 DEF Call, Working, Asking, Serving

(* One goroutine's call changes; what becomes of it.                       *)
Steps(c, call) ==
    /\ call \in Call \cup {Idle}
    /\ calls' = [calls EXCEPT ![c] = call]

LEMMA Continued ==
    ASSUME TypeOK, NEW c \in Calls, NEW pc, Continue(c, pc), calls[c] \in Working,
           pc \in {"storing", "renamed", "truncated", "stored", "asking"}
    PROVE  \E call \in Working \cup Asking :
             Steps(c, call) /\ call.pc = pc /\ call.command = calls[c].command
               /\ call.output = calls[c].output
  <1> DEFINE call == [calls[c] EXCEPT !.pc = pc]
  <1>1. /\ call.pc = pc /\ call.command = calls[c].command /\ call.output = calls[c].output
        /\ call \in Working \cup Asking
    BY DEF Working, Asking
  <1>2. calls' = [calls EXCEPT ![c] = call]
    BY DEF Continue
  <1>3. Working \cup Asking \subseteq Call
    BY DEF Working, Asking, Call
  <1> HIDE DEF call
  <1> QED
    BY <1>1, <1>2, <1>3 DEF Steps

LEMMA Stepped ==
    ASSUME TypeOK, NEW c \in Calls, NEW call, Steps(c, call)
    PROVE  /\ calls' \in [Calls -> Call \cup {Idle}] /\ calls'[c] = call
           /\ \A d \in Calls \ {c} : calls'[d] = calls[d]
  BY DEF Steps, TypeOK
-----------------------------------------------------------------------------
(* The steps that do not touch the local files.                            *)
Apart(call) == call.pc \notin {"renamed", "truncated"}

Quiet(c, call) ==
    /\ Steps(c, call) /\ Apart(calls[c]) /\ Apart(call)
    /\ UNCHANGED local /\ remote' \in Outputs \cup {None}
    /\ used' \in [faults : 0..MaxFaults, stops : 0..MaxStops]
    /\ \/ /\ UNCHANGED latch
          /\ Exposed(call) => Exposed(calls[c]) \/ ~remoteDisabled[programOf[c]]
       \/ DisableRemote(programOf[c]) /\ Exposed(calls[c]) /\ call = Idle

QuietStep(c) ==
    \/ Hit(c) \/ Get(c) \/ Answer(c) \/ Stored(c) \/ Serves(c) \/ RenameFails(c)
    \/ TimesOut(c) \/ Interrupted(c)
    \/ \E output \in Outputs : Put(c, output)

LEMMA FaultType ==
    ASSUME TypeOK, Fault
    PROVE  used' \in [faults : 0..MaxFaults, stops : 0..MaxStops]
  <1>1. used.faults \in 0..MaxFaults /\ used.stops \in 0..MaxStops
    BY DEF TypeOK
  <1>2. used.faults + 1 \in 0..MaxFaults
    BY <1>1, CacheProgAssumption DEF Fault
  <1> QED
    BY <1>1, <1>2 DEF Fault, TypeOK

LEMMA FailingIsQuiet ==
    ASSUME TypeOK, NEW c \in Calls, Fails(c), Exposed(calls[c])
    PROVE  Quiet(c, Idle)
  <1>1. calls[c] \in Call \cup {Idle} /\ calls[c] # Idle
    BY DEF TypeOK, Exposed, Idle
  <1>2. calls[c].command = "put" => calls[c].output \in Outputs \cup {None}
    BY <1>1, CallKinds DEF Exposed, Asking, Working
  <1>3. remote' \in Outputs \cup {None}
    BY <1>2 DEF Fails, TypeOK
  <1>4. Steps(c, Idle) /\ UNCHANGED local /\ used' = used
    BY DEF Fails, Become, Steps
  <1> QED
    BY <1>3, <1>4 DEF Fails, Quiet, Apart, Exposed, Idle, TypeOK

LEMMA QuietSteps ==
    ASSUME TypeOK, NEW c \in Calls, QuietStep(c)
    PROVE  \E call : Quiet(c, call)
  <1>0. /\ calls[c] \in Call \cup {Idle} /\ calls \in [Calls -> Call \cup {Idle}]
        /\ remote \in Outputs \cup {None}
        /\ used \in [faults : 0..MaxFaults, stops : 0..MaxStops]
    BY DEF TypeOK
  <1>1. ASSUME NEW call \in Call \cup {Idle}, Become(c, call) PROVE Steps(c, call)
    BY <1>1 DEF Become, Steps
  <1>2. CASE Hit(c)
    <2>1. sidecar \in Outputs
      BY <1>2 DEF Hit, Readable
    <2>2. [pc |-> "hit", output |-> sidecar] \in Call
      BY <2>1 DEF Call
    <2>3. Quiet(c, [pc |-> "hit", output |-> sidecar])
      BY <1>0, <1>1, <1>2, <2>2 DEF Hit, At, Quiet, Apart, Exposed
    <2> QED
      BY <2>3
  <1>3. CASE Get(c)
    <2> DEFINE call == [pc |-> "asking", command |-> "get", output |-> None]
    <2>1. call \in Call
      BY DEF Call
    <2>2. Quiet(c, call)
      BY <1>0, <1>1, <1>3, <2>1 DEF Get, At, Quiet, Apart, Exposed
    <2> QED
      BY <2>2
  <1>4. CASE Answer(c)
    <2>1. Quiet(c, Idle)
      BY <1>0, <1>1, <1>4 DEF Answer, At, Quiet, Apart, Exposed, Idle
    <2> QED
      BY <2>1
  <1>5. CASE Stored(c)
    <2>1. UNCHANGED <<local, remote, latch, used>> /\ calls[c].pc = "stored"
      BY <1>5 DEF Stored, At
    <2>2. CASE Become(c, Idle)
      <3>1. Quiet(c, Idle)
        BY <1>0, <1>1, <2>1, <2>2 DEF Quiet, Apart, Exposed, Idle
      <3> QED
        BY <3>1
    <2>3. CASE Continue(c, "asking") /\ ~remoteDisabled[programOf[c]]
      <3>1. calls[c] \in Working
        BY <1>0, <2>1, CallKinds
      <3>2. PICK call \in Working \cup Asking : Steps(c, call) /\ call.pc = "asking"
        BY <2>3, <3>1, Continued
      <3>3. Quiet(c, call)
        BY <1>0, <2>1, <2>3, <3>2 DEF Quiet, Apart, Exposed
      <3> QED
        BY <3>3
    <2> QED
      BY <1>5, <2>2, <2>3 DEF Stored
  <1>6. CASE Serves(c)
    <2>1. UNCHANGED <<local, latch, used>> /\ calls[c].pc = "asking" /\ calls[c] \in Asking
      BY <1>0, <1>6, CallKinds DEF Serves, At
    <2>2. CASE Become(c, Idle) /\ remote' \in {remote, calls[c].output}
      <3>1. remote' \in Outputs \cup {None}
        BY <1>0, <2>1, <2>2 DEF Asking
      <3>2. Quiet(c, Idle)
        BY <1>0, <1>1, <2>1, <2>2, <3>1 DEF Quiet, Apart, Exposed, Idle
      <3> QED
        BY <3>2
    <2>3. CASE /\ calls[c].command = "get" /\ remote # None /\ UNCHANGED remote
               /\ Become(c, [calls[c] EXCEPT !.pc = "storing", !.output = remote])
      <3> DEFINE call == [calls[c] EXCEPT !.pc = "storing", !.output = remote]
      <3>1. call \in Working /\ call.pc = "storing" /\ remote \in Outputs
        BY <1>0, <2>1, <2>3 DEF Asking, Working
      <3>2. Steps(c, call)
        BY <1>1, <2>3, <3>1 DEF Working, Call
      <3> HIDE DEF call
      <3>3. Quiet(c, call)
        BY <1>0, <2>1, <2>3, <3>1, <3>2 DEF Quiet, Apart, Exposed
      <3> QED
        BY <3>3
    <2> QED
      BY <1>6, <2>2, <2>3 DEF Serves
  <1>7. CASE RenameFails(c)
    <2>1. used' \in [faults : 0..MaxFaults, stops : 0..MaxStops]
      BY <1>7, FaultType DEF RenameFails
    <2>2. Quiet(c, Idle)
      BY <1>0, <1>1, <1>7, <2>1 DEF RenameFails, At, Quiet, Apart, Exposed, Idle
    <2> QED
      BY <2>2
  <1>8. CASE TimesOut(c) \/ Interrupted(c)
    <2>1. Fails(c) /\ Exposed(calls[c])
      BY <1>8 DEF TimesOut, Interrupted, Exposed, At
    <2> QED
      BY <2>1, FailingIsQuiet
  <1>9. ASSUME NEW output \in Outputs, Put(c, output) PROVE \E call : Quiet(c, call)
    <2> DEFINE call == [pc |-> "storing", command |-> "put", output |-> output]
    <2>1. call \in Call
      BY DEF Call
    <2>2. Quiet(c, call)
      BY <1>0, <1>1, <1>9, <2>1 DEF Put, At, Quiet, Apart, Exposed
    <2> QED
      BY <2>2
  <1> QED
    BY <1>2, <1>3, <1>4, <1>5, <1>6, <1>7, <1>8, <1>9 DEF QuietStep
-----------------------------------------------------------------------------
(* The steps that write the local files.                                   *)
Writes(c, pc, call) ==
    /\ Steps(c, call) /\ call \in Working /\ calls[c] \in Working
    /\ call.pc = pc /\ call.output = calls[c].output
    /\ UNCHANGED <<remote, latch>>
    /\ used' \in [faults : 0..MaxFaults, stops : 0..MaxStops]

LEMMA FileSteps ==
    ASSUME TypeOK, NEW c \in Calls
    PROVE  /\ Rename(c) => \E call : Writes(c, "renamed", call)
           /\ TruncateSidecar(c) => \E call : Writes(c, "truncated", call)
           /\ WriteSidecar(c) \/ SidecarFails(c) => \E call : Writes(c, "stored", call)
  <1>0. /\ calls[c] \in Call \cup {Idle}
        /\ used \in [faults : 0..MaxFaults, stops : 0..MaxStops]
    BY DEF TypeOK
  <1>1. ASSUME NEW pc \in {"renamed", "truncated", "stored"}, Continue(c, pc),
               calls[c].pc \in {"storing", "renamed", "truncated"},
               UNCHANGED <<remote, latch>>, used' = used \/ Fault
        PROVE  \E call : Writes(c, pc, call)
    <2>1. calls[c] \in Working
      BY <1>0, <1>1, CallKinds
    <2>2. PICK call \in Working \cup Asking :
            Steps(c, call) /\ call.pc = pc /\ call.output = calls[c].output
      BY <1>1, <2>1, Continued
    <2>3. call \in Working
      BY <2>2 DEF Asking
    <2>4. used' \in [faults : 0..MaxFaults, stops : 0..MaxStops]
      BY <1>0, <1>1, FaultType
    <2> QED
      BY <1>1, <2>1, <2>2, <2>3, <2>4 DEF Writes
  <1>2. ASSUME Rename(c) PROVE \E call : Writes(c, "renamed", call)
    BY <1>1, <1>2 DEF Rename, At
  <1>3. ASSUME TruncateSidecar(c) PROVE \E call : Writes(c, "truncated", call)
    BY <1>1, <1>3 DEF TruncateSidecar, At
  <1>4. ASSUME WriteSidecar(c) \/ SidecarFails(c) PROVE \E call : Writes(c, "stored", call)
    BY <1>1, <1>4 DEF WriteSidecar, SidecarFails, At
  <1> QED
    BY <1>2, <1>3, <1>4

FileStep(c) == Rename(c) \/ TruncateSidecar(c) \/ WriteSidecar(c) \/ SidecarFails(c)
WorldStep == (\E p \in Programs : Stop(p)) \/ RemoteChanges \/ Prune

LEMMA NextSteps ==
    ASSUME Next
    PROVE  (\E c \in Calls : QuietStep(c) \/ FileStep(c)) \/ WorldStep
  BY DEF Next, LocalStep, QuietStep, FileStep, WorldStep
-----------------------------------------------------------------------------
LEMMA LatchType ==
    ASSUME TypeOK, NEW c \in Calls, UNCHANGED latch \/ DisableRemote(programOf[c])
    PROVE  /\ programOf' = programOf
           /\ remoteDisabled' \in [Programs -> BOOLEAN] /\ failures' \in [Programs -> Nat]
  <1>1. /\ programOf[c] \in Programs /\ failures \in [Programs -> Nat]
        /\ remoteDisabled \in [Programs -> BOOLEAN]
    BY DEF TypeOK
  <1>2. CASE UNCHANGED latch
    BY <1>1, <1>2 DEF latch
  <1>3. CASE DisableRemote(programOf[c])
    BY <1>1, <1>3 DEF DisableRemote
  <1> QED
    BY <1>2, <1>3

LEMMA TypeKept ==
    ASSUME TypeOK, [Next]_vars
    PROVE  TypeOK'
  <1>0. /\ programOf \in [Calls -> Programs]
        /\ blob \in Outputs \cup {None} /\ sidecar \in Outputs \cup {None, Torn}
        /\ remote \in Outputs \cup {None} /\ remoteDisabled \in [Programs -> BOOLEAN]
        /\ calls \in [Calls -> Call \cup {Idle}] /\ failures \in [Programs -> Nat]
        /\ lastSidecar \in {"none", "written", "failed"} /\ disturbed \in BOOLEAN
        /\ used \in [faults : 0..MaxFaults, stops : 0..MaxStops]
    BY DEF TypeOK
  <1>1. ASSUME NEW c \in Calls, QuietStep(c) PROVE TypeOK'
    <2>1. PICK call : Quiet(c, call)
      BY <1>1, QuietSteps
    <2>2. calls' \in [Calls -> Call \cup {Idle}]
      BY <2>1, Stepped DEF Quiet
    <2>3. /\ programOf' = programOf /\ remoteDisabled' \in [Programs -> BOOLEAN]
          /\ failures' \in [Programs -> Nat]
      BY <2>1, LatchType DEF Quiet
    <2>4. /\ UNCHANGED <<blob, sidecar, lastSidecar, disturbed>> /\ remote' \in Outputs \cup {None}
          /\ used' \in [faults : 0..MaxFaults, stops : 0..MaxStops]
      BY <2>1 DEF Quiet, local
    <2> QED
      BY <1>0, <2>2, <2>3, <2>4 DEF TypeOK
  <1>2. ASSUME NEW c \in Calls, FileStep(c) PROVE TypeOK'
    <2>0. PICK pc \in {"renamed", "truncated", "stored"} : \E call : Writes(c, pc, call)
      BY <1>2, FileSteps DEF FileStep
    <2>1. PICK call : Writes(c, pc, call)
      BY <2>0
    <2>2. calls' \in [Calls -> Call \cup {Idle}]
      BY <2>1, Stepped DEF Writes
    <2>3. /\ UNCHANGED <<remote, programOf, remoteDisabled, failures>>
          /\ used' \in [faults : 0..MaxFaults, stops : 0..MaxStops]
      BY <2>1 DEF Writes, latch
    <2>4. calls[c].output \in Outputs
      BY <2>1 DEF Writes, Working
    <2>5. /\ blob' \in Outputs \cup {None} /\ sidecar' \in Outputs \cup {None, Torn}
          /\ lastSidecar' \in {"none", "written", "failed"}
      BY <1>0, <1>2, <2>4
         DEF FileStep, Rename, TruncateSidecar, WriteSidecar, SidecarFails
    <2>6. disturbed' \in BOOLEAN
      BY <1>0, <1>2 DEF FileStep, Rename, TruncateSidecar, WriteSidecar, SidecarFails
    <2> QED
      BY <1>0, <2>2, <2>3, <2>5, <2>6 DEF TypeOK
  <1>3. ASSUME NEW p \in Programs, Stop(p) PROVE TypeOK'
    <2>1. calls' \in [Calls -> Call \cup {Idle}]
      BY <1>0, <1>3 DEF Stop
    <2>2. remoteDisabled' \in [Programs -> BOOLEAN] /\ failures' \in [Programs -> Nat]
      BY <1>0, <1>3 DEF Stop
    <2>3. used' \in [faults : 0..MaxFaults, stops : 0..MaxStops]
      <3>1. used.stops + 1 \in 0..MaxStops
        BY <1>0, <1>3, CacheProgAssumption DEF Stop
      <3> QED
        BY <1>0, <1>3, <3>1 DEF Stop
    <2>4. UNCHANGED <<blob, sidecar, lastSidecar, remote, programOf>> /\ disturbed' \in BOOLEAN
      BY <1>0, <1>3 DEF Stop
    <2> QED
      BY <1>0, <2>1, <2>2, <2>3, <2>4 DEF TypeOK
  <1>4. CASE RemoteChanges
    BY <1>0, <1>4 DEF RemoteChanges, local, latch, TypeOK
  <1>5. CASE Prune
    BY <1>0, <1>5, FaultType DEF Prune, latch, TypeOK
  <1>6. CASE UNCHANGED vars
    BY <1>0, <1>6 DEF vars, local, latch, TypeOK
  <1> QED
    BY <1>1, <1>2, <1>3, <1>4, <1>5, <1>6, NextSteps DEF WorldStep
-----------------------------------------------------------------------------
(* A step that leaves the files alone, and who is between them.            *)
LEMMA QuietKeepsFiles ==
    ASSUME TypeOK, FilesOK, NEW c \in Calls, NEW call, Quiet(c, call)
    PROVE  FilesOK'
  <1>1. \A d \in Calls : d \in BetweenFiles' <=> d \in BetweenFiles
    <2>1. c \notin BetweenFiles /\ c \notin BetweenFiles'
      BY Stepped DEF Quiet, Apart, BetweenFiles
    <2>2. \A d \in Calls \ {c} : d \in BetweenFiles' <=> d \in BetweenFiles
      BY Stepped DEF Quiet, BetweenFiles
    <2> QED
      BY <2>1, <2>2
  <1>2. BetweenFiles' = BetweenFiles
    BY <1>1 DEF BetweenFiles
  <1>3. \A d \in BetweenFiles : calls'[d] = calls[d]
    BY Stepped DEF Quiet, Apart, BetweenFiles
  <1>4. \A d \in Calls : calls'[d].pc = "truncated" => d \in BetweenFiles'
    BY DEF BetweenFiles
  <1>5. UNCHANGED <<blob, sidecar, disturbed>>
    BY DEF Quiet, local
  <1> QED
    BY <1>2, <1>3, <1>4, <1>5 DEF FilesOK, Readable, At, BetweenFiles

LEMMA FilesKept ==
    ASSUME TypeOK, FilesOK, [Next]_vars
    PROVE  FilesOK'
  <1>1. ASSUME NEW c \in Calls, QuietStep(c) PROVE FilesOK'
    BY <1>1, QuietSteps, QuietKeepsFiles
  <1>2. ASSUME NEW c \in Calls, Rename(c) PROVE FilesOK'
    <2> SUFFICES ASSUME ~disturbed' PROVE FilesOK'
      BY DEF FilesOK
    <2>1. PICK call : Writes(c, "renamed", call)
      BY <1>2, FileSteps
    <2>2. /\ calls'[c].pc = "renamed" /\ calls'[c].output = calls[c].output
          /\ \A d \in Calls \ {c} : calls'[d] = calls[d]
      BY <2>1, Stepped DEF Writes
    <2>3. BetweenFiles = {} /\ blob' = calls[c].output
      BY <1>2 DEF Rename
    <2>4. BetweenFiles' = {c}
      BY <2>2, <2>3 DEF BetweenFiles
    <2>5. \A d \in Calls : ~At(d, "truncated")'
      BY <2>2, <2>3 DEF At, BetweenFiles
    <2> QED
      BY <2>2, <2>3, <2>4, <2>5 DEF FilesOK
  <1>3. ASSUME NEW c \in Calls, TruncateSidecar(c) PROVE FilesOK'
    <2> SUFFICES ASSUME ~disturbed' PROVE FilesOK'
      BY DEF FilesOK
    <2>1. PICK call : Writes(c, "truncated", call)
      BY <1>3, FileSteps
    <2>2. /\ calls'[c].pc = "truncated" /\ calls'[c].output = calls[c].output
          /\ \A d \in Calls \ {c} : calls'[d] = calls[d]
      BY <2>1, Stepped DEF Writes
    <2>3. c \in BetweenFiles /\ ~disturbed /\ blob' = blob /\ sidecar' = Torn
      BY <1>3 DEF TruncateSidecar, BetweenFiles, At
    <2>4. BetweenFiles' = BetweenFiles
      BY <2>2, <2>3 DEF BetweenFiles
    <2>5. \A d \in BetweenFiles : calls'[d].output = calls[d].output
      BY <2>2 DEF BetweenFiles
    <2> QED
      BY <2>3, <2>4, <2>5 DEF FilesOK
  <1>4. ASSUME NEW c \in Calls, WriteSidecar(c) \/ SidecarFails(c) PROVE FilesOK'
    <2> SUFFICES ASSUME ~disturbed' PROVE FilesOK'
      BY DEF FilesOK
    <2>1. PICK call : Writes(c, "stored", call)
      BY <1>4, FileSteps
    <2>2. calls'[c].pc = "stored" /\ \A d \in Calls \ {c} : calls'[d] = calls[d]
      BY <2>1, Stepped DEF Writes
    <2>3. /\ calls[c].pc = "truncated" /\ ~disturbed /\ blob' = blob
          /\ sidecar' = sidecar \/ (BetweenFiles = {c} => sidecar' = calls[c].output)
      <3>1. disturbed \in BOOLEAN /\ disturbed' \in BOOLEAN
        BY TypeKept DEF TypeOK
      <3>2. CASE WriteSidecar(c)
        BY <3>1, <3>2 DEF WriteSidecar, At
      <3>3. CASE SidecarFails(c)
        BY <3>1, <3>3 DEF SidecarFails, At
      <3> QED
        BY <1>4, <3>2, <3>3
    <2>4. BetweenFiles = {c}
      BY <2>3 DEF FilesOK, BetweenFiles
    <2>5. BetweenFiles' = {}
      BY <2>2, <2>4 DEF BetweenFiles
    <2>6. blob \in {calls[c].output, None} /\ sidecar \in {Torn, None}
      BY <2>3, <2>4 DEF FilesOK, At
    <2>7. Readable' => sidecar' = blob'
      BY <2>3, <2>4, <2>6, CacheProgAssumption DEF Readable
    <2>8. \A d \in Calls : ~At(d, "truncated")'
      BY <2>5 DEF At, BetweenFiles
    <2> QED
      BY <2>5, <2>7, <2>8 DEF FilesOK
  <1>5. ASSUME NEW p \in Programs, Stop(p) PROVE FilesOK'
    <2> SUFFICES ASSUME ~disturbed' PROVE FilesOK'
      BY DEF FilesOK
    <2>1. /\ ~disturbed /\ UNCHANGED <<blob, sidecar>>
          /\ calls' = [c \in Calls |-> IF programOf[c] = p THEN Idle ELSE calls[c]]
          /\ ~\E c \in Calls : programOf[c] = p /\ At(c, "renamed")
      BY <1>5 DEF Stop
    <2>2. \A d \in BetweenFiles' : d \in BetweenFiles /\ calls'[d] = calls[d]
      BY <2>1 DEF BetweenFiles, Idle
    <2>3. ASSUME BetweenFiles' = {}, Readable' PROVE sidecar' = blob'
      <3>1. CASE BetweenFiles = {}
        BY <2>1, <2>3, <3>1 DEF FilesOK, Readable
      <3>2. ASSUME NEW c \in BetweenFiles PROVE FALSE
        <4>1. calls[c].pc = "truncated"
          BY <2>1, <2>3, <3>2 DEF BetweenFiles, At
        <4>2. sidecar \in {Torn, None}
          BY <2>1, <4>1 DEF FilesOK, At, BetweenFiles
        <4> QED
          BY <2>1, <2>3, <4>2, CacheProgAssumption DEF Readable
      <3> QED
        BY <3>1, <3>2
    <2>4. \A d \in Calls : At(d, "truncated")' => At(d, "truncated")
      BY <2>1 DEF At, Idle
    <2> QED
      BY <2>1, <2>2, <2>3, <2>4 DEF FilesOK
  <1>6. CASE Prune
    <2>1. UNCHANGED <<disturbed, calls>> /\ ~Readable'
      BY <1>6, CacheProgAssumption DEF Prune, Readable
    <2>2. BetweenFiles' = BetweenFiles
      BY <2>1 DEF BetweenFiles
    <2>3. blob' \in {blob, None} /\ sidecar' \in {sidecar, None}
      BY <1>6 DEF Prune
    <2> QED
      BY <2>1, <2>2, <2>3 DEF FilesOK, At
  <1>7. CASE RemoteChanges \/ UNCHANGED vars
    <2>1. UNCHANGED <<blob, sidecar, disturbed, calls>>
      BY <1>7 DEF RemoteChanges, vars, local
    <2> QED
      BY <2>1 DEF FilesOK, BetweenFiles, Readable, At
  <1> QED
    BY <1>1, <1>2, <1>3, <1>4, <1>5, <1>6, <1>7, NextSteps DEF FileStep, WorldStep
-----------------------------------------------------------------------------
(* Fewer calls of a program that may still fail, or one failure for one.   *)
LEMMA ProgramCalls ==
    ASSUME NEW p \in Programs
    PROVE  /\ IsFiniteSet(ExposedOf(p)) /\ IsFiniteSet(CallsOf(p))
           /\ Cardinality(ExposedOf(p)) \in Nat /\ Cardinality(CallsOf(p)) \in Nat
           /\ Cardinality(ExposedOf(p)) <= Cardinality(CallsOf(p))
  <1>1. ExposedOf(p) \subseteq CallsOf(p) /\ CallsOf(p) \subseteq Calls
    BY DEF ExposedOf, CallsOf
  <1> QED
    BY <1>1, CacheProgAssumption, FS_Subset, FS_CardinalityType

LEMMA OneCallMoves ==
    ASSUME TypeOK, LatchOK, NEW c \in Calls, NEW call, Steps(c, call), programOf' = programOf,
           \/ /\ UNCHANGED latch
              /\ Exposed(call) => Exposed(calls[c]) \/ ~remoteDisabled[programOf[c]]
           \/ DisableRemote(programOf[c]) /\ Exposed(calls[c]) /\ call = Idle
    PROVE  LatchOK'
  <1> SUFFICES ASSUME NEW p \in Programs
               PROVE  /\ ~remoteDisabled'[p] => failures'[p] = 0
                      /\ failures'[p] + Cardinality(ExposedOf(p)') <= Cardinality(CallsOf(p)')
    BY DEF LatchOK
  <1>1. /\ failures \in [Programs -> Nat] /\ remoteDisabled \in [Programs -> BOOLEAN]
        /\ programOf[c] \in Programs
    BY DEF TypeOK
  <1>2. /\ ~remoteDisabled[p] => failures[p] = 0
        /\ failures[p] + Cardinality(ExposedOf(p)) <= Cardinality(CallsOf(p))
    BY DEF LatchOK
  <1>3. CallsOf(p)' = CallsOf(p)
    BY DEF CallsOf
  <1>4. calls'[c] = call /\ \A d \in Calls \ {c} : calls'[d] = calls[d]
    BY Stepped
  <1>5. /\ IsFiniteSet(ExposedOf(p)') /\ Cardinality(ExposedOf(p)') \in Nat
        /\ Cardinality(ExposedOf(p)') <= Cardinality(CallsOf(p))
    <2>1. ExposedOf(p)' \subseteq CallsOf(p)'
      BY DEF ExposedOf, CallsOf
    <2> QED
      BY <1>3, <2>1, ProgramCalls, FS_Subset, FS_CardinalityType
  <1>6. CASE UNCHANGED latch /\ ~remoteDisabled[p]
    BY <1>1, <1>2, <1>3, <1>5, <1>6, ProgramCalls DEF latch
  <1>7. CASE /\ UNCHANGED latch /\ remoteDisabled[p]
             /\ Exposed(call) => Exposed(calls[c]) \/ ~remoteDisabled[programOf[c]]
    <2>1. ExposedOf(p)' \subseteq ExposedOf(p)
      BY <1>4, <1>7 DEF ExposedOf, latch
    <2>2. Cardinality(ExposedOf(p)') <= Cardinality(ExposedOf(p))
      BY <2>1, ProgramCalls, FS_Subset
    <2>3. failures' = failures /\ remoteDisabled' = remoteDisabled
      BY <1>7 DEF latch
    <2> QED
      BY <1>1, <1>2, <1>3, <1>5, <1>7, <2>2, <2>3, ProgramCalls
  <1>8. CASE DisableRemote(programOf[c]) /\ Exposed(calls[c]) /\ call = Idle
    <2>1. CASE p = programOf[c]
      <3>1. remoteDisabled'[p] /\ failures'[p] = failures[p] + 1
        BY <1>1, <1>8, <2>1 DEF DisableRemote
      <3>2. c \in ExposedOf(p) /\ ExposedOf(p)' = ExposedOf(p) \ {c}
        BY <1>4, <1>8, <2>1 DEF ExposedOf, Exposed, Idle
      <3>3. Cardinality(ExposedOf(p)') = Cardinality(ExposedOf(p)) - 1
        BY <3>2, ProgramCalls, FS_RemoveElement
      <3> QED
        BY <1>1, <1>2, <1>3, <3>1, <3>3, ProgramCalls
    <2>2. CASE p # programOf[c]
      <3>1. remoteDisabled'[p] = remoteDisabled[p] /\ failures'[p] = failures[p]
        BY <1>1, <1>8, <2>2 DEF DisableRemote
      <3>2. ExposedOf(p)' = ExposedOf(p)
        BY <1>4, <2>2 DEF ExposedOf
      <3> QED
        BY <1>2, <1>3, <3>1, <3>2
    <2> QED
      BY <2>1, <2>2
  <1> QED
    BY <1>6, <1>7, <1>8, <1>1

LEMMA LatchKept ==
    ASSUME TypeOK, LatchOK, [Next]_vars
    PROVE  LatchOK'
  <1>1. ASSUME NEW c \in Calls, QuietStep(c) PROVE LatchOK'
    <2>1. PICK call : Quiet(c, call)
      BY <1>1, QuietSteps
    <2>2. programOf' = programOf
      BY <2>1, LatchType DEF Quiet
    <2> QED
      BY <2>1, <2>2, OneCallMoves DEF Quiet
  <1>2. ASSUME NEW c \in Calls, FileStep(c) PROVE LatchOK'
    <2>0. PICK pc \in {"renamed", "truncated", "stored"} : \E call : Writes(c, pc, call)
      BY <1>2, FileSteps DEF FileStep
    <2>1. PICK call : Writes(c, pc, call)
      BY <2>0
    <2>2. UNCHANGED latch /\ programOf' = programOf /\ Steps(c, call) /\ ~Exposed(call)
      BY <2>1 DEF Writes, latch, Exposed
    <2> QED
      BY <2>2, OneCallMoves
  <1>3. ASSUME NEW p \in Programs, Stop(p) PROVE LatchOK'
    <2> SUFFICES ASSUME NEW q \in Programs
                 PROVE  /\ ~remoteDisabled'[q] => failures'[q] = 0
                        /\ failures'[q] + Cardinality(ExposedOf(q)') <= Cardinality(CallsOf(q)')
      BY DEF LatchOK
    <2>1. /\ failures \in [Programs -> Nat] /\ remoteDisabled \in [Programs -> BOOLEAN]
          /\ failures' = [failures EXCEPT ![p] = 0] /\ programOf' = programOf
          /\ remoteDisabled' = [remoteDisabled EXCEPT ![p] = FALSE]
          /\ calls' = [c \in Calls |-> IF programOf[c] = p THEN Idle ELSE calls[c]]
      BY <1>3 DEF TypeOK, Stop
    <2>2. CallsOf(q)' = CallsOf(q) /\ ExposedOf(q)' \subseteq ExposedOf(q)
      BY <2>1 DEF CallsOf, ExposedOf, Exposed, Idle
    <2>3. /\ Cardinality(ExposedOf(q)') \in Nat
          /\ Cardinality(ExposedOf(q)') <= Cardinality(ExposedOf(q))
      BY <2>2, ProgramCalls, FS_Subset, FS_CardinalityType
    <2>4. failures'[q] \in 0..failures[q] /\ (remoteDisabled'[q] <=> remoteDisabled[q] /\ q # p)
      BY <2>1
    <2>5. failures[q] + Cardinality(ExposedOf(q)) <= Cardinality(CallsOf(q))
      BY DEF LatchOK
    <2>6. failures'[q] + Cardinality(ExposedOf(q)') <= Cardinality(CallsOf(q)')
      BY <2>1, <2>2, <2>3, <2>4, <2>5, ProgramCalls
    <2> QED
      BY <2>1, <2>6 DEF LatchOK
  <1>4. CASE RemoteChanges \/ Prune \/ UNCHANGED vars
    <2>1. UNCHANGED <<programOf, remoteDisabled, failures, calls>>
      BY <1>4 DEF RemoteChanges, Prune, vars, latch
    <2> QED
      BY <2>1 DEF LatchOK, ExposedOf, CallsOf
  <1> QED
    BY <1>1, <1>2, <1>3, <1>4, NextSteps DEF WorldStep

LEMMA IInvHolds == Spec => []IInv
  <1>1. Init => IInv
    <2> SUFFICES ASSUME Init PROVE IInv
      OBVIOUS
    <2>1. \A c \in Calls : calls[c] = Idle
      BY DEF Init
    <2>2. TypeOK
      <3>1. calls \in [Calls -> Call \cup {Idle}]
        BY DEF Init
      <3>2. /\ remoteDisabled \in [Programs -> BOOLEAN]
            /\ failures \in [Programs -> Nat]
        BY DEF Init
      <3>3. used \in [faults : 0..MaxFaults, stops : 0..MaxStops]
        BY CacheProgAssumption DEF Init
      <3> QED
        BY <3>1, <3>2, <3>3 DEF Init, TypeOK
    <2>3. FilesOK
      BY <2>1, CacheProgAssumption DEF Init, FilesOK, BetweenFiles, Readable, At, Idle
    <2>4. ASSUME NEW p \in Programs
          PROVE  failures[p] = 0 /\ Cardinality(ExposedOf(p)) <= Cardinality(CallsOf(p))
      BY ProgramCalls DEF Init
    <2>5. LatchOK
      BY <2>4, ProgramCalls DEF LatchOK
    <2> QED
      BY <2>2, <2>3, <2>5 DEF IInv
  <1>2. IInv /\ [Next]_vars => IInv'
    BY TypeKept, FilesKept, LatchKept DEF IInv
  <1> QED
    BY <1>1, <1>2, PTL DEF Spec
-----------------------------------------------------------------------------
(* What a hit names is what the file has, whatever writes fail, whatever   *)
(* programs stop and whatever files are pruned, as long as writes do not   *)
(* overlap or end between the two files (handleGet, handlePut, writeSidecar).         *)
THEOREM SidecarsDescribe == Spec => []SidecarDescribesBlob
  <1>1. IInv => SidecarDescribesBlob
    BY DEF IInv, FilesOK, SidecarDescribesBlob
  <1> QED
    BY <1>1, IInvHolds, PTL

(* disableRemote stops the requests that have not begun: an invocation     *)
(* meets at most one failure for each goroutine it has.                    *)
THEOREM OutagesAreBounded == Spec => []OutageIsBounded
  <1>1. IInv => OutageIsBounded
    <2> SUFFICES ASSUME IInv, NEW p \in Programs
                 PROVE  failures[p] <= Cardinality({c \in Calls : programOf[c] = p})
      BY DEF OutageIsBounded
    <2>1. /\ failures[p] \in Nat
          /\ failures[p] + Cardinality(ExposedOf(p)) <= Cardinality(CallsOf(p))
      BY DEF IInv, LatchOK, TypeOK
    <2>2. failures[p] <= Cardinality(CallsOf(p))
      BY <2>1, ProgramCalls
    <2> QED
      BY <2>2 DEF CallsOf
  <1> QED
    BY <1>1, IInvHolds, PTL
=============================================================================
