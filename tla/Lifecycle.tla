------------------------------ MODULE Lifecycle ------------------------------
(***************************************************************************)
(* The server process (server/http.go Start and Shutdown, called by        *)
(* cmd/content-cache/main.go): a goroutine that launches the background    *)
(* tasks and listens, a main goroutine that waits for a signal or for the  *)
(* listener's error and then stops the tasks in turn, the two reapers, the *)
(* eviction loop, the collector's loop, and requests.                      *)
(*                                                                         *)
(* What a task does in one pass is in Maintenance, S3Fifo and CacheStore.  *)
(* All three are configured: reaping, a size limit and collection.         *)
(***************************************************************************)
CONSTANTS Requests \* the requests of one run of the process

Reapers == {"expiry", "envelope"}

VARIABLES
    starting,   \* where Server.Start stands
    main,       \* where main's Run stands
    signalled,  \* SIGINT or SIGTERM has cancelled main's context
    late,       \* the ten seconds of the shutdown's context are over
    errCh,      \* the error of Start that Run may receive
    closing,    \* http.Server.Shutdown has closed the listener
    orderly,    \* the signal came after the tasks had been launched
    cancel,     \* metadataReapers.cancel: not set, set, or called
    reapers,    \* reaper -> its goroutine
    evictCh,    \* an eviction pass is asked for
    evictor,    \* the eviction goroutine
    evictStop,  \* its stopCh is closed
    gc,         \* the collector's goroutine
    gcStop,     \* its stopCh is closed
    requests    \* request -> where it stands

mainVars == <<main, signalled, late, orderly>>
reaperVars == <<cancel, reapers>>
evictVars == <<evictCh, evictor, evictStop>>
gcVars == <<gc, gcStop>>
vars == <<starting, mainVars, errCh, closing, reaperVars, evictVars, gcVars, requests>>

Init ==
    /\ starting = "reapers" /\ main = "waiting"
    /\ signalled = FALSE /\ late = FALSE /\ errCh = FALSE
    /\ closing = FALSE /\ orderly = FALSE
    /\ cancel = "unset" /\ reapers = [r \in Reapers |-> "off"]
    /\ evictCh \in BOOLEAN  \* NewManager asks for a pass if the cache is over its limit
    /\ evictor = "off" /\ evictStop = FALSE
    /\ gc = "off" /\ gcStop = FALSE
    /\ requests = [r \in Requests |-> "new"]

Alive == main # "exited"
ReapersEnded == \A r \in Reapers : reapers[r] \in {"off", "ended"}  \* done.Wait()
-----------------------------------------------------------------------------
(* Server.Start.                                                           *)

StartStep(from, to) == Alive /\ starting = from /\ starting' = to

SetCancel ==
    /\ StartStep("reapers", "launch")
    /\ cancel' = "set"
    /\ UNCHANGED <<mainVars, errCh, closing, reapers, evictVars, gcVars, requests>>

LaunchReapers ==
    /\ StartStep("launch", "s3fifo")
    /\ reapers' = [r \in Reapers |-> "ticking"]
    /\ UNCHANGED <<mainVars, errCh, closing, cancel, evictVars, gcVars, requests>>

StartEviction ==
    /\ StartStep("s3fifo", "gc")
    /\ evictor' = "waiting"
    /\ UNCHANGED <<mainVars, errCh, closing, reaperVars, evictCh, evictStop, gcVars, requests>>

StartGC ==
    /\ StartStep("gc", "listen")
    /\ gc' = "ticking"  \* or in its startup delay, which differs only in its length
    /\ UNCHANGED <<mainVars, errCh, closing, reaperVars, evictVars, gcStop, requests>>

\* ListenAndServe; once Shutdown has begun it returns at once.
Listen ==
    /\ ~closing /\ StartStep("listen", "serving")
    /\ UNCHANGED <<mainVars, errCh, closing, reaperVars, evictVars, gcVars, requests>>

\* The address cannot be bound, accepting fails, or Shutdown has closed it.
ListenEnds ==
    /\ StartStep("listen", "stop") \/ StartStep("serving", "stop")
    /\ UNCHANGED <<mainVars, errCh, closing, reaperVars, evictVars, gcVars, requests>>

\* Start stops the reapers itself before it returns,
CancelReapers ==
    /\ StartStep("stop", "wait")
    /\ cancel' = "called"
    /\ UNCHANGED <<mainVars, errCh, closing, reapers, evictVars, gcVars, requests>>

StartReturns_NoWait ==
    /\ StartStep("wait", "returned")
    /\ errCh' = TRUE
    /\ UNCHANGED <<mainVars, closing, reaperVars, evictVars, gcVars, requests>>

\* and its error, never nil, goes into a channel that has room for it.
StartReturns ==
    /\ ReapersEnded
    /\ StartStep("wait", "returned")
    /\ errCh' = TRUE
    /\ UNCHANGED <<mainVars, closing, reaperVars, evictVars, gcVars, requests>>
-----------------------------------------------------------------------------
(* Run and Server.Shutdown.                                                *)

MainStep(from, to) == main = from /\ main' = to

Signal ==
    /\ Alive /\ ~signalled /\ signalled' = TRUE
    /\ orderly' = (starting \in {"listen", "serving"})
    /\ UNCHANGED <<starting, main, late, errCh, closing, reaperVars, evictVars, gcVars, requests>>

\* The ten seconds run from the start of the shutdown.
GraceEnds ==
    /\ main \notin {"waiting", "failed", "metrics", "exited"} /\ ~late
    /\ late' = TRUE
    /\ UNCHANGED <<starting, main, signalled, orderly, errCh, closing, reaperVars, evictVars,
                   gcVars, requests>>

ShutdownBegins ==
    /\ signalled /\ MainStep("waiting", "reapers")
    /\ UNCHANGED <<starting, signalled, late, orderly, errCh, closing, reaperVars, evictVars,
                   gcVars, requests>>

\* Start has failed, or the listener has: Run returns without a shutdown.
ServerFailed ==
    /\ errCh /\ MainStep("waiting", "failed")
    /\ UNCHANGED <<starting, signalled, late, orderly, errCh, closing, reaperVars, evictVars,
                   gcVars, requests>>

\* metadataReapers.Stop returns if Start has not set cancel yet.
StopReapers ==
    /\ \/ cancel = "unset" /\ MainStep("reapers", "s3fifo") /\ UNCHANGED cancel
       \/ cancel # "unset" /\ MainStep("reapers", "waitReapers") /\ cancel' = "called"
    /\ UNCHANGED <<starting, signalled, late, orderly, errCh, closing, reapers, evictVars,
                   gcVars, requests>>

ReapersStopped ==
    /\ ReapersEnded /\ MainStep("waitReapers", "s3fifo")
    /\ UNCHANGED <<starting, signalled, late, orderly, errCh, closing, reaperVars, evictVars,
                   gcVars, requests>>

StopEviction ==
    /\ MainStep("s3fifo", "waitS3fifo")
    /\ evictStop' = TRUE
    /\ UNCHANGED <<starting, signalled, late, orderly, errCh, closing, reaperVars, evictCh,
                   evictor, gcVars, requests>>

\* The wait has no timeout, and outlasts a launch that is still to come.
EvictionStopped ==
    /\ evictor = "ended" /\ MainStep("waitS3fifo", "gc")
    /\ UNCHANGED <<starting, signalled, late, orderly, errCh, closing, reaperVars, evictVars,
                   gcVars, requests>>

\* gc.Manager.Stop returns if the manager is not running.
StopGC ==
    /\ \/ gc = "off" /\ MainStep("gc", "http") /\ UNCHANGED gcStop
       \/ gc # "off" /\ MainStep("gc", "waitGC") /\ gcStop' = TRUE
    /\ UNCHANGED <<starting, signalled, late, orderly, errCh, closing, reaperVars, evictVars,
                   gc, requests>>

GCStopped ==
    /\ gc = "ended" \/ late
    /\ MainStep("waitGC", "http")
    /\ UNCHANGED <<starting, signalled, late, orderly, errCh, closing, reaperVars, evictVars,
                   gcVars, requests>>

StopListening ==
    /\ MainStep("http", "drain")
    /\ closing' = TRUE
    /\ UNCHANGED <<starting, signalled, late, orderly, errCh, reaperVars, evictVars, gcVars,
                   requests>>

Drained_NotAwaited ==
    /\ MainStep("drain", "metrics")
    /\ UNCHANGED <<starting, signalled, late, orderly, errCh, closing, reaperVars, evictVars,
                   gcVars, requests>>

\* http.Server.Shutdown waits for the requests, until its context ends.
Drained ==
    /\ late \/ \A r \in Requests : requests[r] \notin {"active", "collecting"}
    /\ MainStep("drain", "metrics")
    /\ UNCHANGED <<starting, signalled, late, orderly, errCh, closing, reaperVars, evictVars,
                   gcVars, requests>>

\* The metrics are flushed, for five seconds at most; neither the handlers nor
\* the database is closed.
Exit ==
    /\ MainStep("metrics", "exited") \/ MainStep("failed", "exited")
    /\ UNCHANGED <<starting, signalled, late, orderly, errCh, closing, reaperVars, evictVars,
                   gcVars, requests>>
-----------------------------------------------------------------------------
(* The background tasks.  Each loop selects between its work and its end.  *)

ReaperStep(r, from, to) ==
    /\ Alive /\ reapers[r] = from
    /\ reapers' = [reapers EXCEPT ![r] = to]
    /\ UNCHANGED <<starting, mainVars, errCh, closing, cancel, evictVars, gcVars, requests>>

ReapCycle(r) == ReaperStep(r, "ticking", "reaping")
\* Between two batches of a cycle the context is looked at.
CycleEnds(r) == ReaperStep(r, "reaping", "ticking")
ReaperEnds(r) == cancel = "called" /\ ReaperStep(r, "ticking", "ended")

EvictorStep(from, to) ==
    /\ Alive /\ evictor = from /\ evictor' = to
    /\ UNCHANGED <<starting, mainVars, errCh, closing, reaperVars, evictStop, gcVars, requests>>

\* evictCh, or the ticker.
Evict == EvictorStep("waiting", "deciding") /\ evictCh' \in {FALSE, evictCh}
\* A decision that leaves the cache over its limit asks for the next one.
Decided == EvictorStep("deciding", "waiting") /\ evictCh' \in {TRUE, evictCh}

EvictorEnds_WhenIdle ==
    evictStop /\ ~evictCh /\ EvictorStep("waiting", "ended") /\ UNCHANGED evictCh

EvictorEnds == evictStop /\ EvictorStep("waiting", "ended") /\ UNCHANGED evictCh

GCPass(from, to) ==
    /\ Alive /\ gc = from /\ gc' = to
    /\ UNCHANGED <<starting, mainVars, errCh, closing, reaperVars, evictVars, gcStop, requests>>

CollectorRuns == GCPass("ticking", "collecting")
\* A pass does not look at stopCh.
CollectorDone == GCPass("collecting", "ticking")
CollectorEnds == gcStop /\ GCPass("ticking", "ended")
-----------------------------------------------------------------------------
(* Requests.                                                               *)

RequestStep(r, from, to) ==
    /\ Alive /\ requests[r] = from
    /\ requests' = [requests EXCEPT ![r] = to]
    /\ UNCHANGED <<starting, mainVars, errCh, closing, reaperVars, evictor, evictStop, gcVars>>

Accept(r) ==
    /\ starting = "serving" /\ ~closing
    /\ RequestStep(r, "new", "active") /\ UNCHANGED evictCh

\* POST /admin/gc: RunNow, in the request, beside a pass of the loop.
Trigger(r) ==
    \/ RequestStep(r, "active", "collecting") /\ UNCHANGED evictCh
    \/ RequestStep(r, "collecting", "active") /\ UNCHANGED evictCh

\* The answer; a metadata handler may leave a write to a goroutine.
Answer(r) ==
    \/ RequestStep(r, "active", "done") /\ UNCHANGED evictCh
    \/ RequestStep(r, "active", "storing") /\ UNCHANGED evictCh

\* What is stored is admitted, which never waits: the channel has room for one.
Store(r) ==
    \/ RequestStep(r, "storing", "done") /\ evictCh' \in {TRUE, evictCh}
    \/ RequestStep(r, "active", "active") /\ evictCh' = TRUE
-----------------------------------------------------------------------------
StartNext ==
    \/ SetCancel \/ LaunchReapers \/ StartEviction \/ StartGC
    \/ Listen \/ CancelReapers \/ StartReturns

MainNext ==
    \/ ShutdownBegins \/ ServerFailed \/ StopReapers \/ ReapersStopped
    \/ StopEviction \/ EvictionStopped \/ StopGC \/ GCStopped
    \/ StopListening \/ Drained \/ Exit

TaskNext ==
    \/ \E r \in Reapers : ReapCycle(r) \/ CycleEnds(r) \/ ReaperEnds(r)
    \/ Evict \/ Decided \/ EvictorEnds
    \/ CollectorRuns \/ CollectorDone \/ CollectorEnds

RequestNext == \E r \in Requests : Accept(r) \/ Trigger(r) \/ Answer(r) \/ Store(r)

\* The process is gone.
Exited == main = "exited" /\ UNCHANGED vars

Next ==
    \/ StartNext \/ ListenEnds \/ MainNext \/ Signal \/ GraceEnds
    \/ TaskNext \/ RequestNext \/ Exited

Spec == Init /\ [][Next]_vars

\* Goroutines run, the timer fires, a listener that has been closed returns, a
\* batch and an eviction decision end, and a select that is offered the end of
\* its task again and again takes it.  A collector's pass and a request may
\* take for ever.
FairSpec ==
    /\ Spec
    /\ WF_vars(StartNext) /\ WF_vars(MainNext) /\ WF_vars(GraceEnds)
    /\ WF_vars(closing /\ ListenEnds)
    /\ \A r \in Reapers : WF_vars(CycleEnds(r)) /\ SF_vars(ReaperEnds(r))
    /\ WF_vars(Decided) /\ SF_vars(EvictorEnds)
-----------------------------------------------------------------------------
(* Properties.                                                             *)

\* Type invariant, and what the tasks owe to Start: a task exists once it has
\* been launched; and however Start ends, and whichever of Start and Shutdown
\* stops the reapers first, no reaper outlives it (http.go:1128-1142,
\* reapers.go:51-57).
TasksFollowStart ==
    /\ starting \in {"reapers", "launch", "s3fifo", "gc", "listen", "serving", "stop", "wait",
                     "returned"}
    /\ main \in {"waiting", "reapers", "waitReapers", "s3fifo", "waitS3fifo", "gc", "waitGC",
                 "http", "drain", "metrics", "failed", "exited"}
    /\ {signalled, late, errCh, closing, orderly, evictCh, evictStop, gcStop} \subseteq BOOLEAN
    /\ cancel \in {"unset", "set", "called"}
    /\ reapers \in [Reapers -> {"off", "ticking", "reaping", "ended"}]
    /\ evictor \in {"off", "waiting", "deciding", "ended"}
    /\ gc \in {"off", "ticking", "collecting", "ended"}
    /\ evictor = "off" <=> starting \in {"reapers", "launch", "s3fifo"}
    /\ gc = "off" <=> starting \in {"reapers", "launch", "s3fifo", "gc"}
    /\ starting = "returned" => ReapersEnded
    /\ requests \in [Requests -> {"new", "active", "collecting", "storing", "done"}]

\* A signal that finds the server up, and whose grace period suffices, leaves
\* nothing half done: no reaper, eviction or collection is in a pass, and every
\* request has been answered (http.go:1145-1167).
GracefulExit ==
    orderly /\ ~late /\ main = "metrics"
    => /\ ReapersEnded /\ evictor = "ended" /\ gc = "ended"
       /\ \A r \in Requests : requests[r] \notin {"active", "collecting"}

\* The process ends after a signal or a failure of its listener, even if a
\* collection hangs, requests never end and eviction never comes to rest.
ShutdownEnds == signalled \/ errCh ~> main = "exited"

\* AGENT.md:74 says of a handler's context that it is "cancelled when the
\* server shuts down": no background write is cut off by the exit.
WritesAreCancelled ==
    main = "exited" /\ ~late => \A r \in Requests : requests[r] # "storing"
=============================================================================
