-------------------------- MODULE LifecycleProofs --------------------------
(***************************************************************************)
(* Proofs about Lifecycle for any set of requests: no task outlives what   *)
(* it belongs to.  Two invariants carry them: what Start has launched      *)
(* follows from where it stands, and what Shutdown has stopped from where  *)
(* main stands, provided that the signal found everything launched.        *)
(***************************************************************************)
EXTENDS Lifecycle, TLAPS

\* Where Start stands tells which tasks there are.
StartOrder ==
    /\ starting = "reapers" <=> cancel = "unset"
    /\ \A r \in Reapers : starting \in {"reapers", "launch"} <=> reapers[r] = "off"

StartInv == TasksFollowStart /\ StartOrder

\* main's stages after the stop of each task, in their order.
AfterGC == {"http", "drain", "metrics"}
AfterEviction == {"gc", "waitGC"} \cup AfterGC
AfterReapers == {"s3fifo", "waitS3fifo"} \cup AfterEviction
InShutdown == {"reapers", "waitReapers"} \cup AfterReapers

MainOrder ==
    /\ main \in InShutdown => signalled
    /\ main \in {"drain", "metrics"} => closing

\* Where main stands tells which tasks have ended.
StoppedInOrder ==
    orderly =>
      /\ starting \in {"listen", "serving", "stop", "wait", "returned"}
      /\ main \in AfterReapers => ReapersEnded
      /\ main \in AfterEviction => evictor = "ended"
      /\ main \in AfterGC => late \/ gc = "ended"

ExitInv == MainOrder /\ StoppedInOrder /\ GracefulExit

-----------------------------------------------------------------------------
(* Nothing has been launched at first.                                     *)
LEMMA StartInvInit == Init => StartInv
  BY DEF Init, StartInv, TasksFollowStart, StartOrder, ReapersEnded, Reapers

(* Only Start launches, and it waits for the reapers before it returns.    *)
LEMMA StartInvStep == StartInv /\ [Next]_vars => StartInv'
  <1> SUFFICES ASSUME StartInv, [Next]_vars PROVE StartInv'
    OBVIOUS
  <1> USE DEF StartInv, TasksFollowStart, StartOrder, ReapersEnded, Reapers, Alive,
              mainVars, reaperVars, evictVars, gcVars
  <1>1. CASE StartNext
    <2>1. CASE SetCancel
      BY <2>1 DEF SetCancel, StartStep
    <2>2. CASE LaunchReapers
      BY <2>2 DEF LaunchReapers, StartStep
    <2>3. CASE StartEviction
      BY <2>3 DEF StartEviction, StartStep
    <2>4. CASE StartGC
      BY <2>4 DEF StartGC, StartStep
    <2>5. CASE Listen
      BY <2>5 DEF Listen, StartStep
    <2>6. CASE CancelReapers
      BY <2>6 DEF CancelReapers, StartStep
    <2>7. CASE StartReturns
      BY <2>7 DEF StartReturns, StartStep
    <2> QED
      BY <1>1, <2>1, <2>2, <2>3, <2>4, <2>5, <2>6, <2>7 DEF StartNext
  <1>2. CASE ListenEnds
    BY <1>2 DEF ListenEnds, StartStep
  <1>3. CASE MainNext
    <2>1. CASE ShutdownBegins
      BY <2>1 DEF ShutdownBegins, MainStep
    <2>2. CASE ServerFailed
      BY <2>2 DEF ServerFailed, MainStep
    <2>3. CASE StopReapers
      BY <2>3 DEF StopReapers, MainStep
    <2>4. CASE ReapersStopped
      BY <2>4 DEF ReapersStopped, MainStep
    <2>5. CASE StopEviction
      BY <2>5 DEF StopEviction, MainStep
    <2>6. CASE EvictionStopped
      BY <2>6 DEF EvictionStopped, MainStep
    <2>7. CASE StopGC
      BY <2>7 DEF StopGC, MainStep
    <2>8. CASE GCStopped
      BY <2>8 DEF GCStopped, MainStep
    <2>9. CASE StopListening
      BY <2>9 DEF StopListening, MainStep
    <2>10. CASE Drained
      BY <2>10 DEF Drained, MainStep
    <2>11. CASE Exit
      BY <2>11 DEF Exit, MainStep
    <2> QED
      BY <1>3, <2>1, <2>2, <2>3, <2>4, <2>5, <2>6, <2>7, <2>8, <2>9, <2>10, <2>11 DEF MainNext
  <1>4. CASE Signal
    BY <1>4 DEF Signal
  <1>5. CASE GraceEnds
    BY <1>5 DEF GraceEnds
  <1>6. CASE TaskNext
    <2>1. ASSUME NEW r \in Reapers, ReapCycle(r) PROVE StartInv'
      BY <2>1 DEF ReapCycle, ReaperStep
    <2>2. ASSUME NEW r \in Reapers, CycleEnds(r) PROVE StartInv'
      BY <2>2 DEF CycleEnds, ReaperStep
    <2>3. ASSUME NEW r \in Reapers, ReaperEnds(r) PROVE StartInv'
      BY <2>3 DEF ReaperEnds, ReaperStep
    <2>4. CASE Evict
      BY <2>4 DEF Evict, EvictorStep
    <2>5. CASE Decided
      BY <2>5 DEF Decided, EvictorStep
    <2>6. CASE EvictorEnds
      BY <2>6 DEF EvictorEnds, EvictorStep
    <2>7. CASE CollectorRuns
      BY <2>7 DEF CollectorRuns, GCPass
    <2>8. CASE CollectorDone
      BY <2>8 DEF CollectorDone, GCPass
    <2>9. CASE CollectorEnds
      BY <2>9 DEF CollectorEnds, GCPass
    <2> QED
      BY <1>6, <2>1, <2>2, <2>3, <2>4, <2>5, <2>6, <2>7, <2>8, <2>9 DEF TaskNext
  <1>7. CASE RequestNext
    <2>1. ASSUME NEW r \in Requests, Accept(r) PROVE StartInv'
      BY <2>1 DEF Accept, RequestStep
    <2>2. ASSUME NEW r \in Requests, Trigger(r) PROVE StartInv'
      BY <2>2 DEF Trigger, RequestStep
    <2>3. ASSUME NEW r \in Requests, Answer(r) PROVE StartInv'
      BY <2>3 DEF Answer, RequestStep
    <2>4. ASSUME NEW r \in Requests, Store(r) PROVE StartInv'
      <3>1. CASE RequestStep(r, "storing", "done") /\ evictCh' = evictCh
        BY <3>1 DEF RequestStep
      <3>2. CASE RequestStep(r, "storing", "done") /\ evictCh' = TRUE
        BY <3>2 DEF RequestStep
      <3>3. CASE RequestStep(r, "active", "active") /\ evictCh' = TRUE
        BY <3>3 DEF RequestStep
      <3> HIDE DEF StartInv
      <3> QED
        BY <2>4, <3>1, <3>2, <3>3 DEF Store
    <2> QED
      BY <1>7, <2>1, <2>2, <2>3, <2>4 DEF RequestNext
  <1>8. CASE Exited
    BY <1>8 DEF Exited, vars
  <1>9. CASE UNCHANGED vars
    BY <1>9 DEF vars
  <1> HIDE DEF StartInv
  <1> QED
    BY <1>1, <1>2, <1>3, <1>4, <1>5, <1>6, <1>7, <1>8, <1>9 DEF Next

(* Nothing has been stopped at first.                                      *)
LEMMA ExitInvInit == Init => ExitInv
  BY DEF Init, ExitInv, MainOrder, StoppedInOrder, GracefulExit,
         InShutdown, AfterReapers, AfterEviction, AfterGC

(* main goes on to the next task when one has ended, which stays ended, as *)
(* nothing is launched any more.                                           *)
LEMMA ExitInvStep == StartInv /\ ExitInv /\ [Next]_vars => ExitInv'
  <1> SUFFICES ASSUME StartInv, ExitInv, [Next]_vars PROVE ExitInv'
    OBVIOUS
  <1> USE DEF StartInv, StartOrder, TasksFollowStart, ExitInv, MainOrder, StoppedInOrder,
              GracefulExit, InShutdown, AfterReapers, AfterEviction, AfterGC, ReapersEnded,
              Reapers, Alive, mainVars, reaperVars, evictVars, gcVars
  <1>1. CASE StartNext
    <2>1. CASE SetCancel
      BY <2>1 DEF SetCancel, StartStep
    <2>2. CASE LaunchReapers
      BY <2>2 DEF LaunchReapers, StartStep
    <2>3. CASE StartEviction
      BY <2>3 DEF StartEviction, StartStep
    <2>4. CASE StartGC
      BY <2>4 DEF StartGC, StartStep
    <2>5. CASE Listen
      BY <2>5 DEF Listen, StartStep
    <2>6. CASE CancelReapers
      BY <2>6 DEF CancelReapers, StartStep
    <2>7. CASE StartReturns
      BY <2>7 DEF StartReturns, StartStep
    <2> QED
      BY <1>1, <2>1, <2>2, <2>3, <2>4, <2>5, <2>6, <2>7 DEF StartNext
  <1>2. CASE ListenEnds
    BY <1>2 DEF ListenEnds, StartStep
  <1>3. CASE MainNext
    <2>1. CASE ShutdownBegins
      BY <2>1 DEF ShutdownBegins, MainStep
    <2>2. CASE ServerFailed
      BY <2>2 DEF ServerFailed, MainStep
    <2>3. CASE StopReapers
      BY <2>3 DEF StopReapers, MainStep
    <2>4. CASE ReapersStopped
      BY <2>4 DEF ReapersStopped, MainStep
    <2>5. CASE StopEviction
      BY <2>5 DEF StopEviction, MainStep
    <2>6. CASE EvictionStopped
      BY <2>6 DEF EvictionStopped, MainStep
    <2>7. CASE StopGC
      BY <2>7 DEF StopGC, MainStep
    <2>8. CASE GCStopped
      BY <2>8 DEF GCStopped, MainStep
    <2>9. CASE StopListening
      BY <2>9 DEF StopListening, MainStep
    <2>10. CASE Drained
      BY <2>10 DEF Drained, MainStep
    <2>11. CASE Exit
      BY <2>11 DEF Exit, MainStep
    <2> QED
      BY <1>3, <2>1, <2>2, <2>3, <2>4, <2>5, <2>6, <2>7, <2>8, <2>9, <2>10, <2>11 DEF MainNext
  <1>4. CASE Signal
    BY <1>4 DEF Signal
  <1>5. CASE GraceEnds
    BY <1>5 DEF GraceEnds
  <1>6. CASE TaskNext
    <2>1. ASSUME NEW r \in Reapers, ReapCycle(r) PROVE ExitInv'
      BY <2>1 DEF ReapCycle, ReaperStep
    <2>2. ASSUME NEW r \in Reapers, CycleEnds(r) PROVE ExitInv'
      BY <2>2 DEF CycleEnds, ReaperStep
    <2>3. ASSUME NEW r \in Reapers, ReaperEnds(r) PROVE ExitInv'
      BY <2>3 DEF ReaperEnds, ReaperStep
    <2>4. CASE Evict
      BY <2>4 DEF Evict, EvictorStep
    <2>5. CASE Decided
      BY <2>5 DEF Decided, EvictorStep
    <2>6. CASE EvictorEnds
      BY <2>6 DEF EvictorEnds, EvictorStep
    <2>7. CASE CollectorRuns
      BY <2>7 DEF CollectorRuns, GCPass
    <2>8. CASE CollectorDone
      BY <2>8 DEF CollectorDone, GCPass
    <2>9. CASE CollectorEnds
      BY <2>9 DEF CollectorEnds, GCPass
    <2> QED
      BY <1>6, <2>1, <2>2, <2>3, <2>4, <2>5, <2>6, <2>7, <2>8, <2>9 DEF TaskNext
  <1>7. CASE RequestNext
    <2>1. ASSUME NEW r \in Requests, Accept(r) PROVE ExitInv'
      BY <2>1 DEF Accept, RequestStep
    <2>2. ASSUME NEW r \in Requests, Trigger(r) PROVE ExitInv'
      BY <2>2 DEF Trigger, RequestStep
    <2>3. ASSUME NEW r \in Requests, Answer(r) PROVE ExitInv'
      BY <2>3 DEF Answer, RequestStep
    <2>4. ASSUME NEW r \in Requests, Store(r) PROVE ExitInv'
      <3>1. CASE RequestStep(r, "storing", "done") /\ evictCh' = evictCh
        BY <3>1 DEF RequestStep
      <3>2. CASE RequestStep(r, "storing", "done") /\ evictCh' = TRUE
        BY <3>2 DEF RequestStep
      <3>3. CASE RequestStep(r, "active", "active") /\ evictCh' = TRUE
        BY <3>3 DEF RequestStep
      <3> HIDE DEF ExitInv
      <3> QED
        BY <2>4, <3>1, <3>2, <3>3 DEF Store
    <2> QED
      BY <1>7, <2>1, <2>2, <2>3, <2>4 DEF RequestNext
  <1>8. CASE Exited
    BY <1>8 DEF Exited, vars
  <1>9. CASE UNCHANGED vars
    BY <1>9 DEF vars
  <1> HIDE DEF ExitInv
  <1> QED
    BY <1>1, <1>2, <1>3, <1>4, <1>5, <1>6, <1>7, <1>8, <1>9 DEF Next

-----------------------------------------------------------------------------
(* Each task exists when Start has launched it, and no reaper outlives     *)
(* Start, whoever stops it (http.go:1128-1142, reapers.go:51-57).          *)
THEOREM TasksFollow == Spec => []TasksFollowStart
  <1>1. Spec => []StartInv
    BY StartInvInit, StartInvStep, PTL DEF Spec
  <1>2. StartInv => TasksFollowStart
    BY DEF StartInv
  <1> QED
    BY <1>1, <1>2, PTL

(* If the signal finds the server up and the grace period suffices, all    *)
(* tasks have ended and all requests are answered (http.go:1145-1167).     *)
THEOREM ExitsGracefully == Spec => []GracefulExit
  <1>1. Spec => [](StartInv /\ ExitInv)
    BY StartInvInit, StartInvStep, ExitInvInit, ExitInvStep, PTL DEF Spec
  <1>2. ExitInv => GracefulExit
    BY DEF ExitInv
  <1> QED
    BY <1>1, <1>2, PTL
=============================================================================
