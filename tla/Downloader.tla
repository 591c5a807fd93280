----------------------------- MODULE Downloader -----------------------------
(***************************************************************************)
(* Coalescing of concurrent downloads (package download): a caller joins   *)
(* or starts the download of a resource, waits for it or for the end of    *)
(* its request, and forgets the download if it failed.                     *)
(*                                                                         *)
(* The group is golang.org/x/sync/singleflight: DoChan, the completion of  *)
(* a call and Forget each run under its mutex.                             *)
(***************************************************************************)
EXTENDS Naturals

CONSTANTS Resources, \* the keys of downloads
          Callers,   \* requests that may run at the same time
          Contents,  \* what a download may fetch
          MaxCalls,  \* bound on downloads
          MaxErrors  \* bound on downloads that fail, other than by a timeout

ASSUME DownloaderAssumption ==
    /\ MaxCalls \in Nat /\ MaxErrors \in Nat
    /\ Contents \cap {"none", "notfound", "error", "timeout"} = {}

VARIABLES
    group,   \* Downloader.group: resource -> its registered call, 0 for none
    calls,   \* call -> its download, once started
    started, \* downloads so far
    callers, \* caller -> where its request stands
    errors   \* failures so far

groupVars == <<group, calls, started, callers, errors>>

CallIds == 1..MaxCalls

\* A result, a resource not found, an error, or a download out of time.
Failures == {"notfound", "error"}
Outcomes == Contents \cup Failures \cup {"timeout"}

\* A download runs, has an outcome that its waiters have yet to learn, or
\* is over.
Call == [pc : {"starting", "fetching", "storing", "indexing", "fetched"},
         key : Resources, outcome : Outcomes \cup {"none"}]
NoCall == [pc |-> "none"]

At(c, pc) == callers[c].pc = pc
Running(i) == calls[i] # NoCall
Waiters(i) == {c \in Callers : At(c, "waiting") /\ callers[c].call = i}

GroupInit ==
    /\ group = [k \in Resources |-> 0]
    /\ calls = [i \in CallIds |-> NoCall]
    /\ started = 0
    /\ errors = 0
-----------------------------------------------------------------------------
(* A caller.                                                               *)

WaitFor(c, i, leads) ==
    callers' = [callers EXCEPT ![c].pc = "waiting", ![c].call = i, ![c].leads = leads]

\* Downloader.Do, DoChan: join the registered call ...
Join(c) ==
    /\ At(c, "missed") /\ group[callers[c].key] # 0
    /\ WaitFor(c, group[callers[c].key], FALSE)
    /\ UNCHANGED <<group, calls, started, errors>>

\* ... or start one, in a goroutine that runs later.
Start(c) ==
    LET k == callers[c].key IN
    /\ At(c, "missed") /\ group[k] = 0 /\ started < MaxCalls
    /\ started' = started + 1
    /\ group' = [group EXCEPT ![k] = started']
    /\ calls' = [calls EXCEPT ![started'] =
         [pc |-> "starting", key |-> k, outcome |-> "none"]]
    /\ WaitFor(c, started', TRUE)
    /\ UNCHANGED errors

\* The request ends early: its client has gone, or its time is up.
Cancel(c) ==
    /\ At(c, "waiting") /\ ~callers[c].cancelled
    /\ callers' = [callers EXCEPT ![c].cancelled = TRUE]
    /\ UNCHANGED <<group, calls, started, errors>>

\* Do's select: the result, if there is one ...
Receive(c) ==
    /\ At(c, "waiting") /\ callers[c].outcome # "none"
    /\ callers' = [callers EXCEPT ![c].pc = "settling"]
    /\ UNCHANGED <<group, calls, started, errors>>

GiveUp_AfterResult(c) ==
    /\ At(c, "waiting") /\ callers[c].cancelled /\ callers[c].outcome # "none"
    /\ callers' = [callers EXCEPT ![c].pc = "settling", ![c].outcome = "timeout"]
    /\ UNCHANGED <<group, calls, started, errors>>

\* ... or the request's end, whichever select picks if both are ready.
GiveUp(c) ==
    /\ At(c, "waiting") /\ callers[c].cancelled
    /\ callers' = [callers EXCEPT ![c].pc = "settling", ![c].outcome = "timeout"]
    /\ UNCHANGED <<group, calls, started, errors>>

\* Forget: the next caller starts a download of its own.
Forget(k) == group' = [group EXCEPT ![k] = 0]

ForgetOnDownloadError_Any(k, outcome) ==
    IF outcome \notin Contents THEN Forget(k) ELSE UNCHANGED group

\* A failure is forgotten, also a resource not found; a timeout is not.
ForgetOnDownloadError(k, outcome) ==
    IF outcome \in Failures THEN Forget(k) ELSE UNCHANGED group
-----------------------------------------------------------------------------
(* A download.  Its context is detached from every request.                *)

SetCall(i, pc, outcome) ==
    calls' = [calls EXCEPT ![i].pc = pc, ![i].outcome = outcome]

CountError(outcome) ==
    IF outcome \in Failures THEN errors < MaxErrors /\ errors' = errors + 1
                            ELSE UNCHANGED errors

Complete_StaysRegistered(i) ==
    LET outcome == calls[i].outcome IN
    /\ calls[i].pc = "fetched"
    /\ callers' = [c \in Callers |-> IF c \in Waiters(i)
         THEN [callers[c] EXCEPT !.outcome = outcome] ELSE callers[c]]
    /\ calls' = [calls EXCEPT ![i] = NoCall]
    /\ UNCHANGED <<group, started, errors>>

\* The call leaves the group, if it is still in it, and every caller that
\* joined it gets its result.
Complete(i) ==
    LET k == calls[i].key
        outcome == calls[i].outcome IN
    /\ calls[i].pc = "fetched"
    /\ group' = [group EXCEPT ![k] = IF @ = i THEN 0 ELSE @]
    /\ callers' = [c \in Callers |-> IF c \in Waiters(i)
         THEN [callers[c] EXCEPT !.outcome = outcome] ELSE callers[c]]
    /\ calls' = [calls EXCEPT ![i] = NoCall]
    /\ UNCHANGED <<started, errors>>
-----------------------------------------------------------------------------
(* Properties.                                                             *)

\* A caller that waits will hear of a result: it has one already, or its
\* call is under way.  A request that joined a call that is over, by way of
\* a group entry left behind, would wait for ever (downloader.go:54-88).
WaitersWillHear ==
    /\ \A c \in Callers : At(c, "waiting") /\ callers[c].outcome = "none"
                            => Running(callers[c].call)
    /\ \A k \in Resources : group[k] # 0 => Running(group[k]) /\ calls[group[k]].key = k

\* At most one download of a resource is under way (downloader.go:1-3,
\* README.md:15).
OneFetchPerResource ==
    \A i, j \in CallIds :
        i # j /\ Running(i) /\ Running(j) => calls[i].key # calls[j].key

\* It holds until a download fails, whichever callers and downloads have
\* timed out: the context errors are not to be forgotten (serve.go:119).
OneFetchUntilFailure == errors = 0 => OneFetchPerResource

\* A request that is cancelled while it waits is answered, though the
\* upstream never is (downloader.go:52-53).
CancelledCallerReturns ==
    \A c \in Callers : At(c, "waiting") /\ callers[c].cancelled ~> At(c, "idle")
=============================================================================
