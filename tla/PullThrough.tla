----------------------------- MODULE PullThrough ----------------------------
(***************************************************************************)
(* Serving an immutable artifact from the cache or, on a miss, from its    *)
(* upstream: a zip (goproxy), a tarball (npm), a file (pypi), an artifact  *)
(* (maven), a gem or a gemspec (rubygems), a blob (oci), a pack (git), a   *)
(* resource (fetch).  The handlers of the protocols follow one scheme and  *)
(* differ in a few decisions; each handler is a record of its decisions,   *)
(* and the actions, which one protocol chosen at the start instantiates,   *)
(* are the scheme.                                                         *)
(*                                                                         *)
(* A handler with a downloader coalesces misses (module Downloader); one   *)
(* without streams to its client and caches in the background.  The index  *)
(* and the blob store are modules MetaDB and CacheStore; here they may     *)
(* lose what nothing pins.                                                 *)
(***************************************************************************)
EXTENDS Downloader

CONSTANTS Protocols, \* the handlers that an instance checks
          MaxLosses  \* bound on entries and blobs lost, and on unread entries

\* Of the contents, all but "good" differ from the published digest.
ASSUME PullThroughAssumption ==
    /\ MaxLosses \in Nat /\ "good" \in Contents
    /\ Contents \cap {"internal", "empty", "other"} = {}

VARIABLES
    protocol,  \* the handler under check
    coalesced, \* whether it has a downloader
    listed,    \* whether digests, where the handler looks for one, are found
    index,     \* resource -> content that its entry names, or "none"
    blobs,     \* the contents in the store
    closed,    \* downloads whose request body is closed
    tasks,     \* caller -> what it fetches by itself, and caches afterwards
    losses

rigid == <<protocol, coalesced, listed>>
stored == <<index, blobs, losses>>
vars == <<groupVars, rigid, stored, closed, tasks>>
-----------------------------------------------------------------------------
(* Upstreams: the responses that carry the artifact, and those that say    *)
(* there is none.  Any other is an error.                                  *)

Statuses == {"200", "2xx", "404", "410", "other"}

GoproxyFetch == [carry |-> {"200"}, absent |-> {"404", "410"}]
NpmFetchTarball == [carry |-> {"200"}, absent |-> {"404"}]
PypiFetchFile == [carry |-> {"200"}, absent |-> {"404"}]
MavenFetchArtifact == [carry |-> {"200"}, absent |-> {"404"}]
FetchGem == [carry |-> {"200"}, absent |-> {"404"}]
FetchGemspec == [carry |-> {"200"}, absent |-> {"404"}]
OciFetchBlob == [carry |-> {"200"}, absent |-> {"404"}]
FetchUploadPack == [carry |-> {"200"}, absent |-> {"404"}]
DoRequest == [carry |-> {"200", "2xx"}, absent |-> {"404"}]

(* Cached requests.  An entry whose blob is gone is kept, to be replaced,  *)
(* or dropped; a pack is authorised before it is opened again.  The digest *)
(* of the artifact is in its key, in the index, upstream, or nowhere.      *)

HandleZip == [stale |-> "kept", authorises |-> FALSE, digest |-> "none"]
HandleTarball == [stale |-> "kept", authorises |-> FALSE, digest |-> "upstream"]
HandleFile == [stale |-> "kept", authorises |-> FALSE, digest |-> "index"]
HandleArtifact == [stale |-> "kept", authorises |-> FALSE, digest |-> "upstream"]
HandleGem == [stale |-> "kept", authorises |-> FALSE, digest |-> "index"]
HandleGemspec == [stale |-> "kept", authorises |-> FALSE, digest |-> "none"]
HandleGetBlob == [stale |-> "kept", authorises |-> FALSE, digest |-> "key"]
HandleUploadPack == [stale |-> "dropped", authorises |-> TRUE, digest |-> "none"]
ServeCached == [stale |-> "dropped", authorises |-> FALSE, digest |-> "none"]

(* Downloads.  Content is verified against the digest, if it has one, then *)
(* stored and indexed; what fails is the download, or only the caching.    *)

FetchAndStoreZip == [verifies |-> FALSE, put |-> "fails", index |-> "logged"]
FetchAndStoreTarball == [verifies |-> TRUE, put |-> "fails", index |-> "logged"]
FetchAndStoreFile == [verifies |-> TRUE, put |-> "fails", index |-> "logged"]
FetchAndStoreArtifact == [verifies |-> TRUE, put |-> "fails", index |-> "logged"]
FetchAndStoreGem_Unverified == [verifies |-> FALSE, put |-> "fails", index |-> "logged"]
FetchAndStoreGem == [verifies |-> TRUE, put |-> "fails", index |-> "logged"]
FetchAndStoreBlob == [verifies |-> TRUE, put |-> "logged", index |-> "logged"]
FetchAndStorePack == [verifies |-> FALSE, put |-> "fails", index |-> "logged"]
CacheResponse_IndexLogged == [verifies |-> FALSE, put |-> "fails", index |-> "logged"]
CacheResponse == [verifies |-> FALSE, put |-> "fails", index |-> "fails"]

(* Streams.  The client gets content as it comes, or once it is verified;  *)
(* the spooled file is kept for the background, removed, or there is none. *)

HandleZipDirect == [streams |-> "first", verifies |-> FALSE, spool |-> "none"]
HandleTarballDirect == [streams |-> "last", verifies |-> TRUE, spool |-> "removed"]
HandleFileDirect == [streams |-> "last", verifies |-> TRUE, spool |-> "kept"]
HandleArtifactDirect == [streams |-> "last", verifies |-> TRUE, spool |-> "kept"]
HandleGemDirect == [streams |-> "last", verifies |-> TRUE, spool |-> "kept"]
GemspecDirect == [streams |-> "last", verifies |-> FALSE, spool |-> "kept"]
HandleGetBlobDirect == [streams |-> "first", verifies |-> TRUE, spool |-> "kept"]
ProxyConditionalMiss == [streams |-> "served", verifies |-> FALSE, spool |-> "kept"]

(* Background caching: of the spooled file, or of a second download unless *)
(* the version has been cached meanwhile.                                  *)

CacheModuleVersion == "upstream"
CacheTarballWithIntegrity == "spool"
CacheFile == "spool"
CacheArtifact == "spool"
CacheGem == "spool"
CacheGemspec == "spool"
CacheBlob == "spool"

Handler(look, download, direct, cache, upstream) ==
    [look |-> look, download |-> download, direct |-> direct, cache |-> cache,
     upstream |-> upstream]

NoDownload == [verifies |-> FALSE, put |-> "fails", index |-> "none"]
NoStream == [streams |-> "never", verifies |-> FALSE, spool |-> "none"]

Handlers ==
    [goproxy |-> Handler(HandleZip, FetchAndStoreZip, HandleZipDirect,
                         CacheModuleVersion, GoproxyFetch),
     npm |-> Handler(HandleTarball, FetchAndStoreTarball, HandleTarballDirect,
                     CacheTarballWithIntegrity, NpmFetchTarball),
     pypi |-> Handler(HandleFile, FetchAndStoreFile, HandleFileDirect,
                      CacheFile, PypiFetchFile),
     maven |-> Handler(HandleArtifact, FetchAndStoreArtifact, HandleArtifactDirect,
                       CacheArtifact, MavenFetchArtifact),
     gem |-> Handler(HandleGem, FetchAndStoreGem, HandleGemDirect, CacheGem, FetchGem),
     gemspec |-> Handler(HandleGemspec, NoDownload, GemspecDirect, CacheGemspec,
                         FetchGemspec),
     oci |-> Handler(HandleGetBlob, FetchAndStoreBlob, HandleGetBlobDirect, CacheBlob,
                     OciFetchBlob),
     git |-> Handler(HandleUploadPack, FetchAndStorePack, NoStream, "spool",
                     FetchUploadPack),
     fetch |-> Handler(ServeCached, CacheResponse, ProxyConditionalMiss, "spool",
                       DoRequest)]

ASSUME ProtocolsAssumption == Protocols \subseteq DOMAIN Handlers

\* The handler under check.
H == Handlers[protocol]

\* The fetch handler serves what the index names after a download, the
\* others the result of the download.
ServesEntry == H.direct.streams = "served"

\* Only a pack's request has a body, which its download is to take over.
HasBody == H.look.authorises
-----------------------------------------------------------------------------
Idle == [pc |-> "idle"]
Answers == Outcomes \cup {"internal", "empty", "other"}
Caller == [pc : {"missed", "found", "dropping", "waiting", "settling", "rereading",
                 "serving", "streaming", "answered"},
           key : Resources, call : 0..MaxCalls, outcome : Answers \cup {"none"},
           cancelled : BOOLEAN, leads : BOOLEAN]
NoTask == [pc |-> "none"]
Task == [pc : {"fetching", "spooled", "storing", "indexing"}, key : Resources,
         got : Contents \cup {"none"}, file : BOOLEAN]

Init ==
    /\ GroupInit
    /\ callers = [c \in Callers |-> Idle]
    /\ protocol \in Protocols
    /\ coalesced \in {mode \in BOOLEAN :
         IF mode THEN H.download # NoDownload ELSE H.direct.streams \in {"first", "last"}}
    /\ listed \in {found \in BOOLEAN : H.look.digest \in {"key", "none"} => found}
    /\ index = [k \in Resources |-> "none"]
    /\ blobs = {}
    /\ closed = {}
    /\ tasks = [c \in Callers |-> NoTask]
    /\ losses = 0

\* Type invariant; and nobody waits for a call that is over.
TypeOK ==
    /\ protocol \in Protocols /\ coalesced \in BOOLEAN /\ listed \in BOOLEAN
    /\ group \in [Resources -> 0..started] /\ started \in 0..MaxCalls
    /\ calls \in [CallIds -> Call \cup {NoCall}]
    /\ \A i \in CallIds : Running(i) => i <= started
    /\ callers \in [Callers -> Caller \cup {Idle}]
    /\ \A c \in Callers : At(c, "found") \/ At(c, "serving") => callers[c].outcome \in Contents
    /\ tasks \in [Callers -> Task \cup {NoTask}]
    /\ index \in [Resources -> Contents \cup {"none"}] /\ blobs \subseteq Contents
    /\ closed \subseteq 1..started
    /\ errors \in 0..MaxErrors /\ losses \in 0..MaxLosses
    /\ WaitersWillHear

\* What a request knew of its download does not matter any more.
GoTo(c, pc, outcome) ==
    callers' = [callers EXCEPT ![c] = [@ EXCEPT !.pc = pc, !.outcome = outcome,
                  !.call = 0, !.cancelled = FALSE, !.leads = FALSE]]

\* Answered with a content, with an internal error or an empty one, or else.
Answer(c, reply) ==
    GoTo(c, "answered", IF reply \in Contents \cup {"internal", "empty"} THEN reply
                        ELSE "other")

SetTask(c, task) == tasks' = [tasks EXCEPT ![c] = task]

Lose == losses < MaxLosses /\ losses' = losses + 1
Fault == errors < MaxErrors /\ errors' = errors + 1

\* Whoever fetches the artifact knows its digest.
DigestIsKnown == H.look.digest = "key" \/ (listed /\ H.look.digest # "none")

\* What an upstream offers; without a digest, one content is like another.
Offers == IF DigestIsKnown THEN Contents ELSE {"good"}

Verified(content) == DigestIsKnown => content = "good"

\* What a response means.
Response(status, content) ==
    CASE status \in H.upstream.carry -> content
      [] status \in H.upstream.absent -> "notfound"
      [] OTHER -> "error"
-----------------------------------------------------------------------------
(* A request.                                                              *)

\* The entry is read; one that cannot be read counts as none.
Request(c) ==
    /\ At(c, "idle") /\ tasks[c] = NoTask
    /\ \E k \in Resources : \E hit \in {index[k], "none"} :
         /\ IF hit = index[k] THEN UNCHANGED losses ELSE Lose
         /\ callers' = [callers EXCEPT ![c] =
              [pc |-> IF hit = "none" THEN "missed" ELSE "found", key |-> k, call |-> 0,
               outcome |-> hit, cancelled |-> FALSE, leads |-> FALSE]]
    /\ UNCHANGED <<group, calls, started, errors, rigid, index, blobs, closed, tasks>>

\* The blob is served, or has been evicted.  A pack is authorised first, and
\* then opened anew.
Open(c) ==
    LET content == callers[c].outcome IN
    /\ At(c, "found")
    /\ IF content \notin blobs
         THEN GoTo(c, IF H.look.stale = "dropped" THEN "dropping" ELSE "missed", "none")
       ELSE IF H.look.authorises
         THEN GoTo(c, "serving", content) \/ Answer(c, "other")
       ELSE Answer(c, content)
    /\ UNCHANGED <<group, calls, started, errors, rigid, stored, closed, tasks>>

\* The stale entry goes, or the one that has replaced it meanwhile; after a
\* download there is no second try.
Drop(c) ==
    /\ At(c, "dropping")
    /\ index' = [index EXCEPT ![callers[c].key] = "none"]
    /\ IF callers[c].outcome = "empty" THEN Answer(c, "empty") ELSE GoTo(c, "missed", "none")
    /\ UNCHANGED <<group, calls, started, errors, rigid, blobs, losses, closed, tasks>>

\* A miss that is coalesced.
Miss(c) ==
    /\ coalesced /\ At(c, "missed")
    /\ Join(c) \/ Start(c)
    /\ UNCHANGED <<rigid, stored, closed, tasks>>

\* A miss that the upstream answers with no content to cache: a HEAD or a
\* conditional request, or a file that no page lists.
Pass(c) ==
    /\ At(c, "missed")
    /\ IF ServesEntry THEN Answer(c, "other")
       ELSE H.look.digest = "index" /\ ~listed /\ Answer(c, "notfound")
    /\ UNCHANGED <<group, calls, started, errors, rigid, stored, closed, tasks>>

\* The end of Do.  A request that started a download closes the body that it
\* has not seen the download take over, whose own word of that is not
\* synchronised; then it serves, or forgets a failure.
Settle(c) ==
    LET k == callers[c].key
        i == callers[c].call
        outcome == callers[c].outcome
        mine == HasBody /\ callers[c].leads /\ Running(i) IN
    /\ At(c, "settling")
    /\ \/ /\ mine /\ calls[i].pc \in {"starting", "fetching"}
          /\ closed' = closed \cup {i}
       \/ /\ ~(mine /\ calls[i].pc = "starting")
          /\ UNCHANGED closed
    /\ IF outcome \in Contents
         THEN /\ GoTo(c, IF ServesEntry THEN "rereading" ELSE "serving", outcome)
              /\ UNCHANGED group
         ELSE ForgetOnDownloadError(k, outcome) /\ Answer(c, outcome)
    /\ UNCHANGED <<calls, started, errors, rigid, stored, tasks>>

\* ServeFromStore: the result may have been evicted since.
Serve(c) ==
    /\ At(c, "serving")
    /\ Answer(c, IF callers[c].outcome \in blobs THEN callers[c].outcome ELSE "internal")
    /\ UNCHANGED <<group, calls, started, errors, rigid, stored, closed, tasks>>

\* The fetch handler reads the entry again, and then its blob.
Reread(c) ==
    LET content == index[callers[c].key] IN
    /\ At(c, "rereading")
    /\ IF content = "none" THEN Answer(c, "internal")
       ELSE IF content \in blobs THEN Answer(c, content)
       ELSE GoTo(c, "dropping", "empty")
    /\ UNCHANGED <<group, calls, started, errors, rigid, stored, closed, tasks>>

Leave_RemovesSpool(c) ==
    /\ At(c, "answered")
    /\ callers' = [callers EXCEPT ![c] = Idle]
    /\ IF tasks[c] # NoTask THEN SetTask(c, [tasks[c] EXCEPT !.file = FALSE])
         ELSE UNCHANGED tasks
    /\ UNCHANGED <<group, calls, started, errors, rigid, stored, closed>>

\* The handler returns; a spooled file that it removes may be one that a
\* task still wants.
Leave(c) ==
    /\ At(c, "answered")
    /\ callers' = [callers EXCEPT ![c] = Idle]
    /\ IF H.direct.spool = "removed" /\ tasks[c] # NoTask
         THEN SetTask(c, [tasks[c] EXCEPT !.file = FALSE])
         ELSE UNCHANGED tasks
    /\ UNCHANGED <<group, calls, started, errors, rigid, stored, closed>>
-----------------------------------------------------------------------------
(* A download.                                                             *)

\* The download's goroutine takes the body over.
Begin(i) ==
    /\ HasBody /\ calls[i].pc = "starting"
    /\ SetCall(i, "fetching", "none")
    /\ UNCHANGED <<group, started, callers, errors, rigid, stored, closed, tasks>>

\* The response is spooled and verified.  A closed request body cannot be
\* sent.
Fetch(i) ==
    /\ calls[i].pc = (IF HasBody THEN "fetching" ELSE "starting")
    /\ \/ SetCall(i, "fetched", "timeout") /\ UNCHANGED errors
       \/ \E status \in Statuses, content \in Offers :
            LET response == IF i \in closed THEN "error" ELSE Response(status, content)
                bad == H.download.verifies /\ ~Verified(content)
                outcome == IF response \in Contents /\ bad THEN "error" ELSE response IN
            /\ SetCall(i, IF outcome \in Contents THEN "storing" ELSE "fetched", outcome)
            /\ CountError(outcome)
    /\ UNCHANGED <<group, started, callers, rigid, stored, closed, tasks>>

\* A step of the caching that fails fails the download, or is only logged.
FailCaching(i, policy) ==
    /\ Fault
    /\ SetCall(i, "fetched", IF policy = "fails" THEN "error" ELSE calls[i].outcome)
    /\ UNCHANGED <<index, blobs>>

Put(i) ==
    /\ calls[i].pc = "storing"
    /\ \/ /\ blobs' = blobs \cup {calls[i].outcome}
          /\ SetCall(i, "indexing", calls[i].outcome)
          /\ UNCHANGED <<errors, index>>
       \/ FailCaching(i, H.download.put)
    /\ UNCHANGED <<group, started, callers, rigid, losses, closed, tasks>>

PutIndex(i) ==
    /\ calls[i].pc = "indexing"
    /\ \/ /\ index' = [index EXCEPT ![calls[i].key] = calls[i].outcome]
          /\ SetCall(i, "fetched", calls[i].outcome)
          /\ UNCHANGED <<errors, blobs>>
       \/ FailCaching(i, H.download.index)
    /\ UNCHANGED <<group, started, callers, rigid, losses, closed, tasks>>
-----------------------------------------------------------------------------
(* A miss without the downloader.                                          *)

StartDirect(c) ==
    /\ At(c, "missed") /\ (~coalesced \/ ServesEntry) /\ tasks[c] = NoTask
    /\ GoTo(c, "streaming", "none")
    /\ SetTask(c, [pc |-> "fetching", key |-> callers[c].key, got |-> "none",
                   file |-> FALSE])
    /\ UNCHANGED <<group, calls, started, errors, rigid, stored, closed>>

\* The response is spooled, verified, and sent; or sent while it is spooled,
\* and then verified; or stored, by the fetch handler, and then served.
Stream(c) ==
    /\ At(c, "streaming") /\ tasks[c].pc = "fetching"
    /\ \E status \in Statuses, content \in Offers :
         LET response == Response(status, content)
             bad == H.direct.verifies /\ ~Verified(content)
             reply == IF response \in Contents /\ bad /\ H.direct.streams = "last"
                        THEN "error" ELSE response
             next == [tasks[c] EXCEPT
                        !.pc = IF ServesEntry THEN "storing" ELSE "spooled",
                        !.got = IF H.direct.spool = "none" THEN "none" ELSE content,
                        !.file = H.direct.spool # "none"] IN
         /\ CountError(reply)
         /\ SetTask(c, IF response \in Contents /\ ~bad THEN next ELSE NoTask)
         /\ IF ServesEntry /\ response \in Contents
              THEN UNCHANGED callers ELSE Answer(c, reply)
    /\ UNCHANGED <<group, calls, started, rigid, stored, closed>>

\* A client that goes while it is sent what has yet to be verified leaves
\* nothing to cache.
Interrupt(c) ==
    /\ At(c, "streaming") /\ H.direct.streams = "first"
    /\ Answer(c, "timeout") /\ SetTask(c, NoTask)
    /\ UNCHANGED <<group, calls, started, errors, rigid, stored, closed>>

\* The end of a task, of which only a conditional request hears.
EndTask(c, pc, reply) ==
    /\ SetTask(c, NoTask)
    /\ IF At(c, "streaming") THEN GoTo(c, pc, reply) ELSE UNCHANGED callers

FailTask(c) ==
    /\ Fault /\ EndTask(c, "answered", "error")
    /\ UNCHANGED <<index, blobs>>

\* The task opens the file, or downloads again what is not yet indexed.
OpenSpool(c) ==
    LET again == H.cache = "upstream" IN
    /\ tasks[c].pc = "spooled"
    /\ \/ /\ IF again THEN index[tasks[c].key] # "none" ELSE ~tasks[c].file
          /\ EndTask(c, "answered", "error") /\ UNCHANGED errors
       \/ /\ IF again THEN index[tasks[c].key] = "none" ELSE tasks[c].file
          /\ \E content \in IF again THEN Offers ELSE {tasks[c].got} :
               SetTask(c, [tasks[c] EXCEPT !.pc = "storing", !.got = content])
          /\ UNCHANGED <<callers, errors>>
       \/ FailTask(c)
    /\ UNCHANGED <<group, calls, started, rigid, stored, closed>>

StoreSpool(c) ==
    /\ tasks[c].pc = "storing"
    /\ \/ /\ blobs' = blobs \cup {tasks[c].got}
          /\ SetTask(c, [tasks[c] EXCEPT !.pc = "indexing"])
          /\ UNCHANGED <<callers, errors, index>>
       \/ FailTask(c)
    /\ UNCHANGED <<group, calls, started, rigid, losses, closed>>

IndexSpool(c) ==
    /\ tasks[c].pc = "indexing"
    /\ \/ /\ index' = [index EXCEPT ![tasks[c].key] = tasks[c].got]
          /\ EndTask(c, "rereading", tasks[c].got)
          /\ UNCHANGED <<errors, blobs>>
       \/ FailTask(c)
    /\ UNCHANGED <<group, calls, started, rigid, losses, closed>>
-----------------------------------------------------------------------------
(* The store and the index lose what nothing pins, or what has expired.    *)

Evict(b) ==
    /\ b \in blobs /\ Lose
    /\ blobs' = blobs \ {b}
    /\ UNCHANGED <<groupVars, rigid, index, closed, tasks>>

Expire(k) ==
    /\ index[k] # "none" /\ Lose
    /\ index' = [index EXCEPT ![k] = "none"]
    /\ UNCHANGED <<groupVars, rigid, blobs, closed, tasks>>

Own(A) == A /\ UNCHANGED <<rigid, stored, closed, tasks>>

Handle(c) ==
    \/ Open(c) \/ Drop(c) \/ Miss(c) \/ Own(Receive(c)) \/ Own(GiveUp(c))
    \/ Settle(c) \/ Serve(c) \/ Reread(c) \/ Leave(c)

Cache(c) == OpenSpool(c) \/ StoreSpool(c) \/ IndexSpool(c)

Download(i) == Begin(i) \/ Put(i) \/ PutIndex(i) \/ Own(Complete(i))

Next ==
    \/ \E c \in Callers :
         \/ Request(c) \/ Handle(c) \/ Own(Cancel(c)) \/ Pass(c) \/ StartDirect(c)
         \/ Stream(c) \/ Interrupt(c) \/ Cache(c)
    \/ \E i \in CallIds : Download(i) \/ Fetch(i)
    \/ \E b \in Contents : Evict(b)
    \/ \E k \in Resources : Expire(k)

Spec == Init /\ [][Next]_vars

\* Handlers and tasks go on; a download may never get its answer.
Fairness == \A c \in Callers : WF_vars(Handle(c)) /\ WF_vars(Cache(c))

FairSpec == Spec /\ Fairness
-----------------------------------------------------------------------------
(* Properties.                                                             *)

\* Where the digest is known, content that differs from it is neither stored
\* nor indexed nor, unless it is streamed as it comes, served: every path to
\* the cache verifies, and a caller that joins a download is not served what
\* it would have refused (oci/handler.go:460-466, 516-521; npm/handler.go:463;
\* pypi/handler.go:421; maven/handler.go:489; rubygems/handler.go:721).
OnlyVerifiedContent ==
    DigestIsKnown =>
        /\ blobs \subseteq {"good"} /\ \A k \in Resources : index[k] \in {"good", "none"}
        /\ \A c \in Callers : At(c, "answered") /\ callers[c].outcome \in Contents \ {"good"}
             => ~coalesced /\ H.direct.streams = "first"

\* A request fails with an internal error, or with an empty 200, only if an
\* entry or a blob was lost, or the blob download could not cache what it
\* fetched and told nobody (serve.go:93-100, fetch/handler.go:195-206,
\* oci/handler.go:469-471).
ServedUnlessLost ==
    \A c \in Callers :
        At(c, "answered") /\ callers[c].outcome \in {"internal", "empty"}
            => losses > 0 \/ (H.download.put = "logged" /\ errors > 0)

\* What was streamed is cached in the end, without a fault, except that
\* handleTarballDirect removes the file (npm/handler.go:541) that its task
\* is about to open.
StreamedIsCached ==
    \A c \in Callers, k \in Resources :
        tasks[c] # NoTask /\ tasks[c].pc = "spooled" /\ tasks[c].key = k
          /\ H.direct.spool # "removed"
            ~> index[k] # "none" \/ errors > 0 \/ losses > 0

\* The body of the request belongs to the download that was started with it
\* until the download closes it (git/handler.go:263, 453-455).
BodyOpenForDownload ==
    \A i \in CallIds : Running(i) /\ calls[i].pc = "fetching" => i \notin closed
=============================================================================
