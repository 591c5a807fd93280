------------------------- MODULE PullThroughProofs --------------------------
(***************************************************************************)
(* Proofs about module PullThrough, for every set of handlers, resources,  *)
(* requests and downloads.  The invariant relates each request, download   *)
(* and task to the group, the index and the store; what it says of entries *)
(* and blobs that must be there holds while the state is calm.             *)
(***************************************************************************)
EXTENDS PullThrough, TLAPS

Wrong == Contents \ {"good"}

\* No entry, no blob was lost, and no download hid that it cached nothing.
Calm == losses = 0 /\ ~(H.download.put = "logged" /\ errors # 0)

\* A request: where it waits, for what, and what it may hold.
CallerOK(c) ==
    LET k == callers[c].key
        i == callers[c].call
        outcome == callers[c].outcome
        received == callers[c].pc \in {"waiting", "settling"} IN
    /\ received => i \in 1..started
    /\ At(c, "waiting") => /\ outcome = "none" => Running(i)
                           /\ Running(i) => calls[i].key = k
    /\ At(c, "settling") => outcome # "none"
    /\ At(c, "missed") => outcome = "none"
    /\ received => outcome \in Outcomes \cup {"none"}
    /\ At(c, "found") \/ At(c, "serving") => outcome \in Contents
    /\ At(c, "streaming") =>
         /\ ~coalesced \/ ServesEntry
         /\ tasks[c] # NoTask => tasks[c].key = k
    /\ errors = 0 /\ received => outcome \notin Failures
    /\ DigestIsKnown /\ ~At(c, "idle") /\ outcome \in Wrong
         => At(c, "answered") /\ ~coalesced /\ H.direct.streams = "first"
    /\ Calm =>
         /\ received \/ At(c, "found") \/ At(c, "serving") => outcome \in blobs \/ outcome \notin Contents
         /\ received /\ ServesEntry /\ outcome \in Contents => index[k] # "none"
         /\ At(c, "rereading") => index[k] # "none"
         /\ ~At(c, "dropping")
         /\ At(c, "answered") => outcome \notin {"internal", "empty"}

\* A download: registered until a failure, verified, and stored before it
\* is indexed.
CallOK(i) ==
    LET k == calls[i].key
        outcome == calls[i].outcome IN
    Running(i) =>
        /\ i <= started
        /\ calls[i].pc \in {"storing", "indexing"} => outcome \in Contents
        /\ calls[i].pc = "fetched" => outcome # "none"
        /\ errors = 0 => group[k] = i /\ outcome \notin Failures
        /\ DigestIsKnown => outcome \notin Wrong
        /\ Calm =>
             /\ calls[i].pc = "indexing" => outcome \in blobs
             /\ calls[i].pc = "fetched" /\ outcome \in Contents
                  => outcome \in blobs /\ (ServesEntry => index[k] # "none")

TaskOK(c) ==
    tasks[c] # NoTask =>
        /\ tasks[c].pc \in {"storing", "indexing"} \/ tasks[c].file => tasks[c].got \in Contents
        /\ DigestIsKnown => tasks[c].got \notin Wrong
        /\ Calm => (tasks[c].pc = "indexing" => tasks[c].got \in blobs)

GroupOK == \A k \in Resources : group[k] # 0 => Running(group[k]) /\ calls[group[k]].key = k

StoreOK ==
    /\ DigestIsKnown =>
         blobs \subseteq {"good"} /\ \A k \in Resources : index[k] \notin Wrong
    /\ Calm => \A k \in Resources : index[k] \in blobs \cup {"none"}

Shape ==
    /\ protocol \in Protocols /\ coalesced \in BOOLEAN /\ listed \in BOOLEAN
    /\ group \in [Resources -> 0..started] /\ started \in 0..MaxCalls
    /\ calls \in [CallIds -> Call \cup {NoCall}]
    /\ callers \in [Callers -> Caller \cup {Idle}]
    /\ tasks \in [Callers -> Task \cup {NoTask}]
    /\ index \in [Resources -> Contents \cup {"none"}] /\ blobs \subseteq Contents
    /\ closed \subseteq 1..started
    /\ errors \in 0..MaxErrors /\ losses \in 0..MaxLosses

IInv ==
    /\ Shape /\ GroupOK /\ StoreOK
    /\ \A c \in Callers : CallerOK(c) /\ TaskOK(c)
    /\ \A i \in CallIds : CallOK(i)
-----------------------------------------------------------------------------
(* The decisions of the handlers on which the invariants rest.             *)
HandlerDecides(h) ==
    /\ {h.download.verifies, h.direct.verifies, h.look.authorises} \subseteq BOOLEAN
    /\ h.look.digest # "none" => h.download.verifies /\ h.direct.verifies
    /\ h.look.digest # "none" => h.direct.streams \in {"first", "last"}
    /\ h.cache = "upstream" => h.look.digest = "none" /\ h.direct.streams # "served"
    /\ h.direct.streams = "served" =>
         h.download.put = "fails" /\ h.download.index = "fails" /\ ~h.direct.verifies
           /\ h.direct.spool # "none"
    /\ h.download.put \in {"fails", "logged"}

LEMMA HandlersDecide == \A p \in DOMAIN Handlers : HandlerDecides(Handlers[p])
  <1> USE DEF Handler, NoDownload, NoStream, HandlerDecides
  <1>1. HandlerDecides(Handlers["goproxy"])
    BY DEF Handlers, HandleZip, FetchAndStoreZip, HandleZipDirect, CacheModuleVersion, GoproxyFetch
  <1>2. HandlerDecides(Handlers["npm"])
    BY DEF Handlers, HandleTarball, FetchAndStoreTarball, HandleTarballDirect,
           CacheTarballWithIntegrity, NpmFetchTarball
  <1>3. HandlerDecides(Handlers["pypi"])
    BY DEF Handlers, HandleFile, FetchAndStoreFile, HandleFileDirect, CacheFile, PypiFetchFile
  <1>4. HandlerDecides(Handlers["maven"])
    BY DEF Handlers, HandleArtifact, FetchAndStoreArtifact, HandleArtifactDirect,
           CacheArtifact, MavenFetchArtifact
  <1>5. HandlerDecides(Handlers["gem"])
    BY DEF Handlers, HandleGem, FetchAndStoreGem, HandleGemDirect, CacheGem, FetchGem
  <1>6. HandlerDecides(Handlers["gemspec"])
    BY DEF Handlers, HandleGemspec, GemspecDirect, CacheGemspec, FetchGemspec
  <1>7. HandlerDecides(Handlers["oci"])
    BY DEF Handlers, HandleGetBlob, FetchAndStoreBlob, HandleGetBlobDirect, CacheBlob, OciFetchBlob
  <1>8. HandlerDecides(Handlers["git"])
    BY DEF Handlers, HandleUploadPack, FetchAndStorePack, FetchUploadPack
  <1>9. HandlerDecides(Handlers["fetch"])
    BY DEF Handlers, ServeCached, CacheResponse, ProxyConditionalMiss, DoRequest
  <1>10. DOMAIN Handlers
           = {"goproxy", "npm", "pypi", "maven", "gem", "gemspec", "oci", "git", "fetch"}
    BY DEF Handlers
  <1> QED
    BY <1>1, <1>2, <1>3, <1>4, <1>5, <1>6, <1>7, <1>8, <1>9, <1>10

LEMMA Decisions ==
    ASSUME Shape
    PROVE  /\ HandlerDecides(H)
           /\ DigestIsKnown => H.look.digest # "none"
           /\ ServesEntry => ~DigestIsKnown
  <1>1. HandlerDecides(H)
    BY HandlersDecide, ProtocolsAssumption DEF Shape, H
  <1>2. DigestIsKnown => H.look.digest # "none"
    BY DEF DigestIsKnown
  <1> QED
    BY <1>1, <1>2 DEF HandlerDecides, ServesEntry

LEMMA Names ==
    /\ Idle.pc = "idle" /\ NoTask.pc = "none" /\ NoCall.pc = "none"
    /\ {"none", "notfound", "error", "timeout", "internal", "empty", "other"} \cap Contents = {}
    /\ "good" \in Contents
    /\ MaxCalls \in Nat /\ MaxErrors \in Nat /\ MaxLosses \in Nat
  BY DownloaderAssumption, PullThroughAssumption DEF Idle, NoTask, NoCall

LEMMA CallerType ==
    ASSUME Shape, NEW c \in Callers, ~At(c, "idle")
    PROVE  callers[c] \in Caller
  BY Names DEF Shape, At

LEMMA TaskType ==
    ASSUME Shape, NEW c \in Callers, tasks[c].pc # "none"
    PROVE  tasks[c] \in Task /\ tasks[c] # NoTask
  BY Names DEF Shape

LEMMA CallType ==
    ASSUME Shape, NEW i \in CallIds, calls[i].pc # "none"
    PROVE  calls[i] \in Call /\ Running(i)
  BY Names DEF Shape, Running
-----------------------------------------------------------------------------
(* What every step leaves as it is.                                        *)
Frame ==
    /\ UNCHANGED rigid
    /\ started <= started'
    /\ errors' = 0 => errors = 0
    /\ Calm' => /\ Calm /\ blobs \subseteq blobs'
                /\ \A k \in Resources : index[k] # "none" => index'[k] # "none"

LEMMA RigidSame ==
    ASSUME UNCHANGED rigid
    PROVE  /\ H' = H /\ (DigestIsKnown' <=> DigestIsKnown) /\ (ServesEntry' <=> ServesEntry)
           /\ coalesced' = coalesced
  BY DEF rigid, H, DigestIsKnown, ServesEntry

LEMMA CallerKept ==
    ASSUME Shape, Shape', Frame, NEW c \in Callers, CallerOK(c),
           callers'[c] = callers[c],
           At(c, "streaming") /\ tasks'[c] # NoTask
             => tasks[c] # NoTask /\ tasks'[c].key = tasks[c].key,
           At(c, "waiting") =>
             /\ Running(callers[c].call)' <=> Running(callers[c].call)
             /\ Running(callers[c].call) => calls'[callers[c].call].key = calls[callers[c].call].key
    PROVE  CallerOK(c)'
  <1>1. CASE At(c, "idle")
    BY <1>1, Names DEF CallerOK, At
  <1>2. CASE ~At(c, "idle")
    <2>1. callers[c] \in Caller
      BY <1>2, CallerType
    <2>2. /\ (DigestIsKnown' <=> DigestIsKnown) /\ (ServesEntry' <=> ServesEntry)
          /\ H' = H /\ coalesced' = coalesced
      BY RigidSame DEF Frame
    <2>3. started \in Nat /\ started' \in Nat /\ started <= started'
      BY Names DEF Shape, Frame
    <2>4. callers[c].key \in Resources
      BY <2>1 DEF Caller
    <2>5. callers[c].pc \in {"waiting", "settling"} => callers[c].call \in 1..started'
      BY <2>3 DEF CallerOK
    <2> QED
      BY <2>2, <2>4, <2>5 DEF CallerOK, At, Frame
  <1> QED
    BY <1>1, <1>2

LEMMA CallKept ==
    ASSUME Shape, Shape', Frame, NEW i \in CallIds, CallOK(i),
           calls'[i] = calls[i],
           Running(i) => group'[calls[i].key] = group[calls[i].key] \/ errors' # 0
    PROVE  CallOK(i)'
  <1>1. (DigestIsKnown' <=> DigestIsKnown) /\ (ServesEntry' <=> ServesEntry)
    BY RigidSame DEF Frame
  <1>2. started \in Nat /\ started' \in Nat /\ started <= started' /\ i \in Nat
    BY Names DEF Shape, Frame, CallIds
  <1>3. Running(i) => calls[i].key \in Resources
    BY DEF Shape, Running, Call
  <1> QED
    BY <1>1, <1>2, <1>3 DEF CallOK, Running, Frame

LEMMA TaskKept ==
    ASSUME Frame, NEW c \in Callers, TaskOK(c), tasks'[c] = tasks[c]
    PROVE  TaskOK(c)'
  <1>1. DigestIsKnown' <=> DigestIsKnown
    BY RigidSame DEF Frame
  <1> QED
    BY <1>1 DEF TaskOK, Frame

\* A step of one request: the others, and the downloads, are as they were.
LEMMA OneCaller ==
    ASSUME IInv, Frame, Shape', StoreOK', NEW c \in Callers,
           \A d \in Callers \ {c} : callers'[d] = callers[d] /\ tasks'[d] = tasks[d],
           CallerOK(c)', TaskOK(c)',
           UNCHANGED calls,
           UNCHANGED group \/ (errors' # 0 /\ GroupOK')
    PROVE  IInv'
  <1>1. GroupOK'
    BY DEF IInv, GroupOK, Running
  <1>2. ASSUME NEW d \in Callers PROVE CallerOK(d)' /\ TaskOK(d)'
    <2>1. CASE d # c
      <3>1. CallerOK(d) /\ TaskOK(d) /\ Shape /\ callers'[d] = callers[d] /\ tasks'[d] = tasks[d]
        BY <2>1 DEF IInv
      <3> QED
        BY <3>1, CallerKept, TaskKept DEF Running
    <2> QED
      BY <2>1
  <1>3. ASSUME NEW i \in CallIds PROVE CallOK(i)'
    <2>1. CallOK(i) /\ Shape
      BY DEF IInv
    <2> QED
      BY <2>1, CallKept
  <1> QED
    BY <1>1, <1>2, <1>3 DEF IInv
-----------------------------------------------------------------------------
(* A request moves on.                                                     *)
Moved(c, pc, outcome) ==
    /\ callers' \in [Callers -> Caller \cup {Idle}]
    /\ callers'[c].pc = pc /\ callers'[c].outcome = outcome
    /\ callers'[c].key = callers[c].key
    /\ \A d \in Callers \ {c} : callers'[d] = callers[d]

Places == {"missed", "found", "dropping", "waiting", "settling", "rereading",
           "serving", "streaming", "answered"}

LEMMA GoToMoves ==
    ASSUME Shape, NEW c \in Callers, ~At(c, "idle"), NEW pc \in Places,
           NEW outcome \in Answers \cup {"none"}, GoTo(c, pc, outcome)
    PROVE  Moved(c, pc, outcome)
  <1> DEFINE r == [callers[c] EXCEPT !.pc = pc, !.outcome = outcome,
                     !.call = 0, !.cancelled = FALSE, !.leads = FALSE]
  <1>1. callers[c] \in Caller
    BY CallerType
  <1>2. r \in Caller /\ r.pc = pc /\ r.outcome = outcome /\ r.key = callers[c].key
    <2>1. Caller = [pc : Places, key : Resources, call : 0..MaxCalls,
                    outcome : Answers \cup {"none"}, cancelled : BOOLEAN, leads : BOOLEAN]
      BY DEF Caller, Places
    <2>2. 0 \in 0..MaxCalls
      BY Names
    <2> QED
      BY <1>1, <2>1, <2>2
  <1>3. callers' = [callers EXCEPT ![c] = r] /\ callers \in [Callers -> Caller \cup {Idle}]
    BY DEF GoTo, Shape
  <1> HIDE DEF r
  <1> QED
    BY <1>2, <1>3 DEF Moved

LEMMA AnswerMoves ==
    ASSUME Shape, NEW c \in Callers, ~At(c, "idle"), NEW reply, Answer(c, reply)
    PROVE  \E outcome : /\ Moved(c, "answered", outcome)
                        /\ outcome \in Contents \cup {"internal", "empty"} => outcome = reply
  <1> DEFINE outcome == IF reply \in Contents \cup {"internal", "empty"} THEN reply ELSE "other"
  <1>1. outcome \in Answers \cup {"none"}
    BY DEF Answers, Outcomes
  <1>2. GoTo(c, "answered", outcome)
    BY DEF Answer
  <1>3. outcome \in Contents \cup {"internal", "empty"} => outcome = reply
    BY Names
  <1> HIDE DEF outcome
  <1>4. Moved(c, "answered", outcome)
    BY <1>1, <1>2, GoToMoves DEF Places
  <1> QED
    BY <1>3, <1>4

\* A request that is done with its download.
LEMMA MovedOK ==
    ASSUME Frame, NEW c \in Callers,
           NEW pc \in Places \ {"waiting", "settling"}, NEW outcome, Moved(c, pc, outcome),
           pc \in {"found", "serving"} => outcome \in Contents /\ (Calm' => outcome \in blobs'),
           pc = "missed" => outcome = "none",
           pc = "streaming" => /\ ~coalesced \/ ServesEntry
                               /\ tasks'[c] # NoTask => tasks'[c].key = callers[c].key,
           pc = "rereading" /\ Calm' => index'[callers[c].key] # "none",
           pc = "dropping" => ~Calm',
           pc = "answered" /\ outcome \in {"internal", "empty"} => ~Calm',
           DigestIsKnown /\ outcome \in Wrong
             => pc = "answered" /\ ~coalesced /\ H.direct.streams = "first"
    PROVE  CallerOK(c)'
  <1>1. /\ (DigestIsKnown' <=> DigestIsKnown) /\ (ServesEntry' <=> ServesEntry)
        /\ H' = H /\ coalesced' = coalesced
    BY RigidSame DEF Frame
  <1>2. callers'[c].pc = pc /\ callers'[c].outcome = outcome /\ callers'[c].key = callers[c].key
    BY DEF Moved
  <1> QED
    BY <1>1, <1>2 DEF CallerOK, At, Places

\* The stored content is untouched.
LEMMA StoreKept ==
    ASSUME IInv, UNCHANGED <<rigid, stored>>, errors' = 0 => errors = 0
    PROVE  StoreOK' /\ (Calm' => Calm)
  <1>1. (DigestIsKnown' <=> DigestIsKnown) /\ H' = H
    BY RigidSame
  <1>2. losses' = losses /\ blobs' = blobs /\ index' = index
    BY DEF stored
  <1>3. Calm' => Calm
    BY <1>1, <1>2 DEF Calm
  <1> QED
    BY <1>1, <1>2, <1>3 DEF StoreOK, IInv

\* All else is untouched.
Quiet == UNCHANGED <<group, calls, started, errors, rigid, stored, closed, tasks>>

LEMMA QuietFrame ==
    ASSUME IInv, Quiet
    PROVE  Frame /\ StoreOK' /\ (Calm' <=> Calm)
  <1>1. /\ UNCHANGED <<rigid, stored>> /\ errors' = errors /\ started' = started
        /\ blobs' = blobs /\ index' = index /\ losses' = losses
    BY DEF Quiet, stored
  <1>2. StoreOK' /\ (Calm' => Calm)
    BY <1>1, StoreKept
  <1>3. H' = H
    BY <1>1, RigidSame
  <1>4. started \in Nat
    BY Names DEF IInv, Shape
  <1> QED
    BY <1>1, <1>2, <1>3, <1>4 DEF Frame, Calm

LEMMA QuietCaller ==
    ASSUME IInv, Quiet, NEW c \in Callers,
           callers' \in [Callers -> Caller \cup {Idle}],
           \A d \in Callers \ {c} : callers'[d] = callers[d],
           CallerOK(c)'
    PROVE  IInv'
  <1>1. Frame /\ StoreOK' /\ UNCHANGED <<calls, group, tasks>>
    BY QuietFrame DEF Quiet
  <1>2. Shape'
    BY DEF Quiet, IInv, Shape, rigid, stored
  <1>3. TaskOK(c)'
    BY <1>1, TaskKept DEF IInv
  <1> QED
    BY <1>1, <1>2, <1>3, OneCaller

LEMMA OpenKeeps ==
    ASSUME IInv, NEW c \in Callers, Open(c)
    PROVE  IInv'
  <1> DEFINE content == callers[c].outcome
  <1>1. Shape /\ ~At(c, "idle") /\ Quiet /\ At(c, "found")
    BY DEF Open, IInv, At, Quiet
  <1>2. CallerOK(c) /\ callers[c] \in Caller
    BY <1>1, CallerType DEF IInv
  <1>3. /\ Frame /\ (Calm' <=> Calm) /\ blobs' = blobs
    BY <1>1, QuietFrame DEF Quiet, stored
  <1>4. content \in Contents /\ content \in Answers /\ (Calm => content \in blobs)
        /\ content \notin {"none", "internal", "empty", "other"}
        /\ (DigestIsKnown => content \notin Wrong)
    BY <1>1, <1>2, Names DEF CallerOK, Answers, Outcomes, At
  <1>5. ASSUME NEW pc \in Places, NEW outcome, Moved(c, pc, outcome),
               \/ pc \in {"dropping", "missed"} /\ outcome = "none" /\ content \notin blobs
               \/ pc \in {"serving", "answered"} /\ outcome = content /\ content \in blobs
               \/ pc = "answered" /\ outcome \notin Contents \cup {"internal", "empty"}
        PROVE  IInv'
    <2>1. CallerOK(c)'
      <3>1. pc \in Places \ {"waiting", "settling"}
        BY <1>5
      <3>2. outcome \notin Wrong \/ ~DigestIsKnown
        BY <1>4, <1>5, Names DEF Wrong
      <3> HIDE DEF content
      <3> QED
        BY <1>3, <1>4, <1>5, <3>1, <3>2, MovedOK
    <2> QED
      BY <1>1, <1>5, <2>1, QuietCaller DEF Moved
  <1>6. CASE content \notin blobs
    <2>1. PICK pc \in {"dropping", "missed"} : GoTo(c, pc, "none")
      BY <1>6 DEF Open
    <2>2. Moved(c, pc, "none")
      BY <1>1, <2>1, GoToMoves DEF Places
    <2> HIDE DEF content
    <2> QED
      BY <1>5, <1>6, <2>2 DEF Places
  <1>7. CASE content \in blobs
    <2>1. GoTo(c, "serving", content) \/ \E reply \in {content, "other"} : Answer(c, reply)
      BY <1>7 DEF Open
    <2>2. CASE GoTo(c, "serving", content)
      <3>1. Moved(c, "serving", content)
        BY <1>1, <1>4, <2>2, GoToMoves DEF Places
      <3> HIDE DEF content
      <3> QED
        BY <1>5, <1>7, <3>1 DEF Places
    <2>3. ASSUME NEW reply \in {content, "other"}, Answer(c, reply) PROVE IInv'
      <3>1. PICK outcome : /\ Moved(c, "answered", outcome)
                           /\ outcome \in Contents \cup {"internal", "empty"} => outcome = reply
        BY <1>1, <2>3, AnswerMoves
      <3> HIDE DEF content
      <3>2. outcome = content \/ outcome \notin Contents \cup {"internal", "empty"}
        BY <2>3, <3>1, Names
      <3> QED
        BY <1>5, <1>7, <3>1, <3>2 DEF Places
    <2> QED
      BY <2>1, <2>2, <2>3
  <1> QED
    BY <1>6, <1>7

LEMMA ServeKeeps ==
    ASSUME IInv, NEW c \in Callers, Serve(c)
    PROVE  IInv'
  <1> DEFINE content == callers[c].outcome
  <1>1. Shape /\ ~At(c, "idle") /\ Quiet /\ At(c, "serving")
    BY DEF Serve, IInv, At, Quiet
  <1>2. Frame /\ (Calm' <=> Calm) /\ blobs' = blobs
    BY <1>1, QuietFrame DEF Quiet, stored
  <1>3. /\ content \in Contents /\ (Calm => content \in blobs)
        /\ DigestIsKnown => content \notin Wrong
    BY <1>1, Names DEF CallerOK, At, IInv
  <1>4. PICK outcome :
           /\ Moved(c, "answered", outcome)
           /\ outcome \in Contents \cup {"internal", "empty"}
                => outcome = IF content \in blobs THEN content ELSE "internal"
    BY <1>1, AnswerMoves DEF Serve
  <1> HIDE DEF content
  <1>5. outcome \in {"internal", "empty"} => ~Calm'
    BY <1>2, <1>3, <1>4, Names
  <1>6. DigestIsKnown => outcome \notin Wrong
    BY <1>3, <1>4, Names DEF Wrong
  <1>7. CallerOK(c)'
    BY <1>2, <1>4, <1>5, <1>6, MovedOK DEF Places
  <1> QED
    BY <1>1, <1>4, <1>7, QuietCaller DEF Moved

LEMMA RereadKeeps ==
    ASSUME IInv, NEW c \in Callers, Reread(c)
    PROVE  IInv'
  <1> DEFINE content == index[callers[c].key]
  <1>1. Shape /\ ~At(c, "idle") /\ Quiet /\ At(c, "rereading")
    BY DEF Reread, IInv, At, Quiet
  <1>2. Frame /\ (Calm' <=> Calm) /\ blobs' = blobs
    BY <1>1, QuietFrame DEF Quiet, stored
  <1>3. callers[c].key \in Resources
    BY <1>1, CallerType DEF Caller
  <1>4. /\ content \in Contents \cup {"none"} /\ (DigestIsKnown => content \notin Wrong)
        /\ Calm => content # "none" /\ content \in blobs
    BY <1>1, <1>3 DEF CallerOK, IInv, StoreOK, Shape
  <1> HIDE DEF content
  <1>5. CASE content \in Contents /\ content \notin blobs
    <2>1. GoTo(c, "dropping", "empty")
      BY <1>5, Names DEF Reread, content
    <2>2. Moved(c, "dropping", "empty")
      BY <1>1, <2>1, GoToMoves DEF Places, Answers
    <2>3. CallerOK(c)'
      BY <1>2, <1>4, <1>5, <2>2, MovedOK, Names DEF Places, Wrong
    <2> QED
      BY <1>1, <2>2, <2>3, QuietCaller DEF Moved
  <1>6. CASE ~(content \in Contents /\ content \notin blobs)
    <2>1. Answer(c, IF content = "none" THEN "internal" ELSE content)
      BY <1>4, <1>6 DEF Reread, content
    <2>2. PICK outcome :
             /\ Moved(c, "answered", outcome)
             /\ outcome \in Contents \cup {"internal", "empty"}
                  => outcome = IF content = "none" THEN "internal" ELSE content
      BY <1>1, <2>1, AnswerMoves
    <2>3. outcome \in {"internal", "empty"} => ~Calm'
      BY <1>2, <1>4, <2>2, Names
    <2>4. DigestIsKnown => outcome \notin Wrong
      BY <1>4, <2>2, Names DEF Wrong
    <2>5. CallerOK(c)'
      BY <1>2, <2>2, <2>3, <2>4, MovedOK DEF Places
    <2> QED
      BY <1>1, <2>2, <2>5, QuietCaller DEF Moved
  <1> QED
    BY <1>5, <1>6

LEMMA PassKeeps ==
    ASSUME IInv, NEW c \in Callers, Pass(c)
    PROVE  IInv'
  <1>1. Shape /\ ~At(c, "idle") /\ Quiet
    BY DEF Pass, IInv, At, Quiet
  <1>2. Frame
    BY <1>1, QuietFrame
  <1>3. PICK reply \in {"other", "notfound"} : Answer(c, reply)
    BY DEF Pass
  <1>4. PICK outcome : /\ Moved(c, "answered", outcome)
                       /\ outcome \in Contents \cup {"internal", "empty"} => outcome = reply
    BY <1>1, <1>3, AnswerMoves
  <1>5. outcome \notin Contents \cup {"internal", "empty"}
    BY <1>3, <1>4, Names
  <1>6. CallerOK(c)'
    BY <1>2, <1>4, <1>5, MovedOK DEF Places, Wrong
  <1> QED
    BY <1>1, <1>4, <1>6, QuietCaller DEF Moved

\* A request that waits, or whose wait ends, keeps the rest of its record.
LEMMA WaitingKeeps ==
    ASSUME IInv, NEW c \in Callers, Own(Join(c)) \/ Own(Receive(c)) \/ Own(GiveUp(c)) \/ Own(Cancel(c))
    PROVE  IInv'
  <1> DEFINE k == callers[c].key
  <1>1. Shape /\ ~At(c, "idle") /\ Quiet
    BY DEF Own, Join, Receive, GiveUp, Cancel, IInv, At, Quiet
  <1>2. CallerOK(c) /\ callers[c] \in Caller /\ k \in Resources
    BY <1>1, CallerType DEF IInv, Caller
  <1>3. /\ Frame /\ (Calm' <=> Calm) /\ blobs' = blobs /\ index' = index /\ errors' = errors
        /\ started' = started /\ group' = group /\ calls' = calls
        /\ (DigestIsKnown' <=> DigestIsKnown) /\ (ServesEntry' <=> ServesEntry)
        /\ H' = H /\ coalesced' = coalesced
    BY <1>1, QuietFrame, RigidSame DEF Quiet, stored
  <1>4. Caller = [pc : Places, key : Resources, call : 0..MaxCalls,
                  outcome : Answers \cup {"none"}, cancelled : BOOLEAN, leads : BOOLEAN]
    BY DEF Caller, Places
  <1>5. callers \in [Callers -> Caller \cup {Idle}]
    BY <1>1 DEF Shape
  <1>6. ASSUME NEW r \in Caller, callers' = [callers EXCEPT ![c] = r], CallerOK(c)'
        PROVE  IInv'
    <2>1. callers' \in [Callers -> Caller \cup {Idle}] /\ \A d \in Callers \ {c} : callers'[d] = callers[d]
      BY <1>5, <1>6
    <2> QED
      BY <1>1, <1>6, <2>1, QuietCaller
  <1>7. CASE Join(c)
    <2> DEFINE i == group[k]
               r == [callers[c] EXCEPT !.pc = "waiting", !.call = i, !.leads = FALSE]
    <2>1. /\ At(c, "missed") /\ i # 0 /\ callers' = [callers EXCEPT ![c] = r]
      BY <1>7 DEF Join, WaitFor
    <2>2. i \in 1..started /\ started \in 0..MaxCalls
      BY <1>1, <1>2, <2>1, Names DEF Shape
    <2>3. Running(i) /\ calls[i].key = k
      BY <1>2, <2>1 DEF IInv, GroupOK
    <2>4. /\ r.pc = "waiting" /\ r.call = i /\ r.key = k /\ r.outcome = "none"
          /\ r \in Caller
      <3>1. i \in 0..MaxCalls
        BY <2>2, Names
      <3>2. callers[c].outcome = "none"
        BY <1>2, <2>1 DEF CallerOK
      <3> HIDE DEF i
      <3> QED
        BY <1>2, <1>4, <3>1, <3>2 DEF Places
    <2> HIDE DEF r, i
    <2>5. callers'[c] = r
      BY <1>5, <2>1
    <2>6. CallerOK(c)'
      BY <1>3, <2>2, <2>3, <2>4, <2>5, Names DEF CallerOK, At, Running, Wrong, Failures
    <2> QED
      BY <1>6, <2>1, <2>4, <2>6
  <1>8. CASE Receive(c)
    <2> DEFINE r == [callers[c] EXCEPT !.pc = "settling"]
    <2>1. /\ At(c, "waiting") /\ callers[c].outcome # "none" /\ callers' = [callers EXCEPT ![c] = r]
      BY <1>8 DEF Receive
    <2>2. /\ r.pc = "settling" /\ r.call = callers[c].call /\ r.key = k
          /\ r.outcome = callers[c].outcome /\ r \in Caller
      BY <1>2, <1>4 DEF Places
    <2> HIDE DEF r
    <2>3. callers'[c] = r
      BY <1>5, <2>1
    <2>4. CallerOK(c)'
      BY <1>2, <1>3, <2>1, <2>2, <2>3, Names DEF CallerOK, At
    <2> QED
      BY <1>6, <2>1, <2>2, <2>4
  <1>9. CASE GiveUp(c)
    <2> DEFINE r == [callers[c] EXCEPT !.pc = "settling", !.outcome = "timeout"]
    <2>1. /\ At(c, "waiting") /\ callers' = [callers EXCEPT ![c] = r]
      BY <1>9 DEF GiveUp
    <2>2. /\ r.pc = "settling" /\ r.call = callers[c].call /\ r.key = k
          /\ r.outcome = "timeout" /\ r \in Caller
      <3>1. "timeout" \in Answers
        BY DEF Answers, Outcomes
      <3> QED
        BY <1>2, <1>4, <3>1 DEF Places
    <2> HIDE DEF r
    <2>3. callers'[c] = r
      BY <1>5, <2>1
    <2>4. CallerOK(c)'
      BY <1>2, <1>3, <2>1, <2>2, <2>3, Names DEF CallerOK, At, Failures, Wrong, Outcomes
    <2> QED
      BY <1>6, <2>1, <2>2, <2>4
  <1>10. CASE Cancel(c)
    <2> DEFINE r == [callers[c] EXCEPT !.cancelled = TRUE]
    <2>1. /\ At(c, "waiting") /\ callers' = [callers EXCEPT ![c] = r]
      BY <1>10 DEF Cancel
    <2>2. /\ r.pc = callers[c].pc /\ r.call = callers[c].call /\ r.key = k
          /\ r.outcome = callers[c].outcome /\ r \in Caller
      BY <1>2, <1>4
    <2> HIDE DEF r
    <2>3. callers'[c] = r
      BY <1>5, <2>1
    <2>4. CallerOK(c)'
      BY <1>2, <1>3, <2>1, <2>2, <2>3, Names DEF CallerOK, At, Running
    <2> QED
      BY <1>6, <2>1, <2>2, <2>4
  <1> QED
    BY <1>7, <1>8, <1>9, <1>10 DEF Own

\* At most an entry or a blob is lost, or not read.
LEMMA LoseFrame ==
    ASSUME IInv, UNCHANGED <<rigid, started, errors, index, blobs>>, losses' = losses \/ Lose
    PROVE  /\ Frame /\ StoreOK' /\ (Calm' => Calm) /\ losses' \in 0..MaxLosses
  <1>1. (DigestIsKnown' <=> DigestIsKnown) /\ H' = H
    BY RigidSame
  <1>2. /\ started \in Nat /\ losses \in Nat /\ MaxLosses \in Nat /\ losses' \in 0..MaxLosses
        /\ losses' = 0 => losses = 0
    BY Names DEF IInv, Shape, Lose
  <1>3. Calm' => Calm
    BY <1>1, <1>2 DEF Calm
  <1> QED
    BY <1>1, <1>2, <1>3 DEF Frame, StoreOK, IInv

LEMMA RequestKeeps ==
    ASSUME IInv, NEW c \in Callers, Request(c)
    PROVE  IInv'
  <1>1. PICK k \in Resources : \E hit \in {index[k], "none"} :
           /\ losses' = losses \/ Lose
           /\ callers' = [callers EXCEPT ![c] =
                [pc |-> IF hit = "none" THEN "missed" ELSE "found", key |-> k, call |-> 0,
                 outcome |-> hit, cancelled |-> FALSE, leads |-> FALSE]]
    BY DEF Request
  <1>2. PICK hit \in {index[k], "none"} :
           /\ losses' = losses \/ Lose
           /\ callers' = [callers EXCEPT ![c] =
                [pc |-> IF hit = "none" THEN "missed" ELSE "found", key |-> k, call |-> 0,
                 outcome |-> hit, cancelled |-> FALSE, leads |-> FALSE]]
    BY <1>1
  <1> DEFINE r == [pc |-> IF hit = "none" THEN "missed" ELSE "found", key |-> k, call |-> 0,
                   outcome |-> hit, cancelled |-> FALSE, leads |-> FALSE]
  <1>3. /\ Shape /\ UNCHANGED <<group, calls, started, errors, rigid, index, blobs, closed, tasks>>
        /\ callers' = [callers EXCEPT ![c] = r]
    BY <1>2 DEF Request, IInv
  <1>4. Frame /\ StoreOK' /\ (Calm' => Calm) /\ losses' \in 0..MaxLosses
    BY <1>2, <1>3, LoseFrame
  <1>5. /\ hit \in Contents \cup {"none"} /\ (DigestIsKnown => hit \notin Wrong)
        /\ Calm => hit \in blobs \cup {"none"}
    BY <1>2, Names DEF IInv, Shape, StoreOK, Wrong
  <1>6. r \in Caller
    BY <1>5, Names DEF Caller, Answers, Outcomes
  <1>7. /\ r.pc = (IF hit = "none" THEN "missed" ELSE "found") /\ r.outcome = hit
    OBVIOUS
  <1> HIDE DEF r
  <1>8. /\ callers' \in [Callers -> Caller \cup {Idle}] /\ callers'[c] = r
        /\ \A d \in Callers \ {c} : callers'[d] = callers[d]
    BY <1>3, <1>6 DEF Shape
  <1>9. Shape'
    BY <1>3, <1>4, <1>8 DEF Shape, rigid
  <1>10. CallerOK(c)'
    <2>1. (DigestIsKnown' <=> DigestIsKnown) /\ blobs' = blobs
      BY <1>3, RigidSame
    <2> QED
      BY <1>4, <1>5, <1>7, <1>8, <2>1 DEF CallerOK, At
  <1>11. TaskOK(c)'
    BY <1>3, <1>4, TaskKept DEF IInv
  <1> QED
    BY <1>3, <1>4, <1>8, <1>9, <1>10, <1>11, OneCaller

LEMMA DropKeeps ==
    ASSUME IInv, NEW c \in Callers, Drop(c)
    PROVE  IInv'
  <1>1. /\ Shape /\ ~At(c, "idle") /\ At(c, "dropping") /\ CallerOK(c)
        /\ UNCHANGED <<group, calls, started, errors, rigid, blobs, losses, closed, tasks>>
        /\ index' = [index EXCEPT ![callers[c].key] = "none"]
    BY DEF Drop, IInv, At
  <1>2. ~Calm'
    BY <1>1, RigidSame DEF CallerOK, Calm
  <1>3. Frame
    BY <1>1, <1>2, Names DEF Frame, Shape
  <1>4. index' \in [Resources -> Contents \cup {"none"}]
    BY <1>1 DEF Shape
  <1>5. StoreOK'
    <2>1. DigestIsKnown' <=> DigestIsKnown
      BY <1>1, RigidSame
    <2>2. \A k \in Resources : index'[k] \in {index[k], "none"}
      BY <1>1 DEF Shape
    <2> QED
      BY <1>1, <1>2, <2>1, <2>2, Names DEF StoreOK, IInv, Wrong
  <1>6. \E pc \in {"answered", "missed"} : \E outcome :
           /\ Moved(c, pc, outcome) /\ outcome \notin Contents
           /\ pc = "missed" => outcome = "none"
    <2>1. CASE Answer(c, "empty")
      <3>1. PICK outcome : /\ Moved(c, "answered", outcome)
                           /\ outcome \in Contents \cup {"internal", "empty"} => outcome = "empty"
        BY <1>1, <2>1, AnswerMoves
      <3> QED
        BY <3>1, Names
    <2>2. CASE GoTo(c, "missed", "none")
      <3>1. Moved(c, "missed", "none")
        BY <1>1, <2>2, GoToMoves DEF Places
      <3> QED
        BY <3>1, Names
    <2> QED
      BY <2>1, <2>2 DEF Drop
  <1>7. PICK pc \in {"answered", "missed"} : \E outcome :
           /\ Moved(c, pc, outcome) /\ outcome \notin Contents
           /\ pc = "missed" => outcome = "none"
    BY <1>6
  <1>8. PICK outcome : /\ Moved(c, pc, outcome) /\ outcome \notin Contents
                       /\ pc = "missed" => outcome = "none"
    BY <1>7
  <1>9. CallerOK(c)'
    BY <1>2, <1>3, <1>8, MovedOK DEF Places, Wrong
  <1>10. Shape'
    BY <1>1, <1>4, <1>8 DEF Shape, rigid, Moved
  <1>11. TaskOK(c)'
    BY <1>1, <1>3, TaskKept DEF IInv
  <1> QED
    BY <1>1, <1>3, <1>5, <1>8, <1>9, <1>10, <1>11, OneCaller DEF Moved

LEMMA SettleKeeps ==
    ASSUME IInv, NEW c \in Callers, Settle(c)
    PROVE  IInv'
  <1> DEFINE k == callers[c].key
             outcome == callers[c].outcome
  <1>1. /\ Shape /\ ~At(c, "idle") /\ At(c, "settling") /\ CallerOK(c)
        /\ UNCHANGED <<calls, started, errors, rigid, stored, tasks>>
    BY DEF Settle, IInv, At
  <1>2. callers[c] \in Caller /\ k \in Resources
    BY <1>1, CallerType DEF Caller
  <1>3. StoreOK' /\ (Calm' => Calm) /\ blobs' = blobs /\ index' = index /\ H' = H
    BY <1>1, StoreKept, RigidSame DEF stored
  <1>4. Frame
    BY <1>1, <1>3, Names DEF Frame, Shape
  <1>5. closed' \subseteq 1..started'
    <2>1. callers[c].call \in 1..started
      BY <1>1 DEF CallerOK, At
    <2>2. closed' = closed \cup {callers[c].call} \/ closed' = closed
      BY DEF Settle
    <2> QED
      BY <1>1, <2>1, <2>2 DEF Shape
  <1>6. /\ outcome \in Outcomes /\ (errors = 0 => outcome \notin Failures)
        /\ DigestIsKnown => outcome \notin Wrong
        /\ Calm /\ outcome \in Contents => outcome \in blobs /\ (ServesEntry => index[k] # "none")
    BY <1>1 DEF CallerOK, At
  <1>7. TaskOK(c)'
    BY <1>1, <1>4, TaskKept DEF IInv
  <1>8. CASE outcome \in Contents
    <2> DEFINE pc == IF ServesEntry THEN "rereading" ELSE "serving"
    <2>1. GoTo(c, pc, outcome) /\ group' = group
      BY <1>8 DEF Settle
    <2>2. pc \in Places /\ outcome \in Answers
      BY <1>6 DEF Places, Answers
    <2>3. Moved(c, pc, outcome)
      BY <1>1, <2>1, <2>2, GoToMoves
    <2> HIDE DEF outcome
    <2>4. CallerOK(c)'
      <3>1. pc \in Places \ {"waiting", "settling"}
        BY DEF Places
      <3>2. /\ pc = "rereading" => ServesEntry
            /\ pc \in {"rereading", "serving"}
        OBVIOUS
      <3> HIDE DEF pc
      <3> QED
        BY <1>3, <1>4, <1>6, <1>8, <2>3, <3>1, <3>2, MovedOK
    <2>5. Shape'
      BY <1>1, <1>5, <2>1, <2>3 DEF Shape, rigid, stored, Moved
    <2> QED
      BY <1>1, <1>3, <1>4, <1>7, <2>1, <2>3, <2>4, <2>5, OneCaller DEF Moved
  <1>9. CASE outcome \notin Contents
    <2>1. ForgetOnDownloadError(k, outcome) /\ Answer(c, outcome)
      BY <1>9 DEF Settle
    <2>2. PICK reply : /\ Moved(c, "answered", reply)
                       /\ reply \in Contents \cup {"internal", "empty"} => reply = outcome
      BY <1>1, <2>1, AnswerMoves
    <2>3. reply \notin Contents \cup {"internal", "empty"}
      BY <1>6, <1>9, <2>2, Names DEF Outcomes, Failures
    <2>4. CallerOK(c)'
      BY <1>4, <2>2, <2>3, MovedOK DEF Places, Wrong
    <2>5. CASE group' = group
      <3>1. Shape'
        BY <1>1, <1>5, <2>2, <2>5 DEF Shape, rigid, stored, Moved
      <3> QED
        BY <1>1, <1>3, <1>4, <1>7, <2>2, <2>4, <2>5, <3>1, OneCaller DEF Moved
    <2>6. CASE group' = [group EXCEPT ![k] = 0] /\ errors' # 0
      <3>1. group' \in [Resources -> 0..started'] /\ \A j \in Resources : group'[j] \in {group[j], 0}
        <4>1. 0 \in 0..started /\ started' = started /\ group \in [Resources -> 0..started]
          BY <1>1, Names DEF Shape
        <4> HIDE DEF k
        <4> QED
          BY <2>6, <4>1
      <3>2. Shape'
        BY <1>1, <1>5, <2>2, <3>1 DEF Shape, rigid, stored, Moved
      <3>3. GroupOK'
        BY <1>1, <3>1 DEF IInv, GroupOK, Running
      <3> QED
        BY <1>1, <1>3, <1>4, <1>7, <2>2, <2>4, <2>6, <3>2, <3>3, OneCaller DEF Moved
    <2> QED
      BY <1>1, <1>6, <2>1, <2>5, <2>6 DEF ForgetOnDownloadError, Forget
  <1> QED
    BY <1>8, <1>9

LEMMA LeaveKeeps ==
    ASSUME IInv, NEW c \in Callers, Leave(c)
    PROVE  IInv'
  <1>1. /\ Shape /\ callers' = [callers EXCEPT ![c] = Idle] /\ TaskOK(c)
        /\ UNCHANGED <<group, calls, started, errors, rigid, stored, closed>>
    BY DEF Leave, IInv
  <1>2. StoreOK' /\ (Calm' => Calm) /\ blobs' = blobs /\ index' = index /\ (DigestIsKnown' <=> DigestIsKnown)
    BY <1>1, StoreKept, RigidSame DEF stored
  <1>3. Frame
    BY <1>1, <1>2, Names DEF Frame, Shape
  <1>4. /\ callers' \in [Callers -> Caller \cup {Idle}] /\ callers'[c] = Idle
        /\ \A d \in Callers \ {c} : callers'[d] = callers[d]
    BY <1>1 DEF Shape
  <1>5. CallerOK(c)'
    BY <1>4, Names DEF CallerOK, At
  <1>6. /\ tasks' \in [Callers -> Task \cup {NoTask}] /\ TaskOK(c)'
        /\ \A d \in Callers \ {c} : tasks'[d] = tasks[d]
    <2>1. CASE tasks' = tasks
      BY <1>1, <1>3, <2>1, TaskKept DEF Shape
    <2>2. CASE tasks[c] # NoTask /\ tasks' = [tasks EXCEPT ![c] = [tasks[c] EXCEPT !.file = FALSE]]
      <3> DEFINE t == [tasks[c] EXCEPT !.file = FALSE]
      <3>1. tasks[c] \in Task
        BY <1>1, <2>2 DEF Shape
      <3>2. t \in Task /\ t.pc = tasks[c].pc /\ t.got = tasks[c].got /\ t.file = FALSE
        BY <3>1 DEF Task
      <3>3. tasks' = [tasks EXCEPT ![c] = t]
        BY <2>2
      <3> HIDE DEF t
      <3>4. tasks' \in [Callers -> Task \cup {NoTask}] /\ tasks'[c] = t
            /\ \A d \in Callers \ {c} : tasks'[d] = tasks[d]
        BY <1>1, <3>2, <3>3 DEF Shape
      <3> QED
        BY <1>1, <1>2, <2>2, <3>2, <3>4 DEF TaskOK
    <2> QED
      BY <2>1, <2>2 DEF Leave, SetTask
  <1>7. Shape'
    BY <1>1, <1>4, <1>6 DEF Shape, rigid, stored
  <1> QED
    BY <1>1, <1>2, <1>3, <1>4, <1>5, <1>6, <1>7, OneCaller
-----------------------------------------------------------------------------
(* Tasks, and the downloads of requests by themselves.                     *)
LEMMA TaskSet ==
    ASSUME Shape, NEW c \in Callers, NEW t \in Task \cup {NoTask}, SetTask(c, t)
    PROVE  /\ tasks' \in [Callers -> Task \cup {NoTask}] /\ tasks'[c] = t
           /\ \A d \in Callers \ {c} : tasks'[d] = tasks[d]
  BY DEF Shape, SetTask

\* What is cached is added to, and failures are counted.
Caches ==
    /\ UNCHANGED <<started, rigid, losses, closed>>
    /\ errors' = errors \/ Fault
    /\ blobs \subseteq blobs' /\ blobs' \subseteq Contents
    /\ index' \in [Resources -> Contents \cup {"none"}]
    /\ \A k \in Resources : index[k] # "none" => index'[k] # "none"

LEMMA CachesFrame ==
    ASSUME IInv, Caches
    PROVE  /\ Frame /\ (Calm' => Calm) /\ errors' \in 0..MaxErrors
           /\ (DigestIsKnown' <=> DigestIsKnown) /\ (ServesEntry' <=> ServesEntry)
           /\ H' = H /\ coalesced' = coalesced
  <1>1. /\ (DigestIsKnown' <=> DigestIsKnown) /\ (ServesEntry' <=> ServesEntry)
        /\ H' = H /\ coalesced' = coalesced
    BY RigidSame DEF Caches
  <1>2. started \in Nat /\ errors' \in 0..MaxErrors /\ (errors' = 0 => errors = 0)
    BY Names DEF IInv, Shape, Caches, Fault
  <1>3. Calm' => Calm
    BY <1>1, <1>2 DEF Calm, Caches
  <1> QED
    BY <1>1, <1>2, <1>3 DEF Frame, Caches

LEMMA CachingStep ==
    ASSUME IInv, Caches, StoreOK', UNCHANGED <<group, calls>>,
           NEW c \in Callers, NEW t \in Task \cup {NoTask}, SetTask(c, t), TaskOK(c)',
           \/ /\ callers' = callers
              /\ At(c, "streaming") /\ t # NoTask
                   => tasks[c] # NoTask /\ t.key = tasks[c].key
           \/ \E pc, outcome : Moved(c, pc, outcome) /\ CallerOK(c)'
    PROVE  IInv'
  <1>1. Frame /\ errors' \in 0..MaxErrors /\ Shape
    BY CachesFrame DEF IInv
  <1>2. callers' \in [Callers -> Caller \cup {Idle}] /\ \A d \in Callers \ {c} : callers'[d] = callers[d]
    BY <1>1 DEF Moved, Shape
  <1>3. /\ tasks' \in [Callers -> Task \cup {NoTask}] /\ tasks'[c] = t
        /\ \A d \in Callers \ {c} : tasks'[d] = tasks[d]
    BY <1>1, TaskSet
  <1>4. Shape'
    BY <1>1, <1>2, <1>3 DEF Shape, Caches, rigid
  <1>5. CallerOK(c)'
    <2>1. CASE callers' = callers /\ (At(c, "streaming") /\ t # NoTask
                                        => tasks[c] # NoTask /\ t.key = tasks[c].key)
      BY <1>1, <1>3, <1>4, <2>1, CallerKept DEF IInv, Running
    <2> QED
      BY <2>1
  <1> QED
    BY <1>1, <1>2, <1>3, <1>4, <1>5, OneCaller

LEMMA StartDirectKeeps ==
    ASSUME IInv, NEW c \in Callers, StartDirect(c)
    PROVE  IInv'
  <1> DEFINE t == [pc |-> "fetching", key |-> callers[c].key, got |-> "none", file |-> FALSE]
  <1>1. /\ Shape /\ ~At(c, "idle") /\ (~coalesced \/ ServesEntry)
        /\ GoTo(c, "streaming", "none") /\ SetTask(c, t)
        /\ UNCHANGED <<group, calls, started, errors, rigid, stored, closed>>
    BY DEF StartDirect, IInv, At
  <1>2. Caches /\ StoreOK'
    BY <1>1, StoreKept DEF Caches, stored, Shape
  <1>3. t \in Task /\ t.key = callers[c].key /\ t.pc = "fetching" /\ t.got = "none" /\ ~t.file
    BY <1>1, CallerType DEF Caller, Task
  <1>4. Moved(c, "streaming", "none")
    BY <1>1, GoToMoves DEF Places
  <1> HIDE DEF t
  <1>5. tasks'[c] = t
    BY <1>1, <1>3, TaskSet
  <1>6. TaskOK(c)'
    BY <1>3, <1>5, Names DEF TaskOK, Wrong
  <1>7. CallerOK(c)'
    BY <1>1, <1>2, <1>3, <1>4, <1>5, CachesFrame, MovedOK, Names DEF Places, Wrong
  <1> QED
    BY <1>1, <1>2, <1>3, <1>4, <1>6, <1>7, CachingStep

\* An answer that is neither a content nor a failure of the cache.
LEMMA AnsweredOK ==
    ASSUME IInv, Caches, NEW c \in Callers, ~At(c, "idle"),
           NEW reply, Answer(c, reply), reply \notin {"internal", "empty"},
           DigestIsKnown /\ reply \in Wrong => ~coalesced /\ H.direct.streams = "first"
    PROVE  CallerOK(c)' /\ \E pc, outcome : Moved(c, pc, outcome)
  <1>1. PICK outcome : /\ Moved(c, "answered", outcome)
                       /\ outcome \in Contents \cup {"internal", "empty"} => outcome = reply
    BY AnswerMoves DEF IInv
  <1>2. CallerOK(c)'
    BY <1>1, CachesFrame, MovedOK DEF Places, Wrong
  <1> QED
    BY <1>1, <1>2

LEMMA InterruptKeeps ==
    ASSUME IInv, NEW c \in Callers, Interrupt(c)
    PROVE  IInv'
  <1>1. /\ Shape /\ ~At(c, "idle") /\ Answer(c, "timeout") /\ SetTask(c, NoTask)
        /\ UNCHANGED <<group, calls, started, errors, rigid, stored, closed>>
    BY DEF Interrupt, IInv, At
  <1>2. Caches /\ StoreOK'
    BY <1>1, StoreKept DEF Caches, stored, Shape
  <1>3. CallerOK(c)' /\ \E pc, outcome : Moved(c, pc, outcome)
    BY <1>1, <1>2, AnsweredOK, Names DEF Wrong
  <1>4. TaskOK(c)'
    BY <1>1, TaskSet DEF TaskOK
  <1> QED
    BY <1>1, <1>2, <1>3, <1>4, CachingStep

LEMMA OffersContents == Offers \subseteq Contents
  BY Names DEF Offers

LEMMA ResponseMeans ==
    ASSUME NEW status, NEW content
    PROVE  Response(status, content) \in {content, "notfound", "error"}
  BY DEF Response

LEMMA StreamKeeps ==
    ASSUME IInv, NEW c \in Callers, Stream(c)
    PROVE  IInv'
  <1>1. /\ Shape /\ ~At(c, "idle") /\ At(c, "streaming") /\ CallerOK(c)
        /\ tasks[c] \in Task /\ tasks[c] # NoTask /\ TaskOK(c) /\ tasks[c].pc = "fetching"
        /\ UNCHANGED <<group, calls, started, rigid, stored, closed>>
    BY TaskType DEF Stream, IInv, At
  <1>2. PICK status \in Statuses, content \in Offers :
         LET response == Response(status, content)
             bad == H.direct.verifies /\ ~Verified(content)
             reply == IF response \in Contents /\ bad /\ H.direct.streams = "last"
                        THEN "error" ELSE response
             next == [tasks[c] EXCEPT
                        !.pc = IF ServesEntry THEN "storing" ELSE "spooled",
                        !.got = IF H.direct.spool = "none" THEN "none" ELSE content,
                        !.file = H.direct.spool # "none"] IN
         /\ CountError(reply)
         /\ SetTask(c, IF response \in Contents /\ ~bad THEN next ELSE NoTask)
         /\ IF ServesEntry /\ response \in Contents
              THEN UNCHANGED callers ELSE Answer(c, reply)
    BY DEF Stream
  <1> DEFINE response == Response(status, content)
             bad == H.direct.verifies /\ ~Verified(content)
             reply == IF response \in Contents /\ bad /\ H.direct.streams = "last"
                        THEN "error" ELSE response
             next == [tasks[c] EXCEPT
                        !.pc = IF ServesEntry THEN "storing" ELSE "spooled",
                        !.got = IF H.direct.spool = "none" THEN "none" ELSE content,
                        !.file = H.direct.spool # "none"]
             t == IF response \in Contents /\ ~bad THEN next ELSE NoTask
  <1>3. /\ CountError(reply) /\ SetTask(c, t)
        /\ IF ServesEntry /\ response \in Contents THEN UNCHANGED callers ELSE Answer(c, reply)
    BY <1>2
  <1>4. content \in Contents /\ response \in {content, "notfound", "error"}
    BY OffersContents, ResponseMeans
  <1>5. /\ HandlerDecides(H) /\ (DigestIsKnown => H.look.digest # "none")
        /\ ServesEntry => ~DigestIsKnown
    BY <1>1, Decisions
  <1>6. /\ reply \in {content, "notfound", "error"}
        /\ DigestIsKnown /\ reply \in Wrong => H.direct.streams = "first"
        /\ DigestIsKnown /\ response \in Contents /\ ~bad => content = "good"
    BY <1>4, <1>5, Names DEF HandlerDecides, Verified, Wrong
  <1>7. /\ next \in Task /\ next.key = tasks[c].key /\ next.pc \in {"storing", "spooled"}
        /\ next.pc = "storing" \/ next.file => next.got = content
        /\ next.got \in {content, "none"}
    <2>1. ServesEntry => H.direct.spool # "none"
      BY <1>5 DEF HandlerDecides, ServesEntry
    <2> QED
      BY <1>1, <1>4, <2>1 DEF Task
  <1>8. Caches /\ StoreOK'
    <2>1. errors' = errors \/ Fault
      BY <1>3 DEF CountError, Fault
    <2>2. errors \in Nat /\ (errors' = 0 => errors = 0)
      BY <1>1, <2>1, Names DEF Shape, Fault
    <2> QED
      BY <1>1, <2>1, <2>2, StoreKept DEF Caches, stored, Shape
  <1> HIDE DEF next, reply, response, bad
  <1>9. t \in Task \cup {NoTask}
    BY <1>7
  <1>10. tasks'[c] = t
    BY <1>1, <1>3, <1>9, TaskSet
  <1>11. TaskOK(c)'
    <2>1. CASE t = next /\ response \in Contents /\ ~bad
      <3>1. t.pc \in {"storing", "indexing"} \/ t.file => t.got \in Contents
        BY <1>4, <1>7, <2>1
      <3>2. DigestIsKnown => t.got \notin Wrong
        BY <1>6, <1>7, <2>1, Names DEF Wrong
      <3>3. t.pc # "indexing"
        BY <1>7, <2>1
      <3> HIDE DEF t
      <3> QED
        BY <1>8, <1>10, <3>1, <3>2, <3>3, CachesFrame DEF TaskOK
    <2>2. CASE t = NoTask
      BY <1>10, <2>2 DEF TaskOK
    <2> QED
      BY <2>1, <2>2
  <1>12. \/ callers' = callers /\ (t # NoTask => t.key = tasks[c].key)
         \/ \E pc, outcome : Moved(c, pc, outcome) /\ CallerOK(c)'
    <2>1. CASE ServesEntry /\ response \in Contents
      BY <1>3, <1>7, <2>1
    <2>2. CASE ~(ServesEntry /\ response \in Contents)
      <3>1. DigestIsKnown /\ reply \in Wrong => ~coalesced /\ H.direct.streams = "first"
        BY <1>1, <1>5, <1>6 DEF CallerOK
      <3>2. reply \notin {"internal", "empty"} /\ Answer(c, reply)
        BY <1>3, <1>4, <1>6, <2>2, Names
      <3> QED
        BY <1>1, <1>8, <3>1, <3>2, AnsweredOK
    <2> QED
      BY <2>1, <2>2
  <1> HIDE DEF t
  <1> QED
    BY <1>1, <1>3, <1>8, <1>9, <1>11, <1>12, CachingStep

\* The end of a task: only its own request hears of it.
LEMMA EndTaskKeeps ==
    ASSUME IInv, Caches, StoreOK', UNCHANGED <<group, calls>>, NEW c \in Callers,
           tasks[c] # NoTask,
           NEW pc \in {"answered", "rereading"}, NEW reply, EndTask(c, pc, reply),
           pc = "answered" => reply = "error",
           pc = "rereading" => /\ reply \in Contents /\ (DigestIsKnown => reply \notin Wrong)
                               /\ index'[tasks[c].key] # "none"
    PROVE  IInv'
  <1>1. Shape /\ CallerOK(c) /\ SetTask(c, NoTask)
    BY DEF IInv, EndTask
  <1>2. TaskOK(c)'
    BY <1>1, TaskSet DEF TaskOK
  <1>3. CASE At(c, "streaming")
    <2>1. ~At(c, "idle") /\ GoTo(c, pc, reply) /\ tasks[c].key = callers[c].key
      BY <1>1, <1>3 DEF EndTask, CallerOK, At
    <2>2. reply \in Answers
      BY DEF Answers, Outcomes, Failures
    <2>3. Moved(c, pc, reply)
      BY <1>1, <2>1, <2>2, GoToMoves DEF Places
    <2>4. Frame
      BY CachesFrame
    <2>5. DigestIsKnown => reply \notin Wrong
      BY Names DEF Wrong
    <2>6. reply \notin {"internal", "empty"}
      BY Names
    <2>7. pc \in Places \ {"waiting", "settling"} /\ pc \notin {"found", "serving", "missed", "streaming", "dropping"}
      BY DEF Places
    <2>8. CallerOK(c)'
      BY <2>1, <2>3, <2>4, <2>5, <2>6, <2>7, MovedOK
    <2> QED
      BY <1>1, <1>2, <2>3, <2>8, CachingStep
  <1>4. CASE ~At(c, "streaming")
    <2>1. callers' = callers
      BY <1>4 DEF EndTask
    <2> QED
      BY <1>1, <1>2, <1>4, <2>1, CachingStep
  <1> QED
    BY <1>3, <1>4

LEMMA FailTaskKeeps ==
    ASSUME IInv, NEW c \in Callers, tasks[c] # NoTask,
           FailTask(c) \/ (EndTask(c, "answered", "error") /\ UNCHANGED <<errors, index, blobs>>),
           UNCHANGED <<group, calls, started, rigid, losses, closed>>
    PROVE  IInv'
  <1>1. EndTask(c, "answered", "error") /\ UNCHANGED <<index, blobs>> /\ (errors' = errors \/ Fault)
    BY DEF FailTask
  <1>2. Caches
    BY <1>1 DEF Caches, IInv, Shape
  <1>3. StoreOK'
    <2>1. (Calm' => Calm) /\ (DigestIsKnown' <=> DigestIsKnown)
      BY <1>2, CachesFrame
    <2> QED
      BY <1>1, <2>1 DEF StoreOK, IInv
  <1> QED
    BY <1>1, <1>2, <1>3, EndTaskKeeps

LEMMA OpenSpoolKeeps ==
    ASSUME IInv, NEW c \in Callers, OpenSpool(c)
    PROVE  IInv'
  <1>1. /\ Shape /\ tasks[c].pc = "spooled" /\ tasks[c] \in Task /\ tasks[c] # NoTask /\ TaskOK(c)
        /\ UNCHANGED <<group, calls, started, rigid, stored, closed>>
        /\ UNCHANGED <<index, blobs, losses>>
    BY TaskType DEF OpenSpool, IInv, stored
  <1>2. CASE FailTask(c) \/ (EndTask(c, "answered", "error") /\ UNCHANGED errors)
    BY <1>1, <1>2, FailTaskKeeps
  <1>3. CASE /\ IF H.cache = "upstream" THEN index[tasks[c].key] = "none" ELSE tasks[c].file
             /\ \E content \in IF H.cache = "upstream" THEN Offers ELSE {tasks[c].got} :
                  SetTask(c, [tasks[c] EXCEPT !.pc = "storing", !.got = content])
             /\ UNCHANGED <<callers, errors>>
    <2>1. PICK content \in IF H.cache = "upstream" THEN Offers ELSE {tasks[c].got} :
             SetTask(c, [tasks[c] EXCEPT !.pc = "storing", !.got = content])
      BY <1>3
    <2> DEFINE t == [tasks[c] EXCEPT !.pc = "storing", !.got = content]
    <2>2. content \in Contents /\ (DigestIsKnown => content \notin Wrong)
      <3>1. CASE H.cache = "upstream"
        <4>1. ~DigestIsKnown
          BY <1>1, <3>1, Decisions DEF HandlerDecides
        <4> QED
          BY <2>1, <3>1, <4>1, OffersContents
      <3>2. CASE H.cache # "upstream"
        BY <1>1, <1>3, <2>1, <3>2 DEF TaskOK
      <3> QED
        BY <3>1, <3>2
    <2>3. t \in Task /\ t # NoTask /\ t.key = tasks[c].key /\ t.pc = "storing" /\ t.got = content
      BY <1>1, <2>2, Names DEF Task
    <2>4. SetTask(c, t)
      BY <2>1
    <2> HIDE DEF t
    <2>5. Caches /\ StoreOK'
      BY <1>1, <1>3, StoreKept DEF Caches, Shape
    <2>6. tasks'[c] = t
      BY <1>1, <2>3, <2>4, TaskSet
    <2>7. TaskOK(c)'
      BY <2>2, <2>3, <2>5, <2>6, CachesFrame DEF TaskOK, Wrong
    <2> QED
      BY <1>1, <1>3, <2>3, <2>4, <2>5, <2>7, CachingStep
  <1> QED
    BY <1>2, <1>3 DEF OpenSpool

LEMMA StoreSpoolKeeps ==
    ASSUME IInv, NEW c \in Callers, StoreSpool(c)
    PROVE  IInv'
  <1>1. /\ Shape /\ tasks[c].pc = "storing" /\ tasks[c] \in Task /\ tasks[c] # NoTask /\ TaskOK(c)
        /\ UNCHANGED <<group, calls, started, rigid, losses, closed>>
    BY TaskType DEF StoreSpool, IInv
  <1>2. CASE FailTask(c)
    BY <1>1, <1>2, FailTaskKeeps
  <1>3. CASE /\ blobs' = blobs \cup {tasks[c].got}
             /\ SetTask(c, [tasks[c] EXCEPT !.pc = "indexing"])
             /\ UNCHANGED <<callers, errors, index>>
    <2> DEFINE t == [tasks[c] EXCEPT !.pc = "indexing"]
    <2>1. t \in Task /\ t # NoTask /\ t.key = tasks[c].key /\ t.got = tasks[c].got /\ t.file = tasks[c].file
      BY <1>1, Names DEF Task
    <2>2. SetTask(c, t)
      BY <1>3
    <2> HIDE DEF t
    <2>3. tasks[c].got \in Contents /\ (DigestIsKnown => tasks[c].got \notin Wrong)
      BY <1>1 DEF TaskOK
    <2>4. Caches
      BY <1>1, <1>3, <2>3 DEF Caches, Shape
    <2>5. Frame /\ (Calm' => Calm) /\ (DigestIsKnown' <=> DigestIsKnown)
      BY <2>4, CachesFrame
    <2>6. StoreOK'
      BY <1>3, <2>3, <2>5 DEF StoreOK, IInv, Wrong
    <2>7. tasks'[c] = t
      BY <1>1, <2>1, <2>2, TaskSet
    <2>8. TaskOK(c)'
      BY <1>3, <2>1, <2>3, <2>5, <2>7 DEF TaskOK, Wrong
    <2> QED
      BY <1>1, <1>3, <2>1, <2>2, <2>4, <2>6, <2>8, CachingStep
  <1> QED
    BY <1>2, <1>3 DEF StoreSpool

LEMMA IndexSpoolKeeps ==
    ASSUME IInv, NEW c \in Callers, IndexSpool(c)
    PROVE  IInv'
  <1>1. /\ Shape /\ tasks[c].pc = "indexing" /\ tasks[c] \in Task /\ tasks[c] # NoTask /\ TaskOK(c)
        /\ UNCHANGED <<group, calls, started, rigid, losses, closed>>
    BY TaskType DEF IndexSpool, IInv
  <1>2. CASE FailTask(c)
    BY <1>1, <1>2, FailTaskKeeps
  <1>3. CASE /\ index' = [index EXCEPT ![tasks[c].key] = tasks[c].got]
             /\ EndTask(c, "rereading", tasks[c].got)
             /\ UNCHANGED <<errors, blobs>>
    <2> DEFINE got == tasks[c].got
               k == tasks[c].key
    <2>1. /\ got \in Contents /\ (DigestIsKnown => got \notin Wrong) /\ (Calm => got \in blobs)
          /\ k \in Resources /\ got # "none"
      BY <1>1, Names DEF TaskOK, Task
    <2>2. index \in [Resources -> Contents \cup {"none"}]
      BY <1>1 DEF Shape
    <2>3. /\ index' = [index EXCEPT ![k] = got] /\ EndTask(c, "rereading", got)
      BY <1>3
    <2> HIDE DEF k, got
    <2>4. Caches /\ index'[k] = got /\ \A j \in Resources : index'[j] \in {index[j], got}
      BY <1>1, <1>3, <2>1, <2>2, <2>3 DEF Caches, Shape
    <2>5. Frame /\ (Calm' => Calm) /\ (DigestIsKnown' <=> DigestIsKnown)
      BY <2>4, CachesFrame
    <2>6. StoreOK'
      BY <1>3, <2>1, <2>4, <2>5 DEF StoreOK, IInv, Wrong
    <2>7. index'[tasks[c].key] # "none"
      BY <2>1, <2>4 DEF k
    <2> QED
      BY <1>1, <2>1, <2>3, <2>4, <2>6, <2>7, EndTaskKeeps
  <1> QED
    BY <1>2, <1>3 DEF IndexSpool
-----------------------------------------------------------------------------
(* Downloads.                                                              *)
CallPlaces == {"starting", "fetching", "storing", "indexing", "fetched"}

LEMMA SetCallMoves ==
    ASSUME Shape, NEW i \in CallIds, Running(i), NEW pc \in CallPlaces,
           NEW outcome \in Outcomes \cup {"none"}, SetCall(i, pc, outcome)
    PROVE  /\ calls' \in [CallIds -> Call \cup {NoCall}]
           /\ calls'[i].pc = pc /\ calls'[i].outcome = outcome /\ calls'[i].key = calls[i].key
           /\ Running(i)' /\ \A j \in CallIds \ {i} : calls'[j] = calls[j]
  <1> DEFINE r == [calls[i] EXCEPT !.pc = pc, !.outcome = outcome]
  <1>1. calls \in [CallIds -> Call \cup {NoCall}] /\ calls[i] \in Call
    BY DEF Shape, Running
  <1>2. Call = [pc : CallPlaces, key : Resources, outcome : Outcomes \cup {"none"}]
    BY DEF Call, CallPlaces
  <1>3. r \in Call /\ r.pc = pc /\ r.outcome = outcome /\ r.key = calls[i].key
    BY <1>1, <1>2
  <1>4. calls' = [calls EXCEPT ![i] = r]
    BY <1>1 DEF SetCall
  <1>5. r # NoCall
    BY <1>3, Names DEF CallPlaces
  <1> HIDE DEF r
  <1> QED
    BY <1>1, <1>3, <1>4, <1>5 DEF Running

\* A step of a download that goes on.
LEMMA DownloadStep ==
    ASSUME IInv, Caches, StoreOK', UNCHANGED <<group, callers, tasks>>,
           NEW i \in CallIds, Running(i), NEW pc \in CallPlaces,
           NEW outcome \in Outcomes \cup {"none"}, SetCall(i, pc, outcome),
           pc \in {"storing", "indexing"} => outcome \in Contents,
           pc = "fetched" => outcome # "none",
           errors' = 0 => outcome \notin Failures,
           DigestIsKnown => outcome \notin Wrong,
           Calm' => /\ pc = "indexing" => outcome \in blobs'
                    /\ pc = "fetched" /\ outcome \in Contents
                         => outcome \in blobs' /\ (ServesEntry => index'[calls[i].key] # "none")
    PROVE  IInv'
  <1>1. /\ Frame /\ errors' \in 0..MaxErrors /\ Shape /\ (errors' = 0 => errors = 0)
        /\ (DigestIsKnown' <=> DigestIsKnown) /\ (ServesEntry' <=> ServesEntry)
    BY CachesFrame DEF IInv, Frame
  <1>2. /\ calls' \in [CallIds -> Call \cup {NoCall}]
        /\ calls'[i].pc = pc /\ calls'[i].outcome = outcome /\ calls'[i].key = calls[i].key
        /\ Running(i)' /\ \A j \in CallIds \ {i} : calls'[j] = calls[j]
    BY <1>1, SetCallMoves
  <1>3. Shape'
    BY <1>1, <1>2 DEF Shape, Caches, rigid
  <1>4. ASSUME NEW j \in CallIds
        PROVE  (Running(j)' <=> Running(j)) /\ (Running(j) => calls'[j].key = calls[j].key)
    BY <1>2 DEF Running
  <1>5. GroupOK'
    <2>1. \A k \in Resources : group[k] # 0 => group[k] \in CallIds
      BY <1>1, Names DEF Shape, CallIds
    <2> QED
      BY <1>4, <2>1 DEF IInv, GroupOK
  <1>6. ASSUME NEW c \in Callers PROVE CallerOK(c)' /\ TaskOK(c)'
    <2>1. CallerOK(c) /\ TaskOK(c)
      BY DEF IInv
    <2>2. At(c, "waiting") => callers[c].call \in CallIds
      BY <1>1, <2>1, Names DEF CallerOK, At, Shape, CallIds
    <2>3. TaskOK(c)'
      BY <1>1, <2>1, TaskKept
    <2>4. CallerOK(c)'
      BY <1>1, <1>3, <1>4, <2>1, <2>2, CallerKept
    <2> QED
      BY <2>3, <2>4
  <1>7. ASSUME NEW j \in CallIds PROVE CallOK(j)'
    <2>1. CASE j # i
      BY <1>1, <1>2, <1>3, <2>1, CallKept DEF IInv
    <2>2. CASE j = i
      <3>1. i <= started /\ (errors = 0 => group[calls[i].key] = i)
        BY DEF IInv, CallOK
      <3> QED
        BY <1>1, <1>2, <2>2, <3>1 DEF CallOK, Caches
    <2> QED
      BY <2>1, <2>2
  <1> QED
    BY <1>3, <1>5, <1>6, <1>7 DEF IInv

LEMMA CacheUntouched ==
    ASSUME IInv, UNCHANGED <<started, rigid, stored, closed>>, errors' = errors \/ Fault
    PROVE  Caches /\ StoreOK'
  <1>1. UNCHANGED <<index, blobs, losses>>
    BY DEF stored
  <1>2. Caches
    BY <1>1 DEF Caches, IInv, Shape
  <1>3. (Calm' => Calm) /\ (DigestIsKnown' <=> DigestIsKnown)
    BY <1>2, CachesFrame
  <1> QED
    BY <1>1, <1>2, <1>3 DEF StoreOK, IInv

LEMMA BeginKeeps ==
    ASSUME IInv, NEW i \in CallIds, Begin(i)
    PROVE  IInv'
  <1>1. Running(i) /\ SetCall(i, "fetching", "none")
    BY CallType DEF Begin, IInv
  <1>2. Caches /\ StoreOK'
    BY CacheUntouched DEF Begin
  <1> QED
    BY <1>1, <1>2, DownloadStep, Names DEF Begin, CallPlaces, Wrong, Failures

LEMMA FetchKeeps ==
    ASSUME IInv, NEW i \in CallIds, Fetch(i)
    PROVE  IInv'
  <1>1. /\ Shape /\ Running(i)
        /\ UNCHANGED <<group, started, callers, rigid, stored, closed, tasks>>
    BY CallType DEF Fetch, IInv
  <1>2. CASE SetCall(i, "fetched", "timeout") /\ UNCHANGED errors
    <2>1. Caches /\ StoreOK'
      BY <1>1, <1>2, CacheUntouched
    <2>2. "timeout" \in Outcomes /\ "timeout" \notin Contents /\ "timeout" \notin Failures
      BY Names DEF Outcomes, Failures
    <2> QED
      BY <1>1, <1>2, <2>1, <2>2, DownloadStep DEF CallPlaces, Wrong
  <1>3. ASSUME NEW status \in Statuses, NEW content \in Offers,
               LET response == IF i \in closed THEN "error" ELSE Response(status, content)
                   bad == H.download.verifies /\ ~Verified(content)
                   outcome == IF response \in Contents /\ bad THEN "error" ELSE response IN
               /\ SetCall(i, IF outcome \in Contents THEN "storing" ELSE "fetched", outcome)
               /\ CountError(outcome)
        PROVE  IInv'
    <2> DEFINE response == IF i \in closed THEN "error" ELSE Response(status, content)
               bad == H.download.verifies /\ ~Verified(content)
               outcome == IF response \in Contents /\ bad THEN "error" ELSE response
               pc == IF outcome \in Contents THEN "storing" ELSE "fetched"
    <2>1. SetCall(i, pc, outcome) /\ CountError(outcome)
      BY <1>3
    <2>2. response \in {content, "notfound", "error"} /\ content \in Contents
      BY OffersContents, ResponseMeans
    <2>3. outcome \in Outcomes /\ (DigestIsKnown => outcome \notin Wrong)
      <3>1. outcome \in {content, "notfound", "error"}
        BY <2>2
      <3>2. DigestIsKnown /\ outcome \in Contents => content = "good" /\ outcome = content
        <4>1. DigestIsKnown => H.download.verifies
          BY <1>1, Decisions DEF HandlerDecides
        <4> QED
          BY <2>2, <4>1, Names DEF Verified
      <3> HIDE DEF outcome
      <3> QED
        BY <2>2, <3>1, <3>2 DEF Outcomes, Failures, Wrong
    <2> HIDE DEF response, outcome, bad
    <2>4. /\ outcome # "none" /\ pc \in {"storing", "fetched"}
          /\ pc = "storing" <=> outcome \in Contents
      BY <2>3, Names DEF Outcomes, Failures
    <2> HIDE DEF pc
    <2>5. errors \in Nat /\ (errors' = errors \/ Fault) /\ (errors' = 0 => outcome \notin Failures)
      BY <1>1, <2>1, Names DEF CountError, Fault, Shape
    <2>6. Caches /\ StoreOK'
      BY <1>1, <2>5, CacheUntouched
    <2> QED
      BY <1>1, <2>1, <2>3, <2>4, <2>5, <2>6, DownloadStep DEF CallPlaces
  <1> QED
    BY <1>2, <1>3 DEF Fetch

LEMMA FailCachingKeeps ==
    ASSUME IInv, NEW i \in CallIds, NEW policy, FailCaching(i, policy),
           calls[i].pc \in {"storing", "indexing"},
           UNCHANGED <<group, started, callers, rigid, losses, closed, tasks>>,
           policy # "fails" => H.download.put = "logged"
                               \/ (calls[i].pc = "indexing" /\ ~ServesEntry)
    PROVE  IInv'
  <1>1. Shape /\ Running(i) /\ CallOK(i) /\ calls[i].outcome \in Contents
    BY CallType DEF IInv, CallOK
  <1> DEFINE outcome == IF policy = "fails" THEN "error" ELSE calls[i].outcome
  <1>2. /\ SetCall(i, "fetched", outcome) /\ Fault /\ UNCHANGED <<index, blobs>>
    BY DEF FailCaching
  <1>3. Caches /\ StoreOK'
    BY <1>2, CacheUntouched DEF stored
  <1>4. errors' # 0 /\ H' = H /\ (Calm' => Calm)
    BY <1>1, <1>2, <1>3, CachesFrame, Names DEF Fault, Shape
  <1>5. outcome \in Outcomes /\ outcome # "none" /\ (DigestIsKnown => outcome \notin Wrong)
    BY <1>1, Names DEF CallOK, Outcomes, Failures, Wrong
  <1>6. Calm' /\ outcome \in Contents => outcome \in blobs' /\ ~ServesEntry
    <2>1. Calm' /\ outcome \in Contents => outcome = calls[i].outcome /\ policy # "fails"
      BY Names
    <2>2. Calm' => H.download.put # "logged"
      BY <1>4 DEF Calm
    <2> HIDE DEF outcome
    <2> QED
      BY <1>1, <1>2, <1>4, <2>1, <2>2 DEF CallOK
  <1> HIDE DEF outcome
  <1> QED
    BY <1>1, <1>2, <1>3, <1>4, <1>5, <1>6, DownloadStep DEF CallPlaces

LEMMA PutKeeps ==
    ASSUME IInv, NEW i \in CallIds, Put(i)
    PROVE  IInv'
  <1>1. /\ Shape /\ Running(i) /\ CallOK(i) /\ calls[i].pc = "storing"
        /\ calls[i].outcome \in Contents
        /\ UNCHANGED <<group, started, callers, rigid, losses, closed, tasks>>
    BY CallType DEF Put, IInv, CallOK
  <1>2. CASE FailCaching(i, H.download.put)
    <2>1. H.download.put \in {"fails", "logged"}
      BY <1>1, Decisions DEF HandlerDecides
    <2> QED
      BY <1>1, <1>2, <2>1, FailCachingKeeps
  <1>3. CASE /\ blobs' = blobs \cup {calls[i].outcome}
             /\ SetCall(i, "indexing", calls[i].outcome)
             /\ UNCHANGED <<errors, index>>
    <2>1. Caches
      BY <1>1, <1>3 DEF Caches, Shape
    <2>2. (Calm' => Calm) /\ (DigestIsKnown' <=> DigestIsKnown)
      BY <2>1, CachesFrame
    <2>3. (DigestIsKnown => calls[i].outcome \notin Wrong) /\ calls[i].outcome \notin Failures
      BY <1>1, Names DEF CallOK, Failures
    <2>4. StoreOK'
      BY <1>1, <1>3, <2>2, <2>3 DEF StoreOK, IInv, Wrong
    <2> QED
      BY <1>1, <1>3, <2>1, <2>3, <2>4, DownloadStep DEF CallPlaces, Outcomes
  <1> QED
    BY <1>2, <1>3 DEF Put

LEMMA PutIndexKeeps ==
    ASSUME IInv, NEW i \in CallIds, PutIndex(i)
    PROVE  IInv'
  <1>1. /\ Shape /\ Running(i) /\ CallOK(i) /\ calls[i].pc = "indexing"
        /\ calls[i].outcome \in Contents /\ calls[i].key \in Resources
        /\ UNCHANGED <<group, started, callers, rigid, losses, closed, tasks>>
    BY CallType DEF PutIndex, IInv, CallOK, Call
  <1>2. CASE FailCaching(i, H.download.index)
    <2>1. ServesEntry => H.download.index = "fails"
      BY <1>1, Decisions DEF HandlerDecides, ServesEntry
    <2> QED
      BY <1>1, <1>2, <2>1, FailCachingKeeps
  <1>3. CASE /\ index' = [index EXCEPT ![calls[i].key] = calls[i].outcome]
             /\ SetCall(i, "fetched", calls[i].outcome)
             /\ UNCHANGED <<errors, blobs>>
    <2> DEFINE outcome == calls[i].outcome
               k == calls[i].key
    <2>1. /\ (DigestIsKnown => outcome \notin Wrong) /\ outcome \notin Failures /\ outcome # "none"
          /\ Calm => outcome \in blobs
      BY <1>1, Names DEF CallOK, Failures
    <2>2. index \in [Resources -> Contents \cup {"none"}] /\ index' = [index EXCEPT ![k] = outcome]
      BY <1>1, <1>3 DEF Shape
    <2>3. /\ Caches /\ index'[k] = outcome
          /\ \A j \in Resources : index'[j] \in {index[j], outcome}
      <3> HIDE DEF k, outcome
      <3>1. k \in Resources /\ outcome \in Contents
        BY <1>1 DEF k, outcome
      <3> QED
        BY <1>1, <1>3, <2>1, <2>2, <3>1 DEF Caches, Shape
    <2>4. (Calm' => Calm) /\ (DigestIsKnown' <=> DigestIsKnown)
      BY <2>3, CachesFrame
    <2>5. StoreOK'
      <3> HIDE DEF k, outcome
      <3> QED
        BY <1>3, <2>1, <2>3, <2>4 DEF StoreOK, IInv
    <2> QED
      BY <1>1, <1>3, <2>1, <2>3, <2>4, <2>5, DownloadStep DEF CallPlaces, Outcomes
  <1> QED
    BY <1>2, <1>3 DEF PutIndex

LEMMA StartKeeps ==
    ASSUME IInv, NEW c \in Callers, Own(Start(c))
    PROVE  IInv'
  <1> DEFINE k == callers[c].key
             i == started + 1
             r == [callers[c] EXCEPT !.pc = "waiting", !.call = i, !.leads = TRUE]
             s == [pc |-> "starting", key |-> k, outcome |-> "none"]
  <1>1. /\ Shape /\ ~At(c, "idle") /\ At(c, "missed") /\ CallerOK(c)
        /\ UNCHANGED <<errors, rigid, stored, closed, tasks>>
        /\ group[k] = 0 /\ started < MaxCalls /\ started' = i
        /\ group' = [group EXCEPT ![k] = i] /\ calls' = [calls EXCEPT ![i] = s]
        /\ callers' = [callers EXCEPT ![c] = r]
    BY DEF Own, Start, WaitFor, IInv, At
  <1>2. callers[c] \in Caller /\ k \in Resources /\ callers[c].outcome = "none"
    BY <1>1, CallerType DEF Caller, CallerOK
  <1>3. started \in Nat /\ i \in Nat /\ MaxCalls \in Nat /\ i \in CallIds /\ i \in 1..started' /\ i # 0
    BY <1>1, Names DEF Shape, CallIds
  <1>4. /\ r \in Caller /\ r.pc = "waiting" /\ r.call = i /\ r.key = k /\ r.outcome = "none"
    <2>1. Caller = [pc : Places, key : Resources, call : 0..MaxCalls,
                    outcome : Answers \cup {"none"}, cancelled : BOOLEAN, leads : BOOLEAN]
      BY DEF Caller, Places
    <2>2. i \in 0..MaxCalls
      BY <1>3 DEF CallIds
    <2> HIDE DEF i
    <2> QED
      BY <1>2, <2>1, <2>2 DEF Places
  <1>5. /\ s \in Call /\ s # NoCall /\ s.pc = "starting" /\ s.key = k /\ s.outcome = "none"
    BY <1>2, Names DEF Call
  <1> HIDE DEF r, s, i, k
  <1>6. /\ callers' \in [Callers -> Caller \cup {Idle}] /\ callers'[c] = r
        /\ \A d \in Callers \ {c} : callers'[d] = callers[d]
    BY <1>1, <1>4 DEF Shape
  <1>7. /\ calls' \in [CallIds -> Call \cup {NoCall}] /\ calls'[i] = s
        /\ \A j \in CallIds \ {i} : calls'[j] = calls[j]
    BY <1>1, <1>3, <1>5 DEF Shape
  <1>8. /\ group' \in [Resources -> 0..started'] /\ group'[k] = i
        /\ \A j \in Resources \ {k} : group'[j] = group[j]
    <2>1. i \in 0..started' /\ started <= started'
      BY <1>1, <1>3 DEF i
    <2>2. group \in [Resources -> 0..started']
      BY <1>1, <1>3, <2>1 DEF Shape
    <2> QED
      BY <1>1, <1>2, <2>1, <2>2
  <1>9. ~Running(i)
    BY <1>3 DEF IInv, CallOK, i
  <1>11. /\ StoreOK' /\ (Calm' => Calm) /\ Frame /\ blobs' = blobs /\ index' = index
         /\ (DigestIsKnown' <=> DigestIsKnown) /\ (ServesEntry' <=> ServesEntry)
         /\ H' = H /\ coalesced' = coalesced
    <2>1. StoreOK' /\ (Calm' => Calm)
      BY <1>1, StoreKept
    <2>2. /\ blobs' = blobs /\ index' = index
          /\ (DigestIsKnown' <=> DigestIsKnown) /\ (ServesEntry' <=> ServesEntry)
          /\ H' = H /\ coalesced' = coalesced
      BY <1>1, RigidSame DEF stored
    <2> QED
      BY <1>1, <1>3, <2>1, <2>2 DEF Frame, i
  <1>12. Shape'
    <2>1. started' \in 0..MaxCalls /\ closed' \subseteq 1..started'
      BY <1>1, <1>3 DEF Shape, i
    <2> QED
      BY <1>1, <1>6, <1>7, <1>8, <2>1 DEF Shape, rigid, stored
  <1>13. GroupOK'
    <2>1. ASSUME NEW j \in Resources, group'[j] # 0
          PROVE  calls'[group'[j]] # NoCall /\ calls'[group'[j]].key = j
      <3>1. CASE j = k
        BY <1>5, <1>7, <1>8, <3>1
      <3>2. CASE j # k
        <4>1. Running(group[j]) /\ calls[group[j]].key = j /\ group'[j] = group[j]
          BY <1>8, <2>1, <3>2 DEF IInv, GroupOK
        <4>2. group[j] \in CallIds \ {i}
          BY <1>1, <1>3, <1>8, <1>9, <2>1, <4>1 DEF Shape, CallIds
        <4> QED
          BY <1>7, <4>1, <4>2 DEF Running
      <3> QED
        BY <3>1, <3>2
    <2> QED
      BY <2>1 DEF GroupOK, Running
  <1>14. ASSUME NEW d \in Callers PROVE CallerOK(d)' /\ TaskOK(d)'
    <2>1. CallerOK(d) /\ TaskOK(d)
      BY DEF IInv
    <2>2. TaskOK(d)'
      BY <1>1, <1>11, <2>1, TaskKept
    <2>3. CASE d = c
      BY <1>1, <1>3, <1>4, <1>5, <1>6, <1>7, <1>11, <2>2, <2>3, Names
         DEF CallerOK, At, Running, Wrong, Failures
    <2>4. CASE d # c
      <3>1. At(d, "waiting") => callers[d].call \in CallIds \ {i}
        BY <1>1, <1>3, <2>1, Names DEF CallerOK, At, Shape, CallIds, i
      <3>2. At(d, "waiting") => calls'[callers[d].call] = calls[callers[d].call]
        BY <1>7, <3>1
      <3> QED
        BY <1>1, <1>6, <1>11, <1>12, <2>1, <2>2, <2>4, <3>2, CallerKept DEF Running
    <2> QED
      BY <2>3, <2>4
  <1>15. ASSUME NEW j \in CallIds PROVE CallOK(j)'
    <2>1. CASE j = i
      BY <1>1, <1>3, <1>5, <1>7, <1>8, <2>1, Names DEF CallOK, Wrong, Failures
    <2>2. CASE j # i
      <3>1. CallOK(j) /\ j # 0
        BY DEF IInv, CallIds
      <3>2. Running(j) => group'[calls[j].key] = group[calls[j].key] \/ errors' # 0
        <4>1. Running(j) /\ errors = 0 => group[calls[j].key] = j /\ calls[j].key \in Resources
          BY <1>1, <3>1 DEF CallOK, Shape, Running, Call
        <4> QED
          BY <1>1, <1>8, <3>1, <4>1
      <3> QED
        BY <1>1, <1>7, <1>11, <1>12, <2>2, <3>1, <3>2, CallKept
    <2> QED
      BY <2>1, <2>2
  <1> QED
    BY <1>11, <1>12, <1>13, <1>14, <1>15 DEF IInv

LEMMA CompleteKeeps ==
    ASSUME IInv, NEW i \in CallIds, Own(Complete(i))
    PROVE  IInv'
  <1> DEFINE k == calls[i].key
             outcome == calls[i].outcome
  <1>1. /\ Shape /\ Running(i) /\ CallOK(i) /\ calls[i].pc = "fetched"
        /\ UNCHANGED <<started, errors, rigid, stored, closed, tasks>>
        /\ group' = [group EXCEPT ![k] = IF @ = i THEN 0 ELSE @]
        /\ callers' = [c \in Callers |-> IF c \in Waiters(i)
             THEN [callers[c] EXCEPT !.outcome = outcome] ELSE callers[c]]
        /\ calls' = [calls EXCEPT ![i] = NoCall]
    BY CallType DEF Own, Complete, IInv
  <1>2. k \in Resources /\ outcome \in Outcomes /\ calls[i] \in Call
    BY <1>1, CallType DEF Call, CallOK
  <1>3. /\ errors = 0 => outcome \notin Failures
        /\ DigestIsKnown => outcome \notin Wrong
        /\ Calm /\ outcome \in Contents => outcome \in blobs /\ (ServesEntry => index[k] # "none")
    BY <1>1 DEF CallOK
  <1> HIDE DEF k, outcome
  <1>4. /\ StoreOK' /\ (Calm' => Calm) /\ Frame /\ blobs' = blobs /\ index' = index
        /\ (DigestIsKnown' <=> DigestIsKnown) /\ (ServesEntry' <=> ServesEntry)
        /\ H' = H /\ coalesced' = coalesced
    <2>1. StoreOK' /\ (Calm' => Calm)
      BY <1>1, StoreKept
    <2>2. /\ blobs' = blobs /\ index' = index
          /\ (DigestIsKnown' <=> DigestIsKnown) /\ (ServesEntry' <=> ServesEntry)
          /\ H' = H /\ coalesced' = coalesced
      BY <1>1, RigidSame DEF stored
    <2>3. started \in Nat
      BY <1>1, Names DEF Shape
    <2> QED
      BY <1>1, <2>1, <2>2, <2>3 DEF Frame
  <1>5. /\ calls' \in [CallIds -> Call \cup {NoCall}] /\ ~Running(i)'
        /\ \A j \in CallIds \ {i} : calls'[j] = calls[j]
    BY <1>1 DEF Shape, Running
  <1>6. /\ group' \in [Resources -> 0..started'] /\ \A j \in Resources : group'[j] # i
        /\ \A j \in Resources : group'[j] \in {0, group[j]}
        /\ \A j \in Resources : group[j] # i => group'[j] = group[j]
    <2>1. 0 \in 0..started /\ started' = started /\ group \in [Resources -> 0..started]
      BY <1>1, Names DEF Shape
    <2>2. i # 0
      BY DEF CallIds
    <2>3. \A j \in Resources : group[j] = i => j = k
      BY <2>2 DEF IInv, GroupOK, k
    <2>4. \A j \in Resources : group'[j] = IF j = k /\ group[j] = i THEN 0 ELSE group[j]
      BY <1>1, <2>1
    <2>5. \A j \in Resources : group'[j] \in 0..started
      BY <2>1, <2>4
    <2>6. group' \in [Resources -> 0..started']
      BY <1>1, <2>1, <2>5
    <2> QED
      BY <2>2, <2>3, <2>4, <2>6
  <1>7. ASSUME NEW c \in Callers
        PROVE  /\ callers'[c] \in Caller \cup {Idle}
               /\ c \notin Waiters(i) => callers'[c] = callers[c]
               /\ c \in Waiters(i) => /\ callers'[c].pc = "waiting" /\ callers'[c].call = i
                                      /\ callers'[c].key = callers[c].key
                                      /\ callers'[c].outcome = outcome
    <2>1. CASE c \notin Waiters(i)
      BY <1>1, <2>1 DEF Shape
    <2>2. CASE c \in Waiters(i)
      <3> DEFINE r == [callers[c] EXCEPT !.outcome = outcome]
      <3>1. callers[c] \in Caller /\ callers[c].pc = "waiting" /\ callers[c].call = i
        BY <1>1, <2>2, CallerType DEF Waiters, At
      <3>2. /\ r \in Caller /\ r.pc = "waiting" /\ r.call = i /\ r.key = callers[c].key
            /\ r.outcome = outcome
        <4>1. outcome \in Answers \cup {"none"}
          BY <1>2 DEF Answers
        <4>2. Caller = [pc : Places, key : Resources, call : 0..MaxCalls,
                        outcome : Answers \cup {"none"}, cancelled : BOOLEAN, leads : BOOLEAN]
          BY DEF Caller, Places
        <4> QED
          BY <3>1, <4>1, <4>2
      <3>3. callers'[c] = r
        BY <1>1, <2>2
      <3> QED
        BY <2>2, <3>2, <3>3
    <2> QED
      BY <2>1, <2>2
  <1>8. Shape'
    <2>1. callers' \in [Callers -> Caller \cup {Idle}]
      BY <1>1, <1>7
    <2> QED
      BY <1>1, <1>5, <1>6, <2>1 DEF Shape, rigid, stored
  <1>9. GroupOK'
    <2>1. \A j \in Resources : group'[j] # 0 => group'[j] = group[j] /\ group[j] \in CallIds \ {i}
      BY <1>1, <1>6, Names DEF Shape, CallIds
    <2> QED
      BY <1>5, <2>1 DEF IInv, GroupOK, Running
  <1>10. ASSUME NEW c \in Callers PROVE CallerOK(c)' /\ TaskOK(c)'
    <2>1. CallerOK(c) /\ TaskOK(c)
      BY DEF IInv
    <2>2. TaskOK(c)'
      BY <1>1, <1>4, <2>1, TaskKept
    <2>3. CASE c \notin Waiters(i)
      <3>1. At(c, "waiting") => callers[c].call \in CallIds \ {i}
        BY <1>1, <2>1, <2>3, Names DEF CallerOK, At, Shape, CallIds, Waiters
      <3>2. At(c, "waiting") => calls'[callers[c].call] = calls[callers[c].call]
        BY <1>5, <3>1
      <3>3. callers'[c] = callers[c] /\ tasks'[c] = tasks[c]
        BY <1>1, <1>7, <2>3
      <3>4. CallerOK(c)'
        BY <1>1, <1>4, <1>8, <2>1, <3>2, <3>3, CallerKept DEF Running
      <3> QED
        BY <2>2, <3>4
    <2>4. CASE c \in Waiters(i)
      <3>1. callers[c].key = k /\ i \in 1..started
        BY <1>1, <2>1, <2>4 DEF Waiters, CallerOK, At, k
      <3>2. outcome # "none"
        BY <1>2, Names DEF Outcomes, Failures
      <3>3. /\ callers'[c].pc = "waiting" /\ callers'[c].call = i
            /\ callers'[c].key = k /\ callers'[c].outcome = outcome
        BY <1>7, <2>4, <3>1
      <3>4. CallerOK(c)'
        BY <1>1, <1>2, <1>3, <1>4, <1>5, <3>1, <3>2, <3>3 DEF CallerOK, At
      <3> QED
        BY <2>2, <3>4
    <2> QED
      BY <2>3, <2>4
  <1>11. ASSUME NEW j \in CallIds PROVE CallOK(j)'
    <2>1. CASE j = i
      BY <1>5, <2>1 DEF CallOK
    <2>2. CASE j # i
      <3>1. CallOK(j)
        BY DEF IInv
      <3>2. Running(j) => group'[calls[j].key] = group[calls[j].key] \/ errors' # 0
        <4>1. Running(j) /\ errors = 0 => group[calls[j].key] = j /\ calls[j].key \in Resources
          BY <1>1, <3>1 DEF CallOK, Shape, Running, Call
        <4> QED
          BY <1>1, <1>6, <2>2, <4>1
      <3> QED
        BY <1>1, <1>4, <1>5, <1>8, <2>2, <3>1, <3>2, CallKept
    <2> QED
      BY <2>1, <2>2
  <1> QED
    BY <1>4, <1>8, <1>9, <1>10, <1>11 DEF IInv
-----------------------------------------------------------------------------
(* What the store and the index lose.                                      *)
LEMMA LossKeeps ==
    ASSUME IInv,
           \/ \E b \in Contents : Evict(b)
           \/ \E k \in Resources : Expire(k)
    PROVE  IInv'
  <1>1. /\ Shape /\ Lose /\ UNCHANGED <<group, calls, started, callers, errors, rigid, closed, tasks>>
        /\ blobs' \subseteq blobs /\ index' \in [Resources -> Contents \cup {"none"}]
        /\ \A k \in Resources : index'[k] \in {index[k], "none"}
    BY DEF Evict, Expire, groupVars, IInv, Shape
  <1>2. losses' \in 0..MaxLosses /\ losses' # 0
    BY <1>1, Names DEF Lose, Shape
  <1>3. ~Calm'
    BY <1>2 DEF Calm
  <1>4. Frame
    BY <1>1, <1>3, Names DEF Frame, Shape
  <1>5. Shape'
    BY <1>1, <1>2 DEF Shape, rigid
  <1>6. StoreOK'
    <2>1. DigestIsKnown' <=> DigestIsKnown
      BY <1>1, RigidSame
    <2> QED
      BY <1>1, <1>3, <2>1, Names DEF StoreOK, IInv, Wrong
  <1>7. GroupOK'
    BY <1>1 DEF IInv, GroupOK, Running
  <1>8. ASSUME NEW c \in Callers PROVE CallerOK(c)' /\ TaskOK(c)'
    BY <1>1, <1>4, <1>5, CallerKept, TaskKept DEF IInv, Running
  <1>9. ASSUME NEW i \in CallIds PROVE CallOK(i)'
    BY <1>1, <1>4, <1>5, CallKept DEF IInv
  <1> QED
    BY <1>5, <1>6, <1>7, <1>8, <1>9 DEF IInv

LEMMA StutterKeeps ==
    ASSUME IInv, UNCHANGED vars
    PROVE  IInv'
  <1> USE DEF vars, groupVars, rigid, stored
  <1>1. UNCHANGED rigid /\ UNCHANGED stored /\ errors' = errors
    OBVIOUS
  <1>2. StoreOK' /\ (Calm' => Calm)
    BY <1>1, StoreKept
  <1>3. Frame
    BY <1>2, Names DEF Frame, IInv, Shape
  <1>4. Shape' /\ GroupOK'
    BY DEF IInv, Shape, GroupOK, Running
  <1>5. ASSUME NEW c \in Callers PROVE CallerOK(c)' /\ TaskOK(c)'
    BY <1>3, <1>4, CallerKept, TaskKept DEF IInv, Running
  <1>6. ASSUME NEW i \in CallIds PROVE CallOK(i)'
    BY <1>3, <1>4, CallKept DEF IInv
  <1> QED
    BY <1>2, <1>4, <1>5, <1>6 DEF IInv
-----------------------------------------------------------------------------
(* The invariant, and what it implies.                                     *)
LEMMA IInvInit == Init => IInv
  <1> SUFFICES ASSUME Init PROVE IInv
    OBVIOUS
  <1>1. Shape
    <2>1. 0 \in 0..MaxCalls /\ 0 \in 0..MaxErrors /\ 0 \in 0..MaxLosses
      BY Names
    <2>2. coalesced \in BOOLEAN /\ listed \in BOOLEAN /\ protocol \in Protocols
      BY DEF Init
    <2> QED
      BY <2>1, <2>2 DEF Init, GroupInit, Shape
  <1>2. GroupOK
    BY DEF Init, GroupInit, GroupOK
  <1>3. StoreOK
    BY Names DEF Init, StoreOK, Wrong
  <1>4. ASSUME NEW c \in Callers PROVE CallerOK(c) /\ TaskOK(c)
    <2>1. callers[c].pc = "idle" /\ tasks[c] = NoTask
      BY Names DEF Init
    <2> QED
      BY <2>1 DEF CallerOK, TaskOK, At
  <1>5. ASSUME NEW i \in CallIds PROVE CallOK(i)
    BY DEF Init, GroupInit, CallOK, Running
  <1> QED
    BY <1>1, <1>2, <1>3, <1>4, <1>5 DEF IInv

LEMMA IInvStep == IInv /\ [Next]_vars => IInv'
  <1> SUFFICES ASSUME IInv, [Next]_vars PROVE IInv'
    OBVIOUS
  <1>1. ASSUME NEW c \in Callers, Handle(c) PROVE IInv'
    <2>1. CASE Miss(c)
      <3>1. Own(Join(c)) \/ Own(Start(c))
        BY <2>1 DEF Miss, Own
      <3> QED
        BY <3>1, WaitingKeeps, StartKeeps
    <2>2. CASE Own(Receive(c)) \/ Own(GiveUp(c))
      BY <2>2, WaitingKeeps
    <2> QED
      BY <1>1, <2>1, <2>2, OpenKeeps, DropKeeps, SettleKeeps, ServeKeeps, RereadKeeps,
         LeaveKeeps DEF Handle
  <1>2. ASSUME NEW c \in Callers, Cache(c) PROVE IInv'
    BY <1>2, OpenSpoolKeeps, StoreSpoolKeeps, IndexSpoolKeeps DEF Cache
  <1>3. ASSUME NEW i \in CallIds, Download(i) \/ Fetch(i) PROVE IInv'
    BY <1>3, BeginKeeps, FetchKeeps, PutKeeps, PutIndexKeeps, CompleteKeeps DEF Download
  <1>4. ASSUME NEW c \in Callers,
               Request(c) \/ Own(Cancel(c)) \/ Pass(c) \/ StartDirect(c) \/ Stream(c) \/ Interrupt(c)
        PROVE  IInv'
    BY <1>4, RequestKeeps, WaitingKeeps, PassKeeps, StartDirectKeeps, StreamKeeps, InterruptKeeps
  <1> QED
    BY <1>1, <1>2, <1>3, <1>4, LossKeeps, StutterKeeps DEF Next

LEMMA IInvHolds == Spec => []IInv
  BY IInvInit, IInvStep, PTL DEF Spec

\* The state is well formed, and a request that waits for a download either
\* has its result or waits for one that is under way: singleflight's entry
\* of a call is gone before its waiters hear of it (downloader.go:54-88).
THEOREM TypeCorrect == Spec => []TypeOK
  <1>1. IInv => TypeOK
    <2> SUFFICES ASSUME IInv PROVE TypeOK
      OBVIOUS
    <2>1. Shape
      BY DEF IInv
    <2>2. \A i \in CallIds : Running(i) => i <= started
      BY DEF IInv, CallOK
    <2>3. \A c \in Callers : At(c, "found") \/ At(c, "serving") => callers[c].outcome \in Contents
      BY DEF IInv, CallerOK
    <2>4. WaitersWillHear
      BY DEF IInv, CallerOK, GroupOK, WaitersWillHear
    <2> QED
      BY <2>1, <2>2, <2>3, <2>4 DEF TypeOK, Shape
  <1> QED
    BY <1>1, IInvHolds, PTL

\* Until a download fails, two downloads of one resource are never under way
\* together, however many requests ask for it, give up or time out
\* (downloader.go:1-3, serve.go:119).
THEOREM OneFetch == Spec => []OneFetchUntilFailure
  <1>1. IInv => OneFetchUntilFailure
    BY DEF IInv, CallOK, OneFetchUntilFailure, OneFetchPerResource
  <1> QED
    BY <1>1, IInvHolds, PTL

\* Where a digest is known, nothing else is stored or indexed, on the path of
\* the downloads as on that of the streamed misses, and nobody who joined a
\* download is served anything else.
THEOREM Verification == Spec => []OnlyVerifiedContent
  <1>1. IInv => OnlyVerifiedContent
    <2> SUFFICES ASSUME IInv PROVE OnlyVerifiedContent
      OBVIOUS
    <2>1. DigestIsKnown => \A k \in Resources : index[k] \in {"good", "none"}
      BY DEF IInv, StoreOK, Shape, Wrong
    <2>2. DigestIsKnown => blobs \subseteq {"good"}
      BY DEF IInv, StoreOK
    <2>3. ASSUME DigestIsKnown, NEW c \in Callers, At(c, "answered"),
                 callers[c].outcome \in Contents \ {"good"}
          PROVE  ~coalesced /\ H.direct.streams = "first"
      <3>1. CallerOK(c) /\ ~At(c, "idle") /\ callers[c].outcome \in Wrong
        BY <2>3 DEF IInv, At, Wrong
      <3> QED
        BY <2>3, <3>1 DEF CallerOK
    <2> QED
      BY <2>1, <2>2, <2>3 DEF OnlyVerifiedContent
  <1> QED
    BY <1>1, IInvHolds, PTL

\* A request is answered with an internal error or with nothing only after an
\* entry or a blob was lost, or after the blob download of the registry hid
\* that it had cached nothing (serve.go:93-100, oci/handler.go:469-471).
THEOREM Service == Spec => []ServedUnlessLost
  <1>1. IInv => ServedUnlessLost
    <2> SUFFICES ASSUME IInv, NEW c \in Callers, At(c, "answered"),
                        callers[c].outcome \in {"internal", "empty"}
                 PROVE  losses > 0 \/ (H.download.put = "logged" /\ errors > 0)
      BY DEF ServedUnlessLost
    <2>1. ~Calm
      BY DEF IInv, CallerOK
    <2>2. losses \in Nat /\ errors \in Nat
      BY Names DEF IInv, Shape
    <2> QED
      BY <2>1, <2>2 DEF Calm
  <1> QED
    BY <1>1, IInvHolds, PTL
=============================================================================
