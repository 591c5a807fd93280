------------------------------ MODULE Metadata ------------------------------
(***************************************************************************)
(* What changes upstream and is cached for a time: a package's metadata    *)
(* (npm), a project page (pypi), maven-metadata.xml and the absence of an  *)
(* artifact (maven), the compact index (rubygems), a tag (oci), a version  *)
(* list (goproxy); and the records of the artifacts cached under it.       *)
(*                                                                         *)
(* A request finds a page fresh, or fetches it, is answered, and leaves    *)
(* the write to the background.  Records, and the pages that share an      *)
(* entry with them, are written by read-modify-write under the index's     *)
(* lock, which the reaper of module MetaDB does not take.  As in           *)
(* PullThrough, a handler is a record of its decisions and one protocol is *)
(* chosen at the start.                                                    *)
(***************************************************************************)
EXTENDS Integers, Sequences, FiniteSets

CONSTANTS
    Protocols, \* the handlers that an instance checks
    Clients,   \* each with at most one request or background write
    Items,     \* artifacts recorded: files, versions, other tags
    TTL,       \* how long a page is fresh and an entry is kept
    Delay,     \* timing assumption: a background write is done by then
    Lag,       \* timing assumption: the reaper is never later
    MaxRev,    \* bound on the revisions upstream
    MaxFaults  \* bound on failing reads and writes

ASSUME MetadataAssumption ==
    /\ {TTL, Delay, Lag, MaxRev, MaxFaults} \subseteq Nat
    /\ "page" \notin Items /\ "free" \notin Clients

VARIABLES
    protocol, etags, digests, \* the handler; what its upstream sends along
    rev, rewritten,           \* the upstream's revision; those that do not append
    page,    \* the cached page, or NoPage
    files,   \* the artifacts recorded
    kept,    \* since when the envelopes of the two are kept
    own,     \* entries that artifacts have beside their record
    lock,    \* the client that holds the index's lock, or "free"
    clients,
    faults

rigid == <<protocol, etags, digests>>
upstream == <<rev, rewritten>>
entry == <<page, files, kept, own, lock>>
vars == <<rigid, upstream, entry, clients, faults>>
-----------------------------------------------------------------------------
(* Requests: when a cached page is a hit, and what is asked otherwise.     *)

HandleMetadata == [hit |-> "always", asks |-> "whole"]
HandleProject == [hit |-> "until", asks |-> "whole"]
HandleMavenMetadata == [hit |-> "until", asks |-> "whole"]
TryEach == [hit |-> "until", asks |-> "whole"]
HandleVersions == [hit |-> "until", asks |-> "range"]
HandleInfo == [hit |-> "until", asks |-> "range"]
HandleSpecs == [hit |-> "until", asks |-> "etag"]
HandleGetManifest == [hit |-> "before", asks |-> "whole"]
HandleList == [hit |-> "listed", asks |-> "whole"]

(* Writes of a page: in an entry of its own, over the records in the same  *)
(* entry, or merged with them; stamped with the time of the write or of    *)
(* the response.                                                           *)

PutPackageMetadata == [stamp |-> "write", entry |-> "own"]
PutCachedProject == [stamp |-> "write", entry |-> "replaced"]
PutCachedMetadata == [stamp |-> "write", entry |-> "own"]
MarkNegative == [stamp |-> "write", entry |-> "own"]
PutVersions == [stamp |-> "response", entry |-> "own"]
PutInfo_Restamped == [stamp |-> "write", entry |-> "own"]
PutInfo == [stamp |-> "response", entry |-> "own"]
PutSpecs == [stamp |-> "write", entry |-> "own"]
CacheManifest == [stamp |-> "write", entry |-> "merged"]
NoPut == [stamp |-> "never", entry |-> "own"]

(* Records: the entries written first, and what a failing read is taken    *)
(* for.                                                                    *)

SetVersionTarballHash == [first |-> <<>>, misread |-> "empty"]
SetFileHash == [first |-> <<>>, misread |-> "empty"]
SetTagDigest == [first |-> <<>>, misread |-> "error"]
PutModuleVersion_InfoOnly == [first |-> <<"info">>, misread |-> "error"]
PutModuleVersion == [first |-> <<"info", "mod">>, misread |-> "error"]
NoRecord == [first |-> <<>>, misread |-> "never"]

Handler(look, put, record) == [look |-> look, put |-> put, record |-> record]

Handlers ==
    [npm |-> Handler(HandleMetadata, PutPackageMetadata, SetVersionTarballHash),
     pypi |-> Handler(HandleProject, PutCachedProject, SetFileHash),
     maven |-> Handler(HandleMavenMetadata, PutCachedMetadata, NoRecord),
     absence |-> Handler(TryEach, MarkNegative, NoRecord),
     versions |-> Handler(HandleVersions, PutVersions, NoRecord),
     info |-> Handler(HandleInfo, PutInfo, NoRecord),
     specs |-> Handler(HandleSpecs, PutSpecs, NoRecord),
     tag |-> Handler(HandleGetManifest, CacheManifest, SetTagDigest),
     goproxy |-> Handler(HandleList, NoPut, PutModuleVersion)]

ASSUME ProtocolsAssumption == Protocols \subseteq DOMAIN Handlers

H == Handlers[protocol]
Shared == H.put.entry # "own"
-----------------------------------------------------------------------------
NoPage == [rev |-> -1]
MaxAge == TTL + Lag + Delay + 1
Ages == 0..MaxAge

\* "whole": the content of revision rev; "old": since the upstream said so;
\* "age": since its stamp; "by": what wrote the stamp.
Pages == [rev : 0..MaxRev, whole : BOOLEAN, old : Ages, age : Ages, by : {"page", "file"}]

Idle == [pc |-> "idle"]
Client == [pc : {"fetching", "hit", "owning", "reading", "writing"}, item : Items \cup {"page"},
           got : Pages \cup {NoPage}, files : SUBSET Items, step : Nat, delay : 0..Delay]

Init ==
    /\ protocol \in Protocols
    /\ etags \in BOOLEAN /\ (H.look.asks = "whole" => etags)
    /\ digests \in BOOLEAN /\ (H.look.asks # "range" => digests)
    /\ rev = 0 /\ rewritten = {}
    /\ page = NoPage /\ files = {} /\ own = {}
    /\ kept = [page |-> 0, files |-> 0]
    /\ lock = "free"
    /\ clients = [c \in Clients |-> Idle]
    /\ faults = 0

TypeOK ==
    /\ protocol \in Protocols /\ etags \in BOOLEAN /\ digests \in BOOLEAN
    /\ rev \in 0..MaxRev /\ rewritten \subseteq 1..rev
    /\ page \in Pages \cup {NoPage} /\ files \subseteq Items
    /\ kept \in [{"page", "files"} -> 0..(TTL + Lag)]
    /\ own \subseteq Items \X {"info", "mod"}
    /\ clients \in [Clients -> Client \cup {Idle}]
    /\ lock \in Clients \cup {"free"}
    /\ lock # "free" => clients[lock].pc \in {"owning", "reading", "writing"}
    /\ faults \in 0..MaxFaults

At(c, pc) == clients[c].pc = pc
Tasks == {"owning", "reading", "writing"}
Set(c, client) == clients' = [clients EXCEPT ![c] = client]
Fault == faults < MaxFaults /\ faults' = faults + 1
Free(c) == lock \in {c, "free"}
End(c) == Set(c, Idle) /\ lock' = IF lock = c THEN "free" ELSE lock

IsHit(cached) ==
    CASE H.look.hit = "listed" -> files # {}
      [] cached = NoPage -> FALSE
      [] H.look.hit = "always" -> TRUE
      [] H.look.hit = "until" -> cached.age <= TTL
      [] H.look.hit = "before" -> cached.age < TTL
-----------------------------------------------------------------------------
(* The upstream: it appends to its page, or rewrites it.                   *)

Publish ==
    /\ rev < MaxRev
    /\ rev' = rev + 1
    /\ rewritten' \in {rewritten} \cup (IF H.look.asks = "range"
                                          THEN {rewritten \cup {rev + 1}} ELSE {})
    /\ UNCHANGED <<rigid, entry, clients, faults>>

Whole == [rev |-> rev, whole |-> TRUE, old |-> 0, age |-> 0, by |-> "page"]

\* The rest of the page appended to the cached one.
Appended(cached) ==
    [Whole EXCEPT !.whole = cached.whole /\ rewritten \cap (cached.rev + 1)..rev = {}]

CompactIndexPages_Unverified(cached) == {Whole, Appended(cached)}

\* 200, or 206 with content that agrees with the digest, if there is one.
CompactIndexPages(cached) ==
    {Whole} \cup (IF digests /\ ~Appended(cached).whole THEN {} ELSE {Appended(cached)})

\* 304: the cached page is that of now.
Confirmed(cached) ==
    IF cached = NoPage THEN NoPage ELSE [cached EXCEPT !.old = 0, !.age = 0]

\* What a response makes of the page.
Fetched(cached) ==
    IF protocol = "absence" THEN (IF rev = 0 THEN {Whole} ELSE {})
    ELSE IF H.look.asks = "whole" \/ cached = NoPage THEN {Whole}
    ELSE IF etags /\ cached.rev = rev THEN {Confirmed(cached)}
    ELSE IF H.look.asks = "range" /\ cached.rev < rev THEN CompactIndexPages(cached)
    ELSE {Whole}
-----------------------------------------------------------------------------
(* A request for the page.  An entry that cannot be read is a miss.        *)

Lookup(c) ==
    /\ At(c, "idle") /\ lock = "free"
    /\ \/ /\ IsHit(page)
          /\ Set(c, [pc |-> "hit", item |-> "page", got |-> page, files |-> {}, step |-> 0,
                     delay |-> 0])
          /\ UNCHANGED faults
       \/ \E cached \in {page, NoPage} :
            /\ IF cached = page /\ ~IsHit(page) THEN UNCHANGED faults ELSE Fault
            /\ Set(c, [pc |-> "fetching", item |-> "page", files |-> {}, step |-> 0, delay |-> 0,
                       got |-> IF H.look.asks = "whole" THEN NoPage ELSE Confirmed(cached)])
    /\ UNCHANGED <<rigid, upstream, entry>>

\* The client is answered; the page is written in the background.
Fetch(c) ==
    /\ At(c, "fetching")
    /\ \E got \in Fetched(clients[c].got) :
         IF H.put = NoPut THEN Set(c, Idle)
         ELSE Set(c, [clients[c] EXCEPT !.got = got,
                        !.pc = IF H.put.entry = "merged" THEN "reading" ELSE "writing"])
    /\ UNCHANGED <<rigid, upstream, entry, faults>>

\* No page: an error, not found, or a range that cannot be satisfied.
Refuse(c) ==
    /\ At(c, "fetching") /\ Set(c, Idle)
    /\ UNCHANGED <<rigid, upstream, entry, faults>>

Leave(c) ==
    /\ At(c, "hit") /\ Set(c, Idle)
    /\ UNCHANGED <<rigid, upstream, entry, faults>>

\* An artifact that has been cached is recorded: of pypi, one whose page was
\* found; of goproxy, a version that is not cached already.
Record(c) ==
    /\ At(c, "idle") /\ H.record # NoRecord
    /\ protocol = "pypi" => page # NoPage
    /\ \E i \in Items :
         /\ <<i, "info">> \notin own
         /\ Set(c, [pc |-> IF H.record.first # <<>> THEN "owning" ELSE "reading", item |-> i,
                    got |-> NoPage, files |-> {}, step |-> 1, delay |-> 0])
    /\ UNCHANGED <<rigid, upstream, entry, faults>>
-----------------------------------------------------------------------------
(* Background writes.                                                      *)

\* The entries of an artifact, in one critical section with its record.
PutOwn(c) ==
    LET step == clients[c].step IN
    /\ At(c, "owning") /\ Free(c)
    /\ lock' = c
    /\ own' = own \cup {<<clients[c].item, H.record.first[step]>>}
    /\ Set(c, IF step < Len(H.record.first) THEN [clients[c] EXCEPT !.step = @ + 1]
              ELSE [clients[c] EXCEPT !.pc = "reading", !.step = 1])
    /\ UNCHANGED <<rigid, upstream, page, files, kept, faults>>

\* A record is added to a copy of the page and of the records, a page to one
\* of the records only.
Copy(c, thePage, theFiles) ==
    Set(c, [clients[c] EXCEPT !.pc = "writing", !.files = theFiles,
              !.got = IF clients[c].item = "page" THEN clients[c].got
                      ELSE IF Shared THEN thePage ELSE NoPage])

Read_Unlocked(c) ==
    /\ At(c, "reading")
    /\ Copy(c, page, files)
    /\ UNCHANGED <<rigid, upstream, entry, faults>>

Read(c) ==
    /\ At(c, "reading") /\ Free(c)
    /\ \/ /\ Copy(c, page, files) /\ lock' = c /\ UNCHANGED faults
       \/ /\ H.record.misread = "empty" /\ Fault
          /\ Copy(c, NoPage, {}) /\ lock' = c
    /\ UNCHANGED <<rigid, upstream, page, files, kept, own>>

\* The page in an entry that a record of i is added to.
Restamped(copy) ==
    IF protocol # "pypi" THEN copy
    ELSE IF copy = NoPage THEN [Whole EXCEPT !.whole = FALSE, !.by = "file"]
    ELSE [copy EXCEPT !.age = 0, !.by = "file"]

Write(c) ==
    LET mine == clients[c]
        stamped == IF H.put.stamp = "write" THEN [mine.got EXCEPT !.age = 0] ELSE mine.got IN
    /\ At(c, "writing") /\ Free(c)
    /\ IF mine.item = "page"
         THEN /\ page' = stamped
              /\ files' = CASE H.put.entry = "own" -> files
                            [] H.put.entry = "replaced" -> {}
                            [] H.put.entry = "merged" -> mine.files
              /\ kept' = IF Shared THEN [page |-> 0, files |-> 0]
                         ELSE [kept EXCEPT !["page"] = 0]
         ELSE /\ page' = IF Shared THEN Restamped(mine.got) ELSE page
              /\ files' = mine.files \cup {mine.item}
              /\ kept' = IF Shared THEN [page |-> 0, files |-> 0]
                         ELSE [kept EXCEPT !["files"] = 0]
    /\ End(c)
    /\ UNCHANGED <<rigid, upstream, own, faults>>

\* A write fails, or a read whose error is returned.
Fail(c) ==
    /\ clients[c].pc \in Tasks /\ Free(c) /\ Fault
    /\ At(c, "reading") => H.record.misread = "error"
    /\ End(c)
    /\ UNCHANGED <<rigid, upstream, page, files, kept, own>>
-----------------------------------------------------------------------------
(* Time.                                                                   *)

Older(p) ==
    IF p = NoPage THEN p
    ELSE [p EXCEPT !.old = IF @ < MaxAge THEN @ + 1 ELSE @,
                   !.age = IF @ < MaxAge THEN @ + 1 ELSE @]

HasEntry(e) == IF Shared THEN page # NoPage \/ files # {}
               ELSE IF e = "page" THEN page # NoPage ELSE files # {}

\* A revalidated page is dated by its response, a page that is served now.
Tick ==
    /\ \A c \in Clients : clients[c].pc \in Tasks => clients[c].delay < Delay
    /\ \A c \in Clients : ~At(c, "hit")
    /\ \A e \in DOMAIN kept : HasEntry(e) => kept[e] < TTL + Lag
    /\ page' = Older(page)
    /\ kept' = [e \in DOMAIN kept |-> IF HasEntry(e) THEN kept[e] + 1 ELSE 0]
    /\ clients' = [c \in Clients |->
         IF clients[c].pc \in Tasks
           THEN [clients[c] EXCEPT !.delay = @ + 1, !.got = Older(@)] ELSE clients[c]]
    /\ UNCHANGED <<rigid, upstream, files, own, lock, faults>>

\* The reaper; a page and records in one entry go together.
Reap(e) ==
    /\ HasEntry(e) /\ kept[e] > TTL
    /\ page' = IF Shared \/ e = "page" THEN NoPage ELSE page
    /\ files' = IF Shared \/ e = "files" THEN {} ELSE files
    /\ kept' = [d \in DOMAIN kept |-> IF Shared \/ d = e THEN 0 ELSE kept[d]]
    /\ UNCHANGED <<rigid, upstream, own, lock, clients, faults>>

Next ==
    \/ Publish \/ Tick
    \/ \E c \in Clients :
         \/ Lookup(c) \/ Fetch(c) \/ Refuse(c) \/ Leave(c) \/ Record(c)
         \/ PutOwn(c) \/ Read(c) \/ Write(c) \/ Fail(c)
    \/ \E e \in {"page", "files"} : Reap(e)

Spec == Init /\ [][Next]_vars
-----------------------------------------------------------------------------
(* Properties.                                                             *)

\* How much longer than TTL a page may be served: it is dated by its
\* response, or by its write, or is served until the reaper has come.
Slack ==
    CASE protocol \in {"versions", "info"} -> 0
      [] protocol = "npm" -> Delay + Lag
      [] OTHER -> Delay

\* A hit is not older than the TTL, by more than writes and reaper are late,
\* whatever late writes and revalidations overtake each other; except that
\* SetFileHash has dated the project page anew (pypi/index.go:109).
HitIsRecent ==
    \A c \in Clients :
        At(c, "hit") /\ clients[c].got # NoPage /\ clients[c].got.by = "page"
            => clients[c].got.old <= TTL + Slack

\* The compact index is never glued together from two revisions, as long as
\* the upstream sends its digest or only appends (rubygems/handler.go:201-211);
\* and no page is a part of one, but of a project whose page had gone when
\* SetFileHash created it (pypi/index.go:86-93).  The types hold, too.
PagesAreWhole ==
    /\ TypeOK
    /\ page # NoPage /\ ~page.whole => page.by = "file" \/ (~digests /\ rewritten # {})

\* A record goes only with its entry, with a project page that replaces it,
\* or when a failing read has been taken for no entry: writers of other
\* records never undo it (npm/index.go:114-146, oci/index.go:62-95).
RecordsKept ==
    [][files \subseteq files' \/ (\E e \in {"page", "files"} : Reap(e))
       \/ (protocol = "pypi" /\ page' # NoPage /\ page'.by = "page")
       \/ (faults > 0 /\ H.record.misread = "empty") ]_vars

\* A version is listed only after its info and its go.mod are cached, which
\* do not expire: what the list names is served (goproxy/index.go:103-128).
ListedIsCached ==
    protocol = "goproxy" =>
        \A i \in files : {i} \X {"info", "mod"} \subseteq own

\* A project page served from the cache is not older than its TTL
\* (server/http.go:90), by more than its write was late.
ProjectPageIsRecent ==
    \A c \in Clients :
        At(c, "hit") /\ clients[c].got # NoPage => clients[c].got.old <= TTL + Slack
=============================================================================
