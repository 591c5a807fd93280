--------------------------- MODULE MetadataProofs ---------------------------
(***************************************************************************)
(* Proofs about module Metadata, for every set of handlers, clients and    *)
(* artifacts and every timing.  The invariant says of each request and     *)
(* background write what its copies of the page and of the records are     *)
(* worth, and of whoever writes records that it holds the lock.            *)
(***************************************************************************)
EXTENDS Metadata, TLAPS

\* A page that is a part of one has been created for a file's record, or
\* glued together from two revisions that nothing tells apart.
PageOK(p) ==
    p # NoPage =>
        /\ p.by = "file" => protocol = "pypi"
        /\ ~p.whole => p.by = "file" \/ (~digests /\ rewritten # {})

\* A page is younger than its stamp says by what its write took at most.
Dated(p) ==
    p # NoPage /\ p.by = "page" =>
        p.old <= p.age + (IF H.put.stamp = "response" THEN 0 ELSE Delay)

Owned(i) == {i} \X {"info", "mod"} \subseteq own

Misread == faults # 0 /\ H.record.misread = "empty"

ClientOK(c) ==
    LET mine == clients[c]
        got == clients[c].got
        writes == clients[c].pc \in Tasks IN
    mine # Idle =>
        /\ PageOK(got)
        /\ mine.pc = "fetching" => mine.item = "page"
        /\ mine.pc = "owning" =>
             /\ mine.item # "page" /\ mine.step \in 1..Len(H.record.first)
             /\ mine.step = 2 => <<mine.item, "info">> \in own
        /\ protocol = "goproxy" =>
             /\ got = NoPage /\ \A i \in mine.files : Owned(i)
             /\ writes => mine.item # "page"
             /\ mine.pc \in {"reading", "writing"} => Owned(mine.item)
        /\ writes /\ mine.item = "page" =>
             /\ got # NoPage /\ got.by = "page" /\ got.old <= mine.delay
             /\ H.put.stamp = "response" => got.old <= got.age
        /\ writes /\ mine.item # "page" => Dated(got)
        /\ mine.pc = "writing" /\ (mine.item # "page" \/ H.put.entry = "merged")
             => lock = c /\ (files \subseteq mine.files \/ Misread)
        /\ mine.pc = "hit" /\ got # NoPage /\ got.by = "page" => got.old <= TTL + Slack

PageInv ==
    /\ PageOK(page) /\ Dated(page)
    /\ protocol = "npm" /\ page # NoPage => page.old <= kept["page"] + Delay
    /\ protocol = "goproxy" => page = NoPage

IInv ==
    /\ TypeOK /\ PageInv /\ ListedIsCached
    /\ \A c \in Clients : ClientOK(c)
-----------------------------------------------------------------------------
(* The decisions of the handlers on which the invariants rest.             *)
HandlerDecides(p, h) ==
    /\ h.put.entry \in {"own", "replaced", "merged"}
    /\ h.put.stamp \in {"write", "response", "never"}
    /\ h.look.hit \in {"always", "until", "before", "listed"}
    /\ h.put.entry = "replaced" <=> p = "pypi"
    /\ h.put.stamp = "response" <=> p \in {"versions", "info"}
    /\ h.put.stamp = "never" <=> p = "goproxy"
    /\ h.put = NoPut <=> p = "goproxy"
    /\ h.look.hit = "listed" <=> p = "goproxy"
    /\ h.look.hit = "always" <=> p = "npm"
    /\ p \in {"goproxy", "npm"} => h.put.entry = "own"
    /\ p = "pypi" => h.look.asks = "whole"
    /\ h.record.first = IF p = "goproxy" THEN <<"info", "mod">> ELSE <<>>

LEMMA HandlersDecide == \A p \in DOMAIN Handlers : HandlerDecides(p, Handlers[p])
  <1> USE DEF Handler, HandlerDecides, NoPut, NoRecord
  <1>1. HandlerDecides("npm", Handlers["npm"])
    BY DEF Handlers, HandleMetadata, PutPackageMetadata, SetVersionTarballHash
  <1>2. HandlerDecides("pypi", Handlers["pypi"])
    BY DEF Handlers, HandleProject, PutCachedProject, SetFileHash
  <1>3. HandlerDecides("maven", Handlers["maven"])
    BY DEF Handlers, HandleMavenMetadata, PutCachedMetadata
  <1>4. HandlerDecides("absence", Handlers["absence"])
    BY DEF Handlers, TryEach, MarkNegative
  <1>5. HandlerDecides("versions", Handlers["versions"])
    BY DEF Handlers, HandleVersions, PutVersions
  <1>6. HandlerDecides("info", Handlers["info"])
    BY DEF Handlers, HandleInfo, PutInfo
  <1>7. HandlerDecides("specs", Handlers["specs"])
    BY DEF Handlers, HandleSpecs, PutSpecs
  <1>8. HandlerDecides("tag", Handlers["tag"])
    BY DEF Handlers, HandleGetManifest, CacheManifest, SetTagDigest
  <1>9. HandlerDecides("goproxy", Handlers["goproxy"])
    BY DEF Handlers, HandleList, PutModuleVersion
  <1>10. DOMAIN Handlers
           = {"npm", "pypi", "maven", "absence", "versions", "info", "specs", "tag", "goproxy"}
    BY DEF Handlers
  <1> QED
    BY <1>1, <1>2, <1>3, <1>4, <1>5, <1>6, <1>7, <1>8, <1>9, <1>10

LEMMA Decisions ==
    ASSUME TypeOK
    PROVE  HandlerDecides(protocol, H)
  BY HandlersDecide, ProtocolsAssumption DEF TypeOK, H

LEMMA Names ==
    /\ Idle.pc = "idle" /\ NoPage \notin Pages
    /\ "page" \notin Items /\ "free" \notin Clients
    /\ TTL \in Nat /\ Delay \in Nat /\ Lag \in Nat /\ MaxRev \in Nat /\ MaxFaults \in Nat
    /\ MaxAge \in Nat /\ MaxAge = TTL + Lag + Delay + 1
  <1>1. TTL \in Nat /\ Delay \in Nat /\ Lag \in Nat /\ MaxRev \in Nat /\ MaxFaults \in Nat
    BY MetadataAssumption
  <1>2. NoPage \notin Pages
    <2>1. NoPage.rev = -1
      BY DEF NoPage
    <2>2. \A p \in Pages : p.rev \in 0..MaxRev
      BY DEF Pages
    <2> QED
      BY <1>1, <2>1, <2>2
  <1> QED
    BY <1>1, <1>2, MetadataAssumption DEF Idle, MaxAge

LEMMA RigidSame ==
    ASSUME UNCHANGED rigid
    PROVE  protocol' = protocol /\ etags' = etags /\ digests' = digests
           /\ H' = H /\ (Shared' <=> Shared) /\ Slack' = Slack
  BY DEF rigid, H, Shared, Slack

LEMMA SlackType == Slack \in Nat
  BY Names DEF Slack
-----------------------------------------------------------------------------
(* What every step leaves as it is.                                        *)
Frame ==
    /\ UNCHANGED rigid
    /\ rewritten \subseteq rewritten' /\ own \subseteq own'
    /\ faults # 0 => faults' # 0

LEMMA ClientKept ==
    ASSUME Frame, NEW c \in Clients, ClientOK(c), clients'[c] = clients[c],
           lock = c => lock' = c /\ files' \subseteq files
    PROVE  ClientOK(c)'
  <1>1. protocol' = protocol /\ digests' = digests /\ H' = H /\ Slack' = Slack
    BY RigidSame DEF Frame
  <1>2. PageOK(clients[c].got) => PageOK(clients[c].got)'
    BY <1>1 DEF PageOK, Frame
  <1>3. Dated(clients[c].got) => Dated(clients[c].got)'
    BY <1>1 DEF Dated
  <1>4. /\ \A i : Owned(i) => Owned(i)'
        /\ Misread => Misread'
    BY <1>1 DEF Misread, Owned, Frame
  <1> QED
    BY <1>1, <1>2, <1>3, <1>4 DEF ClientOK, Frame

\* The cached page stays.
LEMMA PageKept ==
    ASSUME IInv, Frame, page' = page, kept' = kept
    PROVE  PageInv'
  <1>1. protocol' = protocol /\ digests' = digests /\ H' = H
    BY RigidSame DEF Frame
  <1>2. PageOK(page)'
    BY <1>1 DEF PageOK, Frame, IInv, PageInv
  <1>3. Dated(page)'
    BY <1>1 DEF Dated, IInv, PageInv
  <1> QED
    BY <1>1, <1>2, <1>3 DEF PageInv, IInv

\* A step of one client that takes, holds or leaves alone the lock.
LEMMA OneClient ==
    ASSUME IInv, Frame, TypeOK', PageInv', ListedIsCached', NEW c \in Clients,
           \A d \in Clients \ {c} : clients'[d] = clients[d],
           lock \in {c, "free"} \/ (lock' = lock /\ files' \subseteq files),
           ClientOK(c)'
    PROVE  IInv'
  <1>1. ASSUME NEW d \in Clients PROVE ClientOK(d)'
    <2>1. CASE d # c
      <3>1. ClientOK(d) /\ clients'[d] = clients[d]
        BY <2>1 DEF IInv
      <3>2. lock = d => lock' = d /\ files' \subseteq files
        BY <2>1, Names
      <3> QED
        BY <3>1, <3>2, ClientKept
    <2> QED
      BY <2>1
  <1> QED
    BY <1>1 DEF IInv

LEMMA ClientSet ==
    ASSUME TypeOK, NEW c \in Clients, NEW r \in Client \cup {Idle}, Set(c, r)
    PROVE  /\ clients' \in [Clients -> Client \cup {Idle}] /\ clients'[c] = r
           /\ \A d \in Clients \ {c} : clients'[d] = clients[d]
  BY DEF TypeOK, Set

LEMMA ClientType ==
    ASSUME TypeOK, NEW c \in Clients, ~At(c, "idle")
    PROVE  clients[c] \in Client /\ clients[c] # Idle
  BY Names DEF TypeOK, At

\* A request, which holds no lock, goes on; nothing is written.
LEMMA ReadsOnly ==
    ASSUME IInv, NEW c \in Clients, NEW r \in Client \cup {Idle}, Set(c, r),
           clients[c].pc \notin Tasks,
           UNCHANGED <<rigid, upstream, entry>>, faults' = faults \/ Fault,
           ClientOK(c)'
    PROVE  IInv'
  <1>1. TypeOK /\ UNCHANGED <<rev, rewritten, page, files, kept, own, lock>>
    BY DEF upstream, entry, IInv
  <1>2. /\ clients' \in [Clients -> Client \cup {Idle}] /\ clients'[c] = r
        /\ \A d \in Clients \ {c} : clients'[d] = clients[d]
    BY <1>1, ClientSet
  <1>3. faults \in Nat /\ faults' \in 0..MaxFaults /\ (faults # 0 => faults' # 0)
    BY <1>1, Names DEF TypeOK, Fault
  <1>4. Frame
    BY <1>1, <1>3 DEF Frame
  <1>5. TypeOK'
    <2>1. lock # "free" => lock \in Clients \ {c}
      BY <1>1 DEF TypeOK, Tasks
    <2> QED
      BY <1>1, <1>2, <1>3, <2>1 DEF TypeOK, rigid
  <1>6. PageInv'
    BY <1>1, <1>4, PageKept
  <1>7. ListedIsCached'
    BY <1>1, RigidSame DEF IInv, ListedIsCached
  <1> QED
    BY <1>1, <1>2, <1>4, <1>5, <1>6, <1>7, OneClient
-----------------------------------------------------------------------------
(* Requests.                                                               *)

\* What a hit rests on: the stamp, or for npm the reaper.
LEMMA HitRecent ==
    ASSUME IInv, IsHit(page), page # NoPage, page.by = "page"
    PROVE  page.old <= TTL + Slack
  <1>1. TypeOK /\ HandlerDecides(protocol, H)
    BY Decisions DEF IInv
  <1>2. page \in Pages /\ page.old \in Nat /\ page.age \in Nat
    BY <1>1, Names DEF TypeOK, Pages, Ages
  <1>3. protocol # "goproxy" /\ Dated(page)
    BY DEF IInv, PageInv
  <1>4. H.look.hit \in {"always", "until", "before"}
    BY <1>1, <1>3 DEF HandlerDecides
  <1>5. CASE H.look.hit = "always"
    <2>1. protocol = "npm"
      BY <1>1, <1>5 DEF HandlerDecides
    <2>2. page.old <= kept["page"] + Delay /\ kept["page"] \in 0..(TTL + Lag)
      BY <1>1, <2>1 DEF IInv, PageInv, TypeOK
    <2>3. Slack = Delay + Lag
      BY <2>1 DEF Slack
    <2> QED
      BY <1>2, <2>2, <2>3, Names
  <1>6. CASE H.look.hit \in {"until", "before"}
    <2>1. page.age <= TTL
      <3>1. CASE H.look.hit = "until"
        BY <3>1 DEF IsHit
      <3>2. CASE H.look.hit = "before"
        <4>1. page.age < TTL
          BY <3>2 DEF IsHit
        <4> QED
          BY <1>2, <4>1, Names
      <3> QED
        BY <1>6, <3>1, <3>2
    <2>2. page.old <= page.age + (IF protocol \in {"versions", "info"} THEN 0 ELSE Delay)
      BY <1>1, <1>3 DEF Dated, HandlerDecides
    <2>3. protocol # "npm"
      BY <1>1, <1>6 DEF HandlerDecides
    <2>4. Slack = IF protocol \in {"versions", "info"} THEN 0 ELSE Delay
      BY <2>3 DEF Slack
    <2> QED
      BY <1>2, <2>1, <2>2, <2>4, Names
  <1> QED
    BY <1>4, <1>5, <1>6

Stages == {"fetching", "hit", "owning", "reading", "writing"}

LEMMA ClientRecords ==
    Client = [pc : Stages, item : Items \cup {"page"}, got : Pages \cup {NoPage},
              files : SUBSET Items, step : Nat, delay : 0..Delay]
  BY DEF Client, Stages

\* A page is a response's: of now, and whole or marked.
IsResponse(p) == p \in Pages /\ p.by = "page" /\ p.old = 0 /\ p.age = 0

LEMMA WholeIsResponse ==
    ASSUME TypeOK
    PROVE  IsResponse(Whole) /\ Whole.whole = TRUE
  BY Names DEF TypeOK, IsResponse, Whole, Pages, Ages

LEMMA AppendedIsResponse ==
    ASSUME TypeOK, NEW cached \in Pages
    PROVE  /\ IsResponse(Appended(cached))
           /\ Appended(cached).whole <=> cached.whole /\ rewritten \cap (cached.rev + 1)..rev = {}
  <1> DEFINE whole == cached.whole /\ rewritten \cap (cached.rev + 1)..rev = {}
  <1>1. whole \in BOOLEAN /\ IsResponse(Whole)
    BY WholeIsResponse DEF Pages
  <1>2. Appended(cached) = [Whole EXCEPT !.whole = whole]
    BY DEF Appended
  <1> HIDE DEF whole
  <1>3. /\ Appended(cached) \in Pages /\ Appended(cached).by = Whole.by
        /\ Appended(cached).old = Whole.old /\ Appended(cached).age = Whole.age
        /\ Appended(cached).whole = whole
    BY <1>1, <1>2 DEF IsResponse, Pages
  <1>4. IsResponse(Appended(cached))
    BY <1>1, <1>3 DEF IsResponse
  <1> QED
    BY <1>3, <1>4 DEF whole

LEMMA ConfirmedPage ==
    ASSUME NEW cached \in Pages
    PROVE  /\ Confirmed(cached) \in Pages /\ Confirmed(cached).by = cached.by
           /\ Confirmed(cached).whole = cached.whole
           /\ Confirmed(cached).old = 0 /\ Confirmed(cached).age = 0
  <1>1. 0 \in Ages /\ Confirmed(cached) = [cached EXCEPT !.old = 0, !.age = 0]
    BY Names DEF Confirmed, Ages
  <1> QED
    BY <1>1 DEF Pages

LEMMA FetchedPage ==
    ASSUME TypeOK, NEW cached \in Pages \cup {NoPage}, PageOK(cached),
           NEW got \in Fetched(cached)
    PROVE  IsResponse(got) /\ PageOK(got)
  <1>1. CASE got = Whole
    BY <1>1, WholeIsResponse DEF PageOK, IsResponse
  <1>2. CASE got # Whole
    <2>1. cached \in Pages /\ cached # NoPage /\ H.look.asks # "whole"
      BY <1>2, Names DEF Fetched
    <2>2. cached.by = "page" /\ (~cached.whole => ~digests /\ rewritten # {})
      <3>1. protocol # "pypi"
        BY <2>1, Decisions DEF HandlerDecides
      <3> QED
        BY <2>1, <3>1 DEF PageOK, Pages
    <2>3. got = Confirmed(cached) \/ got \in CompactIndexPages(cached)
      BY <1>2, <2>1 DEF Fetched
    <2>4. CASE got = Confirmed(cached)
      BY <2>1, <2>2, <2>4, ConfirmedPage DEF IsResponse, PageOK
    <2>5. CASE got \in CompactIndexPages(cached)
      <3>1. got = Appended(cached) /\ ~(digests /\ ~Appended(cached).whole)
        BY <1>2, <2>5 DEF CompactIndexPages
      <3>2. IsResponse(got)
        BY <2>1, <3>1, AppendedIsResponse
      <3>3. ~got.whole => ~digests /\ rewritten # {}
        BY <2>1, <2>2, <3>1, AppendedIsResponse
      <3> QED
        BY <3>2, <3>3 DEF PageOK, IsResponse
    <2> QED
      BY <2>3, <2>4, <2>5
  <1> QED
    BY <1>1, <1>2

LEMMA LookupKeeps ==
    ASSUME IInv, NEW c \in Clients, Lookup(c)
    PROVE  IInv'
  <1>1. /\ TypeOK /\ clients[c].pc = "idle" /\ clients[c].pc \notin Tasks
        /\ UNCHANGED <<rigid, upstream, entry>>
    BY DEF Lookup, IInv, At, Tasks
  <1>2. /\ protocol' = protocol /\ digests' = digests /\ H' = H /\ Slack' = Slack
        /\ rewritten' = rewritten
    BY <1>1, RigidSame DEF upstream
  <1>3. ASSUME NEW got \in Pages \cup {NoPage}, NEW pc \in {"hit", "fetching"}, PageOK(got),
               protocol = "goproxy" => got = NoPage,
               pc = "hit" /\ got # NoPage /\ got.by = "page" => got.old <= TTL + Slack,
               Set(c, [pc |-> pc, item |-> "page", got |-> got, files |-> {}, step |-> 0,
                       delay |-> 0]),
               faults' = faults \/ Fault
        PROVE  IInv'
    <2> DEFINE r == [pc |-> pc, item |-> "page", got |-> got, files |-> {}, step |-> 0,
                     delay |-> 0]
    <2>1. /\ r \in Client /\ r.pc = pc /\ r.got = got /\ r.files = {} /\ r.item = "page"
      BY ClientRecords, Names DEF Stages
    <2>2. Set(c, r)
      BY <1>3
    <2> HIDE DEF r
    <2>3. clients'[c] = r
      BY <1>1, <2>1, <2>2, ClientSet
    <2>4. ClientOK(c)'
      BY <1>2, <1>3, <2>1, <2>3 DEF ClientOK, PageOK, Tasks
    <2> QED
      BY <1>1, <1>3, <2>1, <2>2, <2>4, ReadsOnly
  <1>4. page \in Pages \cup {NoPage} /\ PageOK(page) /\ (protocol = "goproxy" => page = NoPage)
    BY <1>1 DEF IInv, PageInv, TypeOK
  <1>5. CASE /\ IsHit(page)
             /\ Set(c, [pc |-> "hit", item |-> "page", got |-> page, files |-> {}, step |-> 0,
                        delay |-> 0])
             /\ UNCHANGED faults
    BY <1>3, <1>4, <1>5, HitRecent
  <1>6. ASSUME NEW cached \in {page, NoPage}, faults' = faults \/ Fault,
               Set(c, [pc |-> "fetching", item |-> "page", files |-> {}, step |-> 0, delay |-> 0,
                       got |-> IF H.look.asks = "whole" THEN NoPage ELSE Confirmed(cached)])
        PROVE  IInv'
    <2> DEFINE got == IF H.look.asks = "whole" THEN NoPage ELSE Confirmed(cached)
    <2>1. got \in Pages \cup {NoPage} /\ PageOK(got) /\ (protocol = "goproxy" => got = NoPage)
      <3>1. CASE cached = NoPage
        BY <3>1 DEF Confirmed, PageOK
      <3>2. CASE cached # NoPage
        <4>1. cached = page /\ page \in Pages /\ protocol # "goproxy"
          BY <1>4, <1>6, <3>2
        <4>2. PageOK(Confirmed(page))
          BY <1>4, <3>2, <4>1, ConfirmedPage DEF PageOK
        <4> QED
          BY <4>1, <4>2, ConfirmedPage DEF PageOK
      <3> QED
        BY <3>1, <3>2
    <2>2. Set(c, [pc |-> "fetching", item |-> "page", got |-> got, files |-> {}, step |-> 0,
                  delay |-> 0])
      BY <1>6
    <2> HIDE DEF got
    <2> QED
      BY <1>3, <1>6, <2>1, <2>2
  <1> QED
    BY <1>5, <1>6 DEF Lookup

LEMMA FetchKeeps ==
    ASSUME IInv, NEW c \in Clients, Fetch(c)
    PROVE  IInv'
  <1>1. /\ TypeOK /\ ClientOK(c) /\ clients[c].pc = "fetching" /\ clients[c].pc \notin Tasks
        /\ UNCHANGED <<rigid, upstream, entry, faults>>
        /\ clients[c] \in Client /\ clients[c] # Idle /\ HandlerDecides(protocol, H)
    BY ClientType, Decisions DEF Fetch, IInv, At, Tasks
  <1>2. /\ protocol' = protocol /\ digests' = digests /\ H' = H /\ Slack' = Slack
        /\ rewritten' = rewritten
    BY <1>1, RigidSame DEF upstream
  <1>3. clients[c].got \in Pages \cup {NoPage} /\ PageOK(clients[c].got)
    BY <1>1 DEF ClientOK, Client
  <1>4. PICK got \in Fetched(clients[c].got) :
         IF H.put = NoPut THEN Set(c, Idle)
         ELSE Set(c, [clients[c] EXCEPT !.got = got,
                        !.pc = IF H.put.entry = "merged" THEN "reading" ELSE "writing"])
    BY DEF Fetch
  <1>5. IsResponse(got) /\ PageOK(got)
    BY <1>1, <1>3, <1>4, FetchedPage
  <1>6. CASE H.put = NoPut
    <2>1. Set(c, Idle)
      BY <1>4, <1>6
    <2>2. ClientOK(c)'
      BY <1>1, <2>1, ClientSet DEF ClientOK
    <2> QED
      BY <1>1, <2>1, <2>2, ReadsOnly
  <1>7. CASE H.put # NoPut
    <2> DEFINE r == [clients[c] EXCEPT !.got = got,
                        !.pc = IF H.put.entry = "merged" THEN "reading" ELSE "writing"]
    <2>1. Set(c, r)
      BY <1>4, <1>7
    <2>2. /\ r \in Client /\ r.got = got /\ r.item = clients[c].item
          /\ r.pc = (IF H.put.entry = "merged" THEN "reading" ELSE "writing")
          /\ r.delay = clients[c].delay /\ r.delay \in Nat
      <3>1. clients[c].delay \in Nat /\ got \in Pages
        BY <1>1, <1>5, ClientRecords, Names DEF IsResponse
      <3> QED
        BY <1>1, <3>1, ClientRecords DEF Stages
    <2> HIDE DEF r
    <2>3. clients'[c] = r
      BY <1>1, <2>1, <2>2, ClientSet
    <2>4. clients[c].item = "page"
      BY <1>1 DEF ClientOK
    <2>5. ClientOK(c)'
      <3>1. got # NoPage /\ got.by = "page" /\ got.old = 0 /\ got.age = 0
        BY <1>5, Names DEF IsResponse
      <3>2. protocol # "goproxy"
        BY <1>1, <1>7 DEF HandlerDecides
      <3> QED
        BY <1>2, <1>5, <2>2, <2>3, <2>4, <3>1, <3>2 DEF ClientOK, PageOK
    <2> QED
      BY <1>1, <2>1, <2>2, <2>5, ReadsOnly
  <1> QED
    BY <1>6, <1>7

LEMMA GoesIdle ==
    ASSUME IInv, NEW c \in Clients, Refuse(c) \/ Leave(c)
    PROVE  IInv'
  <1>1. /\ TypeOK /\ clients[c].pc \notin Tasks /\ Set(c, Idle)
        /\ UNCHANGED <<rigid, upstream, entry, faults>>
    BY DEF Refuse, Leave, IInv, At, Tasks
  <1>2. ClientOK(c)'
    BY <1>1, ClientSet DEF ClientOK
  <1> QED
    BY <1>1, <1>2, ReadsOnly

LEMMA RecordKeeps ==
    ASSUME IInv, NEW c \in Clients, Record(c)
    PROVE  IInv'
  <1>1. /\ TypeOK /\ clients[c].pc \notin Tasks /\ HandlerDecides(protocol, H)
        /\ UNCHANGED <<rigid, upstream, entry, faults>>
    BY Decisions DEF Record, IInv, At, Tasks
  <1>2. protocol' = protocol /\ H' = H
    BY <1>1, RigidSame
  <1>3. PICK i \in Items :
         Set(c, [pc |-> IF H.record.first # <<>> THEN "owning" ELSE "reading", item |-> i,
                    got |-> NoPage, files |-> {}, step |-> 1, delay |-> 0])
    BY DEF Record
  <1> DEFINE r == [pc |-> IF H.record.first # <<>> THEN "owning" ELSE "reading", item |-> i,
                   got |-> NoPage, files |-> {}, step |-> 1, delay |-> 0]
  <1>4. /\ r \in Client /\ r.got = NoPage /\ r.item # "page" /\ r.files = {} /\ r.step = 1
        /\ r.pc = IF H.record.first # <<>> THEN "owning" ELSE "reading"
    BY <1>3, ClientRecords, Names DEF Stages
  <1>5. Set(c, r)
    BY <1>3
  <1> HIDE DEF r
  <1>6. clients'[c] = r
    BY <1>1, <1>4, <1>5, ClientSet
  <1>7. /\ r.pc = "owning" => 1 \in 1..Len(H.record.first)
        /\ protocol = "goproxy" => r.pc = "owning"
    <2>1. H.record.first = IF protocol = "goproxy" THEN <<"info", "mod">> ELSE <<>>
      BY <1>1 DEF HandlerDecides
    <2>2. protocol = "goproxy" => Len(H.record.first) = 2 /\ H.record.first # <<>>
      BY <2>1
    <2> QED
      BY <1>4, <2>1, <2>2
  <1>8. ClientOK(c)'
    BY <1>2, <1>4, <1>6, <1>7 DEF ClientOK, PageOK, Dated
  <1> QED
    BY <1>1, <1>4, <1>5, <1>8, ReadsOnly
-----------------------------------------------------------------------------
(* Background writes.                                                      *)
LEMMA TaskStep ==
    ASSUME IInv, NEW c \in Clients, NEW r \in Client \cup {Idle}, Set(c, r),
           Free(c), lock' \in {c, "free"}, lock' = c => r.pc \in Tasks,
           UNCHANGED <<rigid, upstream>>, faults' = faults \/ Fault,
           own \subseteq own', own' \subseteq Items \X {"info", "mod"},
           page' \in Pages \cup {NoPage}, files' \subseteq Items,
           kept' \in [{"page", "files"} -> 0..(TTL + Lag)],
           PageInv', ListedIsCached', ClientOK(c)'
    PROVE  IInv'
  <1>1. TypeOK /\ UNCHANGED <<rev, rewritten>>
    BY DEF upstream, IInv
  <1>2. /\ clients' \in [Clients -> Client \cup {Idle}] /\ clients'[c] = r
        /\ \A d \in Clients \ {c} : clients'[d] = clients[d]
    BY <1>1, ClientSet
  <1>3. faults \in Nat /\ faults' \in 0..MaxFaults /\ (faults # 0 => faults' # 0)
    BY <1>1, Names DEF TypeOK, Fault
  <1>4. Frame
    BY <1>1, <1>3 DEF Frame
  <1>5. TypeOK'
    BY <1>1, <1>2, <1>3, Names DEF TypeOK, rigid, Tasks
  <1> QED
    BY <1>2, <1>4, <1>5, OneClient DEF Free

\* A task, and what is known of it.
LEMMA TaskFacts ==
    ASSUME IInv, NEW c \in Clients, clients[c].pc \in Tasks
    PROVE  /\ TypeOK /\ ClientOK(c) /\ clients[c] \in Client /\ clients[c] # Idle
           /\ HandlerDecides(protocol, H)
           /\ page \in Pages \cup {NoPage} /\ files \subseteq Items
           /\ own \subseteq Items \X {"info", "mod"}
           /\ kept \in [{"page", "files"} -> 0..(TTL + Lag)]
           /\ clients[c].got \in Pages \cup {NoPage} /\ clients[c].delay \in 0..Delay
           /\ clients[c].item \in Items \cup {"page"} /\ clients[c].files \subseteq Items
           /\ clients[c].step \in Nat
  <1>1. TypeOK /\ clients[c] \in Client /\ clients[c] # Idle
    BY ClientType DEF IInv, Tasks, At
  <1> QED
    BY <1>1, Decisions, ClientRecords DEF IInv, TypeOK

LEMMA PutOwnKeeps ==
    ASSUME IInv, NEW c \in Clients, PutOwn(c)
    PROVE  IInv'
  <1> DEFINE step == clients[c].step
             item == clients[c].item
             first == H.record.first
             r == IF step < Len(first) THEN [clients[c] EXCEPT !.step = @ + 1]
                  ELSE [clients[c] EXCEPT !.pc = "reading", !.step = 1]
  <1>1. /\ clients[c].pc = "owning" /\ clients[c].pc \in Tasks
        /\ Free(c) /\ lock' = c /\ own' = own \cup {<<item, first[step]>>} /\ Set(c, r)
        /\ UNCHANGED <<rigid, upstream, page, files, kept, faults>>
    BY DEF PutOwn, At, Tasks
  <1>2. /\ TypeOK /\ ClientOK(c) /\ clients[c] \in Client /\ clients[c] # Idle
        /\ HandlerDecides(protocol, H) /\ own \subseteq Items \X {"info", "mod"}
        /\ clients[c].item \in Items \cup {"page"} /\ step \in Nat
    BY <1>1, TaskFacts
  <1>3. item \in Items /\ step \in 1..Len(first) /\ (step = 2 => <<item, "info">> \in own)
    BY <1>1, <1>2 DEF ClientOK
  <1>4. /\ protocol = "goproxy" /\ first = <<"info", "mod">>
        /\ \/ step = 1 /\ first[step] = "info"
           \/ step = 2 /\ first[step] = "mod"
    <2>1. first = <<"info", "mod">> \/ (first = <<>> /\ protocol # "goproxy")
      BY <1>2 DEF HandlerDecides
    <2>2. first = <<"info", "mod">> /\ protocol = "goproxy"
      <3> HIDE DEF step
      <3> QED
        BY <1>2, <1>3, <2>1 DEF HandlerDecides
    <2>3. step = 1 \/ step = 2
      <3>1. Len(first) = 2
        BY <2>2
      <3> HIDE DEF step, first
      <3> QED
        BY <1>2, <1>3, <3>1
    <2>4. first[1] = "info" /\ first[2] = "mod"
      BY <2>2
    <2> HIDE DEF step, first
    <2> QED
      BY <2>2, <2>3, <2>4
  <1>5. own \subseteq own' /\ own' \subseteq Items \X {"info", "mod"} /\ <<item, first[step]>> \in own'
    BY <1>1, <1>2, <1>3, <1>4
  <1>6. /\ r \in Client /\ r.item = item /\ r.got = clients[c].got /\ r.files = clients[c].files
        /\ \/ r.pc = "owning" /\ r.step = 2 /\ step = 1
           \/ r.pc = "reading" /\ step = 2
    <2>1. Len(first) = 2
      BY <1>4
    <2>2. CASE step = 1
      <3>1. r = [clients[c] EXCEPT !.step = 2]
        <4>1. step < Len(first)
          BY <2>1, <2>2
        <4> QED
          BY <2>2, <4>1, <1>2, ClientRecords
      <3> HIDE DEF r
      <3> QED
        BY <1>1, <1>2, <2>2, <3>1, ClientRecords DEF Stages
    <2>3. CASE step = 2
      <3>1. r = [clients[c] EXCEPT !.pc = "reading", !.step = 1]
        BY <2>1, <2>3
      <3> HIDE DEF r
      <3> QED
        BY <1>1, <1>2, <2>3, <3>1, ClientRecords DEF Stages
    <2> QED
      BY <1>4, <2>2, <2>3
  <1>7. step = 2 => {item} \X {"info", "mod"} \subseteq own'
    <2>1. step = 2 => <<item, "info">> \in own' /\ <<item, "mod">> \in own'
      BY <1>3, <1>4, <1>5
    <2> HIDE DEF step, item
    <2> QED
      BY <2>1
  <1>8. /\ protocol' = protocol /\ H' = H /\ digests' = digests /\ rewritten' = rewritten
    BY <1>1, RigidSame DEF upstream
  <1> HIDE DEF r, item
  <1>9. clients'[c] = r
    BY <1>1, <1>2, <1>6, ClientSet
  <1>10. /\ clients[c].got = NoPage
         /\ \A i \in clients[c].files : {i} \X {"info", "mod"} \subseteq own'
    BY <1>2, <1>4, <1>5 DEF ClientOK, Owned
  <1>11. ClientOK(c)'
    <2>1. /\ clients'[c].got = NoPage /\ clients'[c].item # "page"
          /\ \A i \in clients'[c].files : {i} \X {"info", "mod"} \subseteq own'
      BY <1>3, <1>6, <1>9, <1>10, Names DEF item
    <2>2. clients'[c].pc = "owning" =>
            clients'[c].step \in 1..Len(H.record.first) /\ <<clients'[c].item, "info">> \in own'
      <3>1. 2 \in 1..Len(H.record.first)
        BY <1>4
      <3> QED
        BY <1>4, <1>5, <1>6, <1>9, <3>1
    <2>3. clients'[c].pc = "reading" => {clients'[c].item} \X {"info", "mod"} \subseteq own'
      BY <1>6, <1>7, <1>9
    <2>4. clients'[c].pc \in {"owning", "reading"}
      BY <1>6, <1>9
    <2> QED
      BY <1>8, <2>1, <2>2, <2>3, <2>4 DEF ClientOK, PageOK, Dated, Owned
  <1>12. PageInv'
    <2>1. Frame
      BY <1>1, <1>5 DEF Frame, upstream
    <2> QED
      BY <1>1, <2>1, PageKept
  <1>13. ListedIsCached'
    BY <1>1, <1>5 DEF IInv, ListedIsCached, rigid
  <1>14. r.pc \in Tasks
    BY <1>6 DEF Tasks
  <1> QED
    BY <1>1, <1>2, <1>5, <1>6, <1>11, <1>12, <1>13, <1>14, TaskStep DEF TypeOK

LEMMA ReadKeeps ==
    ASSUME IInv, NEW c \in Clients, Read(c)
    PROVE  IInv'
  <1>1. /\ clients[c].pc = "reading" /\ clients[c].pc \in Tasks
        /\ Free(c) /\ lock' = c
        /\ UNCHANGED <<rigid, upstream, page, files, kept, own>>
    BY DEF Read, At, Tasks
  <1>2. /\ TypeOK /\ ClientOK(c) /\ clients[c] \in Client /\ clients[c] # Idle
        /\ HandlerDecides(protocol, H)
        /\ page \in Pages \cup {NoPage} /\ files \subseteq Items
    BY <1>1, TaskFacts
  <1>3. PICK thePage \in {page, NoPage}, theFiles \in {files, {}} :
           /\ Copy(c, thePage, theFiles) /\ (faults' = faults \/ Fault)
           /\ theFiles = files \/ (H.record.misread = "empty" /\ Fault)
    BY DEF Read
  <1> DEFINE got == IF clients[c].item = "page" THEN clients[c].got
                    ELSE IF Shared THEN thePage ELSE NoPage
             r == [clients[c] EXCEPT !.pc = "writing", !.files = theFiles, !.got = got]
  <1>4. Set(c, r)
    BY <1>3 DEF Copy
  <1>5. got \in Pages \cup {NoPage}
    BY <1>1, <1>2, <1>3, TaskFacts
  <1>6. /\ r \in Client /\ r.item = clients[c].item /\ r.files = theFiles /\ r.got = got
        /\ r.pc = "writing" /\ r.delay = clients[c].delay
    <2> HIDE DEF got
    <2> QED
      BY <1>2, <1>3, <1>5, ClientRecords DEF Stages
  <1> HIDE DEF r
  <1>7. clients'[c] = r
    BY <1>2, <1>4, <1>6, ClientSet
  <1>8. /\ protocol' = protocol /\ H' = H /\ digests' = digests /\ rewritten' = rewritten
    BY <1>1, RigidSame DEF upstream
  <1>9. /\ PageOK(got) /\ (clients[c].item # "page" => Dated(got))
        /\ clients[c].item = "page" => got = clients[c].got
        /\ protocol = "goproxy" => got = NoPage
    <2>1. PageOK(thePage) /\ Dated(thePage)
      BY <1>3 DEF IInv, PageInv, PageOK, Dated
    <2>2. protocol = "goproxy" => ~Shared
      BY <1>2 DEF HandlerDecides, Shared
    <2> QED
      BY <1>2, <2>1, <2>2 DEF ClientOK, PageOK, Dated
  <1> HIDE DEF got
  <1>10. files' \subseteq theFiles \/ Misread'
    <2>1. Fault => faults' # 0
      BY <1>2, Names DEF Fault, TypeOK
    <2> QED
      BY <1>1, <1>3, <1>8, <2>1 DEF Misread
  <1>11. protocol = "goproxy" =>
           /\ \A i \in theFiles : {i} \X {"info", "mod"} \subseteq own'
           /\ {clients[c].item} \X {"info", "mod"} \subseteq own' /\ clients[c].item # "page"
    BY <1>1, <1>2, <1>3 DEF ClientOK, Owned, IInv, ListedIsCached
  <1>12. ClientOK(c)'
    <2>1. PageOK(clients[c].got)' /\ (clients'[c].item # "page" => Dated(clients[c].got)')
      BY <1>6, <1>7, <1>8, <1>9 DEF PageOK, Dated
    <2>2. protocol = "goproxy" =>
            /\ clients'[c].got = NoPage /\ clients'[c].item # "page"
            /\ {clients'[c].item} \X {"info", "mod"} \subseteq own'
            /\ \A i \in clients'[c].files : {i} \X {"info", "mod"} \subseteq own'
      BY <1>6, <1>7, <1>9, <1>11
    <2>3. clients'[c].item = "page" =>
            /\ clients'[c].got # NoPage /\ clients'[c].got.by = "page"
            /\ clients'[c].got.old <= clients'[c].delay
            /\ H.put.stamp = "response" => clients'[c].got.old <= clients'[c].got.age
      BY <1>1, <1>2, <1>6, <1>7, <1>9 DEF ClientOK
    <2>4. lock' = c /\ (files' \subseteq clients'[c].files \/ Misread') /\ clients'[c].pc = "writing"
      BY <1>1, <1>6, <1>7, <1>10
    <2> QED
      BY <1>8, <2>1, <2>2, <2>3, <2>4 DEF ClientOK, Owned
  <1>13. PageInv'
    <2>1. Frame
      BY <1>1, <1>2, <1>3, Names DEF Frame, upstream, Fault, TypeOK
    <2> QED
      BY <1>1, <2>1, PageKept
  <1>14. ListedIsCached'
    BY <1>1 DEF IInv, ListedIsCached, rigid
  <1>15. r.pc \in Tasks
    BY <1>6 DEF Tasks
  <1> QED
    BY <1>1, <1>2, <1>3, <1>4, <1>6, <1>12, <1>13, <1>14, <1>15, TaskStep DEF TypeOK

\* A task ends: what remains is what it wrote.
LEMMA EndStep ==
    ASSUME IInv, NEW c \in Clients, clients[c].pc \in Tasks, Free(c), End(c),
           UNCHANGED <<rigid, upstream, own>>, faults' = faults \/ Fault,
           page' \in Pages \cup {NoPage}, files' \subseteq Items,
           kept' \in [{"page", "files"} -> 0..(TTL + Lag)],
           PageInv', ListedIsCached'
    PROVE  IInv'
  <1>1. Set(c, Idle) /\ lock' = "free"
    BY DEF End, Free
  <1>2. TypeOK /\ own \subseteq Items \X {"info", "mod"}
    BY TaskFacts
  <1>3. ClientOK(c)'
    BY <1>1, <1>2, ClientSet DEF ClientOK
  <1> QED
    BY <1>1, <1>2, <1>3, Names, TaskStep

LEMMA FailKeeps ==
    ASSUME IInv, NEW c \in Clients, Fail(c)
    PROVE  IInv'
  <1>1. /\ clients[c].pc \in Tasks /\ Free(c) /\ End(c) /\ Fault
        /\ UNCHANGED <<rigid, upstream, page, files, kept, own>>
    BY DEF Fail
  <1>2. Frame
    BY <1>1, Names DEF Frame, upstream, Fault, IInv, TypeOK
  <1>3. PageInv'
    BY <1>1, <1>2, PageKept
  <1>4. ListedIsCached'
    BY <1>1 DEF IInv, ListedIsCached, rigid
  <1> QED
    BY <1>1, <1>3, <1>4, TaskFacts, EndStep

LEMMA RestampedPage ==
    ASSUME TypeOK, NEW p \in Pages \cup {NoPage}, PageOK(p), Dated(p)
    PROVE  /\ Restamped(p) \in Pages \cup {NoPage} /\ PageOK(Restamped(p)) /\ Dated(Restamped(p))
           /\ Restamped(p) # NoPage /\ Restamped(p).by = "page" => Restamped(p) = p
  <1>1. CASE protocol # "pypi"
    BY <1>1 DEF Restamped
  <1>2. CASE protocol = "pypi" /\ p = NoPage
    <2> DEFINE q == [Whole EXCEPT !.whole = FALSE, !.by = "file"]
    <2>1. Restamped(p) = q
      BY <1>2 DEF Restamped
    <2>2. q \in Pages /\ q.by = "file"
      BY WholeIsResponse DEF IsResponse, Pages
    <2> HIDE DEF q
    <2> QED
      BY <1>2, <2>1, <2>2 DEF PageOK, Dated
  <1>3. CASE protocol = "pypi" /\ p # NoPage
    <2> DEFINE q == [p EXCEPT !.age = 0, !.by = "file"]
    <2>1. Restamped(p) = q /\ p \in Pages
      BY <1>3 DEF Restamped
    <2>2. q \in Pages /\ q.by = "file"
      <3>1. 0 \in Ages
        BY Names DEF Ages
      <3> QED
        BY <2>1, <3>1 DEF Pages
    <2> HIDE DEF q
    <2> QED
      BY <1>3, <2>1, <2>2 DEF PageOK, Dated
  <1> QED
    BY <1>1, <1>2, <1>3

LEMMA WriteKeeps ==
    ASSUME IInv, NEW c \in Clients, Write(c)
    PROVE  IInv'
  <1> DEFINE got == clients[c].got
             item == clients[c].item
             stamped == IF H.put.stamp = "write" THEN [got EXCEPT !.age = 0] ELSE got
  <1>1. /\ clients[c].pc = "writing" /\ clients[c].pc \in Tasks /\ Free(c) /\ End(c)
        /\ UNCHANGED <<rigid, upstream, own, faults>>
    BY DEF Write, At, Tasks
  <1>2. /\ TypeOK /\ ClientOK(c) /\ clients[c] # Idle
        /\ HandlerDecides(protocol, H)
        /\ page \in Pages \cup {NoPage} /\ files \subseteq Items
        /\ kept \in [{"page", "files"} -> 0..(TTL + Lag)]
        /\ got \in Pages \cup {NoPage} /\ clients[c].delay \in 0..Delay
        /\ item \in Items \cup {"page"} /\ clients[c].files \subseteq Items
    BY <1>1, TaskFacts
  <1>3. /\ protocol' = protocol /\ H' = H /\ digests' = digests /\ rewritten' = rewritten
        /\ (Shared' <=> Shared)
    BY <1>1, RigidSame DEF upstream
  <1>4. 0 \in 0..(TTL + Lag) /\ 0 \in Ages /\ Delay \in Nat
    BY Names DEF Ages
  <1>5. PageOK(got) /\ PageOK(page) /\ Dated(page)
    BY <1>2 DEF ClientOK, IInv, PageInv
  <1>6. kept' \in [{"page", "files"} -> 0..(TTL + Lag)]
    BY <1>2, <1>4 DEF Write
  <1>7. CASE item = "page"
    <2>1. /\ page' = stamped
          /\ files' = CASE H.put.entry = "own" -> files
                        [] H.put.entry = "replaced" -> {}
                        [] H.put.entry = "merged" -> clients[c].files
          /\ kept' = IF Shared THEN [page |-> 0, files |-> 0] ELSE [kept EXCEPT !["page"] = 0]
      BY <1>7 DEF Write
    <2>2. /\ got \in Pages /\ got.by = "page" /\ got.old <= clients[c].delay
          /\ H.put.stamp = "response" => got.old <= got.age
          /\ protocol # "goproxy"
      BY <1>1, <1>2, <1>7 DEF ClientOK
    <2>3. got.old \in Nat /\ got.age \in Nat /\ clients[c].delay \in Nat /\ clients[c].delay <= Delay
      BY <1>2, <1>4, <2>2, Names DEF Pages, Ages
    <2>4. /\ stamped \in Pages /\ stamped.by = "page" /\ stamped.old = got.old
          /\ stamped.whole = got.whole
          /\ H.put.stamp = "write" => stamped.age = 0
          /\ H.put.stamp # "write" => stamped = got
      <3> HIDE DEF got
      <3> QED
        BY <1>4, <2>2 DEF Pages
    <2>5. page' \in Pages /\ files' \subseteq Items
      <3>1. H.put.entry \in {"own", "replaced", "merged"}
        BY <1>2 DEF HandlerDecides
      <3> QED
        BY <1>2, <2>1, <2>4, <3>1
    <2> HIDE DEF stamped, got
    <2>6. PageInv'
      <3>1. PageOK(page)'
        <4>1. ~got.whole => ~digests /\ rewritten # {}
          BY <1>5, <2>2, Names DEF PageOK
        <4>2. page'.by = "page" /\ page'.whole = got.whole
          BY <2>1, <2>2, <2>4
        <4> QED
          BY <1>3, <4>1, <4>2 DEF PageOK
      <3>2. Dated(page)'
        <4>1. H.put.stamp \in {"write", "response"}
          BY <1>2, <2>2 DEF HandlerDecides
        <4> QED
          BY <1>3, <1>4, <2>1, <2>2, <2>3, <2>4, <4>1 DEF Dated
      <3>3. protocol = "npm" => kept'["page"] = 0 /\ page'.old <= Delay
        <4>1. protocol = "npm" => ~Shared
          BY <1>2 DEF HandlerDecides, Shared
        <4>2. page'.old = got.old
          BY <2>1, <2>4
        <4> QED
          BY <1>2, <1>4, <2>1, <2>2, <2>3, <4>1, <4>2
      <3> QED
        BY <1>3, <1>4, <2>2, <3>1, <3>2, <3>3 DEF PageInv
    <2>7. ListedIsCached'
      BY <1>3, <2>2 DEF ListedIsCached
    <2> QED
      BY <1>1, <1>6, <2>5, <2>6, <2>7, EndStep
  <1>8. CASE item # "page"
    <2>1. /\ page' = IF Shared THEN Restamped(got) ELSE page
          /\ files' = clients[c].files \cup {item}
          /\ kept' = IF Shared THEN [page |-> 0, files |-> 0] ELSE [kept EXCEPT !["files"] = 0]
      BY <1>8 DEF Write
    <2>2. Dated(got)
      BY <1>1, <1>2, <1>8 DEF ClientOK
    <2>3. /\ Restamped(got) \in Pages \cup {NoPage}
          /\ PageOK(Restamped(got)) /\ Dated(Restamped(got))
      <3> HIDE DEF got
      <3> QED
        BY <1>2, <1>5, <2>2, RestampedPage
    <2>4. page' \in Pages \cup {NoPage} /\ files' \subseteq Items
      BY <1>2, <1>8, <2>1, <2>3
    <2>5. protocol \in {"goproxy", "npm"} => page' = page /\ kept'["page"] = kept["page"]
      BY <1>2, <2>1 DEF HandlerDecides, Shared
    <2>6. PageInv'
      <3>1. PageOK(page)' /\ Dated(page)'
        BY <1>3, <1>5, <2>1, <2>3 DEF PageOK, Dated
      <3> QED
        BY <1>3, <2>5, <3>1 DEF PageInv, IInv
    <2>7. ListedIsCached'
      <3>1. protocol = "goproxy" => /\ \A i \in clients[c].files : Owned(i)
                                    /\ Owned(item)
        BY <1>1, <1>2 DEF ClientOK
      <3> QED
        BY <1>1, <1>3, <2>1, <3>1 DEF ListedIsCached, Owned
    <2> QED
      BY <1>1, <1>6, <2>4, <2>6, <2>7, EndStep
  <1> QED
    BY <1>7, <1>8
-----------------------------------------------------------------------------
(* The upstream, time, and the reaper.                                     *)
LEMMA PublishKeeps ==
    ASSUME IInv, Publish
    PROVE  IInv'
  <1>1. /\ TypeOK /\ UNCHANGED <<rigid, page, files, kept, own, lock, clients, faults>>
        /\ rev < MaxRev /\ rev' = rev + 1
        /\ rewritten' = rewritten \/ rewritten' = rewritten \cup {rev + 1}
    BY DEF Publish, entry, IInv
  <1>2. Frame
    BY <1>1 DEF Frame
  <1>3. TypeOK'
    <2>1. rev' \in 0..MaxRev /\ rewritten' \subseteq 1..rev'
      <3>1. rev \in Nat /\ MaxRev \in Nat /\ rewritten \subseteq 1..rev
        BY <1>1, Names DEF TypeOK
      <3>2. 1..rev \subseteq 1..rev' /\ rev + 1 \in 1..rev'
        BY <1>1, <3>1
      <3>3. rewritten' \subseteq rewritten \cup {rev + 1}
        BY <1>1
      <3>4. rev' \in 0..MaxRev
        BY <1>1, <3>1
      <3> QED
        BY <3>1, <3>2, <3>3, <3>4
    <2> QED
      BY <1>1, <2>1 DEF TypeOK, rigid
  <1>4. PageInv' /\ ListedIsCached'
    BY <1>1, <1>2, PageKept DEF IInv, ListedIsCached, rigid
  <1>5. \A c \in Clients : ClientOK(c)'
    BY <1>1, <1>2, ClientKept DEF IInv
  <1> QED
    BY <1>3, <1>4, <1>5 DEF IInv

LEMMA StutterKeeps ==
    ASSUME IInv, UNCHANGED vars
    PROVE  IInv'
  <1>1. /\ TypeOK /\ UNCHANGED <<rigid, rev, rewritten, page, files, kept, own, lock, clients, faults>>
    BY DEF vars, upstream, entry, IInv
  <1>2. Frame
    BY <1>1 DEF Frame
  <1>3. TypeOK'
    BY <1>1 DEF TypeOK, rigid
  <1>4. PageInv' /\ ListedIsCached'
    BY <1>1, <1>2, PageKept DEF IInv, ListedIsCached, rigid
  <1>5. \A c \in Clients : ClientOK(c)'
    BY <1>1, <1>2, ClientKept DEF IInv
  <1> QED
    BY <1>3, <1>4, <1>5 DEF IInv

LEMMA ReapKeeps ==
    ASSUME IInv, NEW e \in {"page", "files"}, Reap(e)
    PROVE  IInv'
  <1>1. /\ TypeOK /\ UNCHANGED <<rigid, upstream, own, lock, clients, faults>>
        /\ page' = IF Shared \/ e = "page" THEN NoPage ELSE page
        /\ files' = IF Shared \/ e = "files" THEN {} ELSE files
        /\ kept' = [d \in DOMAIN kept |-> IF Shared \/ d = e THEN 0 ELSE kept[d]]
    BY DEF Reap, IInv
  <1>2. Frame
    BY <1>1 DEF Frame, upstream
  <1>3. /\ page' \in {page, NoPage} /\ files' \subseteq files
        /\ kept' \in [{"page", "files"} -> 0..(TTL + Lag)]
        /\ page' # NoPage => kept'["page"] = kept["page"]
    BY <1>1, Names DEF TypeOK
  <1>4. TypeOK'
    BY <1>1, <1>3 DEF TypeOK, rigid, upstream
  <1>5. PageInv'
    <2>1. protocol' = protocol /\ digests' = digests /\ H' = H
      BY <1>1, RigidSame
    <2> QED
      BY <1>1, <1>3, <2>1 DEF PageInv, IInv, PageOK, Dated, upstream
  <1>6. ListedIsCached'
    BY <1>1, <1>3 DEF IInv, ListedIsCached, rigid
  <1>7. \A c \in Clients : ClientOK(c)'
    BY <1>1, <1>2, <1>3, ClientKept DEF IInv
  <1> QED
    BY <1>4, <1>5, <1>6, <1>7 DEF IInv

LEMMA OlderPage ==
    ASSUME NEW p \in Pages
    PROVE  /\ Older(p) \in Pages /\ Older(p) # NoPage
           /\ Older(p).by = p.by /\ Older(p).whole = p.whole
           /\ Older(p).old <= p.old + 1
           /\ \A n \in Nat : p.old <= p.age + n => Older(p).old <= Older(p).age + n
  <1> DEFINE older == IF p.old < MaxAge THEN p.old + 1 ELSE p.old
             later == IF p.age < MaxAge THEN p.age + 1 ELSE p.age
  <1>1. p.old \in 0..MaxAge /\ p.age \in 0..MaxAge /\ MaxAge \in Nat
    BY Names DEF Pages, Ages
  <1>2. Older(p) = [p EXCEPT !.old = older, !.age = later]
    BY Names DEF Older
  <1>3. /\ older \in Ages /\ later \in Ages /\ older <= p.old + 1
        /\ \A n \in Nat : p.old <= p.age + n => older <= later + n
    BY <1>1 DEF Ages
  <1> HIDE DEF older, later
  <1>4. /\ Older(p) \in Pages /\ Older(p).by = p.by /\ Older(p).whole = p.whole
        /\ Older(p).old = older /\ Older(p).age = later
    BY <1>2, <1>3 DEF Pages
  <1> QED
    BY <1>3, <1>4, Names

LEMMA OlderOK ==
    ASSUME TypeOK, UNCHANGED <<rigid, upstream>>, NEW p \in Pages \cup {NoPage}
    PROVE  /\ Older(p) \in Pages \cup {NoPage} /\ (Older(p) = NoPage <=> p = NoPage)
           /\ PageOK(p) => PageOK(Older(p))
           /\ Dated(p) => Dated(Older(p))
  <1>1. CASE p = NoPage
    BY <1>1 DEF Older, PageOK, Dated
  <1>2. CASE p # NoPage
    <2>1. PageOK(p) => PageOK(Older(p))
      BY <1>2, OlderPage DEF PageOK
    <2>2. Dated(p) => Dated(Older(p))
      <3>1. 0 \in Nat /\ Delay \in Nat
        BY Names
      <3> QED
        BY <1>2, <3>1, OlderPage DEF Dated
    <2> QED
      BY <1>2, <2>1, <2>2, OlderPage
  <1> QED
    BY <1>1, <1>2

LEMMA TickKeeps ==
    ASSUME IInv, Tick
    PROVE  IInv'
  <1>1. /\ TypeOK /\ UNCHANGED <<rigid, upstream, files, own, lock, faults>>
        /\ page' = Older(page)
        /\ kept' = [e \in DOMAIN kept |-> IF HasEntry(e) THEN kept[e] + 1 ELSE 0]
        /\ \A e \in DOMAIN kept : HasEntry(e) => kept[e] < TTL + Lag
        /\ HandlerDecides(protocol, H)
    BY Decisions DEF Tick, IInv
  <1>2. /\ protocol' = protocol /\ digests' = digests /\ H' = H /\ Slack' = Slack
        /\ rewritten' = rewritten
    BY <1>1, RigidSame DEF upstream
  <1>3. /\ page \in Pages \cup {NoPage} /\ PageOK(page) /\ Dated(page)
        /\ Older(page) \in Pages \cup {NoPage} /\ PageOK(Older(page)) /\ Dated(Older(page))
        /\ Older(page) = NoPage <=> page = NoPage
    <2>1. page \in Pages \cup {NoPage} /\ PageOK(page) /\ Dated(page)
      BY <1>1 DEF TypeOK, IInv, PageInv
    <2> QED
      BY <1>1, <2>1, OlderOK
  <1>4. kept' \in [{"page", "files"} -> 0..(TTL + Lag)]
    BY <1>1, Names DEF TypeOK
  <1>5. PageInv'
    <2>1. PageOK(page)' /\ Dated(page)'
      BY <1>1, <1>2, <1>3 DEF PageOK, Dated
    <2>2. protocol = "npm" /\ page # NoPage => page'.old <= kept'["page"] + Delay
      <3> SUFFICES ASSUME protocol = "npm", page # NoPage
                   PROVE  page'.old <= kept'["page"] + Delay
        OBVIOUS
      <3>1. ~Shared
        BY <1>1 DEF HandlerDecides, Shared
      <3>2. kept'["page"] = kept["page"] + 1 /\ kept["page"] \in Nat
        BY <1>1, <3>1, Names DEF HasEntry, TypeOK
      <3>3. page.old \in Nat /\ page.old <= kept["page"] + Delay /\ page'.old \in Nat
            /\ page'.old <= page.old + 1
        BY <1>1, <1>3, OlderPage, Names DEF IInv, PageInv, Pages, Ages
      <3> QED
        BY <3>2, <3>3, Names
    <2> QED
      BY <1>1, <1>2, <1>3, <2>1, <2>2 DEF PageInv, IInv
  <1>6. ListedIsCached'
    BY <1>1, <1>2 DEF IInv, ListedIsCached
  <1>7. ASSUME NEW c \in Clients
        PROVE  clients'[c] \in Client \cup {Idle} /\ clients'[c].pc = clients[c].pc /\ ClientOK(c)'
    <2>1. ClientOK(c) /\ clients[c] \in Client \cup {Idle} /\ clients[c].pc # "hit"
      BY <1>1 DEF IInv, TypeOK, Tick, At
    <2>2. CASE clients[c].pc \notin Tasks
      <3>1. clients'[c] = clients[c]
        BY <2>2 DEF Tick
      <3>2. Frame /\ (lock = c => FALSE)
        BY <1>1, <1>2, <2>2, Names DEF Frame, TypeOK, Tasks
      <3> QED
        BY <1>1, <2>1, <3>1, <3>2, ClientKept
    <2>3. CASE clients[c].pc \in Tasks
      <3> DEFINE got == clients[c].got
                 r == [clients[c] EXCEPT !.delay = @ + 1, !.got = Older(@)]
      <3>1. clients'[c] = r
        BY <2>3 DEF Tick
      <3>2. /\ clients[c] \in Client /\ clients[c] # Idle /\ clients[c].delay \in 0..Delay
            /\ got \in Pages \cup {NoPage}
        BY <2>3, TaskFacts
      <3>3. clients[c].delay < Delay
        BY <2>3 DEF Tick
      <3>4. /\ PageOK(got) /\ Older(got) \in Pages \cup {NoPage}
            /\ (Older(got) = NoPage <=> got = NoPage) /\ PageOK(Older(got))
            /\ Dated(got) => Dated(Older(got))
        <4>1. PageOK(got)
          BY <2>1, <3>2 DEF ClientOK
        <4> HIDE DEF got
        <4> QED
          BY <1>1, <3>2, <4>1, OlderOK
      <3>5. /\ r \in Client /\ r.pc = clients[c].pc /\ r.item = clients[c].item
            /\ r.files = clients[c].files /\ r.step = clients[c].step
            /\ r.got = Older(got) /\ r.delay = clients[c].delay + 1
        <4>1. clients[c].delay + 1 \in 0..Delay
          BY <3>2, <3>3, Names
        <4>2. r = [clients[c] EXCEPT !.delay = clients[c].delay + 1, !.got = Older(got)]
          OBVIOUS
        <4> HIDE DEF r, got
        <4> QED
          BY <3>2, <3>4, <4>1, <4>2, ClientRecords
      <3> HIDE DEF r
      <3>6. clients[c].item = "page" =>
              /\ Older(got) # NoPage /\ Older(got).by = "page"
              /\ Older(got).old <= clients[c].delay + 1
              /\ H.put.stamp = "response" => Older(got).old <= Older(got).age
        <4> SUFFICES ASSUME clients[c].item = "page"
                     PROVE  /\ Older(got) # NoPage /\ Older(got).by = "page"
                            /\ Older(got).old <= clients[c].delay + 1
                            /\ H.put.stamp = "response" => Older(got).old <= Older(got).age
          OBVIOUS
        <4>1. /\ got \in Pages /\ got.by = "page" /\ got.old <= clients[c].delay
              /\ H.put.stamp = "response" => got.old <= got.age
          BY <2>1, <2>3, <3>2 DEF ClientOK
        <4>2. /\ got.old \in Nat /\ got.age \in Nat /\ clients[c].delay \in Nat
          BY <3>2, <4>1, Names DEF Pages, Ages
        <4> HIDE DEF got
        <4>3. Older(got).old \in Nat /\ Older(got).age \in Nat
          BY <4>1, OlderPage, Names DEF Pages, Ages
        <4>4. Older(got).old <= got.old + 1 /\ Older(got) # NoPage /\ Older(got).by = "page"
          BY <4>1, OlderPage
        <4>5. got.old <= got.age + 0 => Older(got).old <= Older(got).age + 0
          BY <4>1, OlderPage
        <4> QED
          BY <4>1, <4>2, <4>3, <4>4, <4>5
      <3>7. /\ PageOK(clients[c].got)' /\ (Dated(got) => Dated(clients[c].got)')
        BY <1>2, <3>1, <3>4, <3>5 DEF PageOK, Dated
      <3>8. protocol = "goproxy" => clients'[c].got = NoPage
        BY <2>1, <3>1, <3>2, <3>4, <3>5 DEF ClientOK
      <3>9. /\ clients'[c].pc = clients[c].pc /\ clients'[c].item = clients[c].item
            /\ clients'[c].files = clients[c].files /\ clients'[c].step = clients[c].step
            /\ clients'[c].delay = clients[c].delay + 1 /\ clients'[c].got = Older(got)
        BY <3>1, <3>5
      <3>10. /\ own' = own /\ files' = files /\ lock' = lock /\ (Misread' <=> Misread)
        BY <1>1, <1>2 DEF Misread
      <3>11. ClientOK(c)'
        BY <1>2, <2>1, <2>3, <3>2, <3>6, <3>7, <3>8, <3>9, <3>10 DEF ClientOK, Owned, Tasks
      <3> QED
        BY <3>1, <3>5, <3>11
    <2> QED
      BY <2>2, <2>3
  <1>8. TypeOK'
    <2>1. clients' \in [Clients -> Client \cup {Idle}]
      <3>1. clients' = [c \in Clients |-> clients'[c]]
        BY DEF Tick
      <3> QED
        BY <1>7, <3>1
    <2> QED
      BY <1>1, <1>3, <1>4, <1>7, <2>1 DEF TypeOK, rigid, upstream
  <1> QED
    BY <1>5, <1>6, <1>7, <1>8 DEF IInv
-----------------------------------------------------------------------------
(* The invariant, and what it implies.                                     *)
LEMMA IInvInit == Init => IInv
  <1> SUFFICES ASSUME Init PROVE IInv
    OBVIOUS
  <1>1. TypeOK
    <2>1. 0 \in 0..MaxRev /\ 0 \in 0..(TTL + Lag) /\ 0 \in 0..MaxFaults
      BY Names
    <2>2. protocol \in Protocols /\ etags \in BOOLEAN /\ digests \in BOOLEAN
      BY DEF Init
    <2>3. kept \in [{"page", "files"} -> 0..(TTL + Lag)]
      BY <2>1 DEF Init
    <2> QED
      BY <2>1, <2>2, <2>3 DEF Init, TypeOK
  <1>2. PageInv /\ ListedIsCached
    BY DEF Init, PageInv, PageOK, Dated, ListedIsCached
  <1>3. \A c \in Clients : ClientOK(c)
    BY DEF Init, ClientOK
  <1> QED
    BY <1>1, <1>2, <1>3 DEF IInv

LEMMA IInvStep == IInv /\ [Next]_vars => IInv'
  <1> SUFFICES ASSUME IInv, [Next]_vars PROVE IInv'
    OBVIOUS
  <1> QED
    BY PublishKeeps, TickKeeps, LookupKeeps, FetchKeeps, GoesIdle, RecordKeeps, PutOwnKeeps,
       ReadKeeps, WriteKeeps, FailKeeps, ReapKeeps, StutterKeeps DEF Next

LEMMA IInvHolds == Spec => []IInv
  BY IInvInit, IInvStep, PTL DEF Spec

\* A cached page is not served longer than its TTL and what writes and
\* reaper are late, however long a response was on its way to the cache and
\* whatever other responses and records overtook it.
THEOREM HitsAreRecent == Spec => []HitIsRecent
  <1>1. IInv => HitIsRecent
    <2> SUFFICES ASSUME IInv, NEW c \in Clients, At(c, "hit"), clients[c].got # NoPage,
                        clients[c].got.by = "page"
                 PROVE  clients[c].got.old <= TTL + Slack
      BY DEF HitIsRecent
    <2>1. ClientOK(c) /\ clients[c] # Idle
      BY Names DEF IInv, At
    <2> QED
      BY <2>1 DEF ClientOK, At
  <1> QED
    BY <1>1, IInvHolds, PTL

\* The state is well formed, and the cached page is one that its upstream
\* had: ranges are glued to it only if the result agrees with the digest.
THEOREM WholePages == Spec => []PagesAreWhole
  <1>1. IInv => PagesAreWhole
    BY DEF IInv, PageInv, PageOK, PagesAreWhole
  <1> QED
    BY <1>1, IInvHolds, PTL

\* The version list of goproxy names only versions whose info and go.mod are
\* cached, though each of the three is an entry of its own.
THEOREM ListedAreCached == Spec => []ListedIsCached
  <1>1. IInv => ListedIsCached
    BY DEF IInv
  <1> QED
    BY <1>1, IInvHolds, PTL

\* What a step of Write does to the records of others.
LEMMA WriteKeepsRecords ==
    ASSUME IInv, NEW c \in Clients, Write(c)
    PROVE  \/ files \subseteq files'
           \/ protocol = "pypi" /\ page' # NoPage /\ page'.by = "page"
           \/ faults > 0 /\ H.record.misread = "empty"
  <1> DEFINE mine == clients[c]
             stamped == IF H.put.stamp = "write" THEN [mine.got EXCEPT !.age = 0] ELSE mine.got
  <1>1. mine.pc = "writing" /\ mine.pc \in Tasks
    BY DEF Write, At, Tasks
  <1>2. TypeOK /\ ClientOK(c) /\ mine # Idle /\ HandlerDecides(protocol, H)
    BY <1>1, TaskFacts
  <1>3. CASE mine.item # "page" \/ H.put.entry = "merged"
    <2>1. files' = mine.files \cup {mine.item} \/ files' = mine.files
      BY <1>3 DEF Write
    <2>2. files \subseteq mine.files \/ Misread
      BY <1>1, <1>2, <1>3 DEF ClientOK
    <2>3. Misread => faults > 0 /\ H.record.misread = "empty"
      BY <1>2, Names DEF Misread, TypeOK
    <2> QED
      BY <2>1, <2>2, <2>3
  <1>4. CASE mine.item = "page" /\ H.put.entry = "own"
    BY <1>4 DEF Write
  <1>5. CASE mine.item = "page" /\ H.put.entry = "replaced"
    <2>1. mine.got \in Pages /\ mine.got.by = "page"
      BY <1>1, <1>2, <1>5, TaskFacts DEF ClientOK
    <2>2. page' = stamped /\ protocol = "pypi"
      BY <1>2, <1>5 DEF Write, HandlerDecides
    <2>3. stamped \in Pages /\ stamped.by = "page"
      <3>1. 0 \in Ages
        BY Names DEF Ages
      <3> HIDE DEF mine
      <3> QED
        BY <2>1, <3>1 DEF Pages
    <2> HIDE DEF stamped
    <2> QED
      BY <2>2, <2>3, Names
  <1> QED
    BY <1>2, <1>3, <1>4, <1>5 DEF HandlerDecides

\* The record of an artifact is never undone by the writer of another one or
\* of the page: whoever writes a copy back has held the lock since the read.
THEOREM RecordsAreKept == Spec => RecordsKept
  <1> DEFINE Kept == \/ files \subseteq files' \/ (\E e \in {"page", "files"} : Reap(e))
                     \/ (protocol = "pypi" /\ page' # NoPage /\ page'.by = "page")
                     \/ (faults > 0 /\ H.record.misread = "empty")
  <1>1. IInv /\ [Next]_vars => [Kept]_vars
    <2> SUFFICES ASSUME IInv, Next PROVE Kept
      OBVIOUS
    <2>1. CASE \E c \in Clients : Write(c)
      BY <2>1, WriteKeepsRecords
    <2>2. CASE \E e \in {"page", "files"} : Reap(e)
      BY <2>2
    <2>3. CASE \/ Publish \/ Tick
               \/ \E c \in Clients :
                    \/ Lookup(c) \/ Fetch(c) \/ Refuse(c) \/ Leave(c) \/ Record(c)
                    \/ PutOwn(c) \/ Read(c) \/ Fail(c)
      <3>1. files' = files
        BY <2>3 DEF Publish, Tick, Lookup, Fetch, Refuse, Leave, Record, PutOwn, Read, Fail, entry
      <3> QED
        BY <3>1
    <2> QED
      BY <2>1, <2>2, <2>3 DEF Next
  <1> QED
    BY <1>1, IInvHolds, PTL DEF Spec, RecordsKept
=============================================================================
