-------------------------------- MODULE Tokens --------------------------------
(***************************************************************************)
(* The tokens that upstream requests carry: of a GitHub installation, for  *)
(* one repository (protocol/git/github_app.go), minted by one call that    *)
(* all requests share; and of an OCI registry, for one scope               *)
(* (protocol/oci/auth.go, upstream.go), fetched by each request that the   *)
(* registry has refused.  Both are cached until shortly before they        *)
(* expire.  One of the two providers is chosen at the start.               *)
(***************************************************************************)
EXTENDS Integers

CONSTANTS
    Providers, \* those an instance checks: "github", "oci"
    Callers,   \* requests, one after the other
    Lifetimes, \* for how long a token may be issued
    Skew,      \* gitHubAppTokenRefreshSkew, or GetToken's thirty seconds
    Latency,   \* timing assumption: a message arrives by then
    MaxTime,   \* bound on the clock
    NoToken    \* nothing cached, or a request without a token

ASSUME TokensAssumption ==
    /\ Providers \subseteq {"github", "oci"}
    /\ Latency \in Nat /\ Skew \in Nat /\ MaxTime \in Nat
    /\ Skew >= 2 * Latency
    /\ \A life \in Lifetimes : life \in Nat /\ life > 2 * Latency
    /\ NoToken \notin [until : Int, believed : Int]

VARIABLES
    provider, scoped, \* scoped: the registry names the scope that is looked up
    now,
    cache,   \* the cached token
    call,    \* the shared call that mints one
    callers

rigid == <<provider, scoped>>
vars == <<rigid, now, cache, call, callers>>

Token == [until : Int, believed : Int]  \* when it expires, and what the cache takes that for
Idle == [pc |-> "idle"]
NoCall == [pc |-> "none"]
Caller ==
    [pc : {"joining", "waiting", "failed"}]
    \cup [pc : {"asking"}, since : Int]
    \cup [pc : {"sending"}, token : Token \cup {NoToken}, since : Int,
          from : {"cache", "issuer", "fallback"}]

Init ==
    /\ provider \in Providers /\ scoped \in BOOLEAN
    /\ provider = "github" => scoped
    /\ now = 0 /\ cache = NoToken /\ call = NoCall
    /\ callers = [c \in Callers |-> Idle]

At(c, pc) == callers[c].pc = pc
Become(c, caller) == callers' = [callers EXCEPT ![c] = caller]
Sending(token, from) == [pc |-> "sending", token |-> token, since |-> now, from |-> from]
Valid(token) == token # NoToken /\ now < token.believed
-----------------------------------------------------------------------------
(* The cache.                                                              *)

Fresh_UntilExpiry(token) == token # NoToken /\ now < token.believed
Fresh(token) == token # NoToken /\ now + Skew < token.believed

\* A token issued some time before it arrives.  GitHub says when it expires,
\* a registry for how long it lives, which is counted from its arrival.
Issued(ago, life) ==
    [until |-> now - ago + life,
     believed |-> IF provider = "github" THEN now - ago + life ELSE now + life]

\* A request takes what is cached; of GitHub, none goes without.
Look(c) ==
    /\ At(c, "idle")
    /\ \/ Fresh(cache) /\ scoped /\ Become(c, Sending(cache, "cache"))
       \/ /\ ~(Fresh(cache) /\ scoped)
          /\ Become(c, IF provider = "github" THEN [pc |-> "joining"]
                       ELSE Sending(NoToken, "cache"))
    /\ UNCHANGED <<rigid, now, cache, call>>
-----------------------------------------------------------------------------
(* GitHub: the shared call.                                                *)

Join(c) ==
    /\ At(c, "joining") /\ Become(c, [pc |-> "waiting"])
    /\ call' = IF call = NoCall THEN [pc |-> "checking"] ELSE call
    /\ UNCHANGED <<rigid, now, cache>>

Cancel_EndsCall(c) ==
    /\ At(c, "waiting") /\ Become(c, Idle)
    /\ call' = NoCall
    /\ UNCHANGED <<rigid, now, cache>>

\* A request that is cancelled leaves; the call has a context of its own.
Cancel(c) ==
    /\ At(c, "waiting") /\ Become(c, Idle)
    /\ UNCHANGED <<rigid, now, cache, call>>

\* The call ends, for all that wait.
Deliver(result) ==
    /\ callers' = [c \in Callers |-> IF At(c, "waiting") THEN result ELSE callers[c]]
    /\ call' = NoCall

Ask == call' = [pc |-> "asking", since |-> now]

Check_Once ==
    /\ call.pc = "checking"
    /\ Ask /\ UNCHANGED callers
    /\ UNCHANGED <<rigid, now, cache>>

\* Another call may have ended since the requests looked.
Check ==
    /\ call.pc = "checking"
    /\ \/ Fresh(cache) /\ Deliver(Sending(cache, "cache"))
       \/ ~Fresh(cache) /\ Ask /\ UNCHANGED callers
    /\ UNCHANGED <<rigid, now, cache>>

Mint ==
    /\ call.pc = "asking"
    /\ \E ago \in 0..(now - call.since), life \in Lifetimes :
         /\ cache' = Issued(ago, life)
         /\ Deliver(Sending(Issued(ago, life), "issuer"))
    /\ UNCHANGED <<rigid, now>>

\* An answer that is no token, or none within the client's thirty seconds: the
\* cached token serves as long as it lasts.  Only the call writes the cache.
MintFails ==
    /\ call.pc = "asking"
    /\ Deliver(IF Valid(cache) THEN Sending(cache, "fallback") ELSE [pc |-> "failed"])
    /\ UNCHANGED <<rigid, now, cache>>

Fail(c) ==
    /\ At(c, "failed") /\ Become(c, Idle)
    /\ UNCHANGED <<rigid, now, cache, call>>
-----------------------------------------------------------------------------
(* The upstream request, and what a registry answers to it.                *)

\* An answer that is passed on, whatever it is.
Answered(c) ==
    /\ At(c, "sending") /\ Become(c, Idle)
    /\ UNCHANGED <<rigid, now, cache, call>>

\* 401 to the first attempt: without a token, with one that has expired, or
\* with one that is no longer liked.
Challenged(c) ==
    /\ provider = "oci"
    /\ At(c, "sending") /\ callers[c].from = "cache"
    /\ Become(c, [pc |-> "asking", since |-> now])
    /\ UNCHANGED <<rigid, now, cache, call>>

\* FetchToken and SetToken; the second attempt is the last.
FetchToken(c) ==
    /\ At(c, "asking")
    /\ \E ago \in 0..(now - callers[c].since), life \in Lifetimes :
         /\ cache' = Issued(ago, life)
         /\ Become(c, Sending(Issued(ago, life), "issuer"))
    /\ UNCHANGED <<rigid, now, call>>

FetchFails(c) ==
    /\ At(c, "asking") /\ Become(c, Idle)
    /\ UNCHANGED <<rigid, now, cache, call>>
-----------------------------------------------------------------------------
InTime(process) == process.pc \in {"sending", "asking"} => now - process.since < Latency

Tick ==
    /\ now < MaxTime /\ now' = now + 1
    /\ InTime(call) /\ \A c \in Callers : InTime(callers[c])
    /\ UNCHANGED <<rigid, cache, call, callers>>

CallStep == Check \/ Mint \/ MintFails
CallerStep(c) == Join(c) \/ Fail(c) \/ Answered(c) \/ FetchToken(c) \/ FetchFails(c)

Next ==
    \/ CallStep \/ Tick
    \/ \E c \in Callers : Look(c) \/ Cancel(c) \/ Challenged(c) \/ CallerStep(c)

Spec == Init /\ [][Next]_vars

\* Goroutines run, and clients have timeouts; nobody need cancel.
FairSpec == Spec /\ WF_vars(CallStep) /\ \A c \in Callers : WF_vars(CallerStep(c))
-----------------------------------------------------------------------------
(* Properties.                                                             *)

\* Type invariant; those who wait have a call to wait for.
TypeOK ==
    /\ provider \in {"github", "oci"} /\ scoped \in BOOLEAN
    /\ now \in 0..MaxTime
    /\ cache \in Token \cup {NoToken}
    /\ call \in {NoCall, [pc |-> "checking"]} \cup [pc : {"asking"}, since : 0..MaxTime]
    /\ callers \in [Callers -> Caller \cup {Idle}]
    /\ \A c \in Callers : At(c, "waiting") => call # NoCall

\* A token does not expire on its way, be it cached or new; one that is used
\* because no other could be had was valid when it was taken
\* (github_app.go:166, 190; auth.go:41).  The types hold, too.
TokensArriveValid ==
    /\ TypeOK
    /\ \A c \in Callers :
         At(c, "sending") /\ callers[c].token # NoToken
         => callers[c].token.until >
              (IF callers[c].from = "fallback" THEN callers[c].since ELSE now)

\* The shared call makes use of what is cached: a request that looked before a
\* token was cached, and joined the group after, has no second one minted
\* (github_app.go:172-181); and a failing issuer fails no request while the
\* cached token still lasts (github_app.go:183-188).
CallUsesTheCache ==
    [][/\ call'.pc = "asking" /\ call.pc # "asking" => ~Fresh(cache)
       /\ \A c \in Callers : callers'[c].pc = "failed" /\ ~At(c, "failed") => ~Valid(cache)]_vars

\* No request waits for ever, whoever else is cancelled.
EveryRequestGoesOn == \A c \in Callers : At(c, "waiting") ~> ~At(c, "waiting")
=============================================================================
