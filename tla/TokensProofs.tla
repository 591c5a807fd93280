---------------------------- MODULE TokensProofs ----------------------------
(***************************************************************************)
(* Proofs about Tokens for any set of requests, any lifetimes and clock,   *)
(* and any latency and skew that satisfy TokensAssumption.  A token that   *)
(* is fresh when a request takes it outlasts the request's way, because    *)
(* the skew makes up for the latency of both its messages.                 *)
(***************************************************************************)
EXTENDS Tokens, TLAPS

\* The cache takes a token to last longer than it does by the latency of the
\* answer that brought it; with GitHub's it is not mistaken.
Trusted(token) ==
    /\ token.believed <= token.until + Latency
    /\ provider = "github" => token.believed = token.until

OnTheWay(process) == process.since <= now /\ now <= process.since + Latency

Lasts(caller) ==
    caller.token # NoToken =>
        caller.token.until > (IF caller.from = "fallback" THEN caller.since
                              ELSE caller.since + Latency)

CallerOK(c) ==
    /\ callers[c].pc \in {"asking", "sending"} => OnTheWay(callers[c])
    /\ At(c, "sending") => Lasts(callers[c])
    /\ callers[c].pc \in {"joining", "waiting"} => provider = "github"

CallOK ==
    /\ call.pc = "asking" => OnTheWay(call)
    /\ call # NoCall => provider = "github"

TokensInv ==
    /\ TypeOK
    /\ cache # NoToken => Trusted(cache)
    /\ CallOK
    /\ \A c \in Callers : CallerOK(c)

-----------------------------------------------------------------------------
(* What the kinds of callers are.                                          *)
LEMMA SendingType ==
    ASSUME TypeOK, NEW token \in Token \cup {NoToken},
           NEW from \in {"cache", "issuer", "fallback"}
    PROVE  /\ Sending(token, from) \in Caller
           /\ Sending(token, from).pc = "sending"
           /\ Sending(token, from).token = token
           /\ Sending(token, from).since = now
           /\ Sending(token, from).from = from
  BY DEF Sending, Caller, TypeOK

(* A token that has just been issued lasts as it should.                   *)
LEMMA IssuedLasts ==
    ASSUME TypeOK, NEW since \in Int, since <= now, now <= since + Latency,
           NEW ago \in 0..(now - since), NEW life \in Lifetimes
    PROVE  /\ Issued(ago, life) \in Token
           /\ Issued(ago, life) # NoToken
           /\ Issued(ago, life).until > now + Latency
           /\ Trusted(Issued(ago, life))
  <1>1. life \in Nat /\ life > 2 * Latency /\ Latency \in Nat /\ now \in Int /\ ago \in Nat
    BY TokensAssumption DEF TypeOK
  <1>2. Issued(ago, life).until = now - ago + life
    BY DEF Issued
  <1>3. Issued(ago, life).believed
          = IF provider = "github" THEN now - ago + life ELSE now + life
    BY DEF Issued
  <1>4. Issued(ago, life) \in Token
    BY <1>1 DEF Issued, Token
  <1>5. Issued(ago, life) # NoToken
    BY <1>4, TokensAssumption DEF Token
  <1>6. ago <= Latency
    BY <1>1
  <1> QED
    BY <1>1, <1>2, <1>3, <1>4, <1>5, <1>6 DEF Trusted

(* A fresh token of the cache lasts for two messages.                      *)
LEMMA FreshLasts ==
    ASSUME TokensInv, Fresh(cache)
    PROVE  cache \in Token /\ cache.until > now + Latency
  <1>1. cache \in Token /\ Trusted(cache) /\ now + Skew < cache.believed
    BY DEF TokensInv, TypeOK, Fresh
  <1>2. now \in Int /\ Latency \in Nat /\ Skew \in Nat /\ Skew >= 2 * Latency
    BY TokensAssumption DEF TokensInv, TypeOK
  <1>3. cache.until \in Int /\ cache.believed \in Int
    BY <1>1 DEF Token
  <1> QED
    BY <1>1, <1>2, <1>3 DEF Trusted

-----------------------------------------------------------------------------
(* A step that leaves clock, cache and call, and puts one caller right.    *)
LEMMA CallerStepKeeps ==
    ASSUME TokensInv, NEW c \in Callers, NEW caller \in Caller \cup {Idle},
           Become(c, caller), UNCHANGED <<rigid, now>>,
           cache' \in Token \cup {NoToken}, cache' # NoToken => Trusted(cache'),
           call' = call,
           caller.pc \in {"asking", "sending"} => caller.since = now,
           caller.pc = "sending" => Lasts(caller),
           caller.pc \in {"joining", "waiting"} => provider = "github",
           caller.pc = "waiting" => call # NoCall
    PROVE  TokensInv'
  <1>1. callers' = [callers EXCEPT ![c] = caller] /\ callers \in [Callers -> Caller \cup {Idle}]
    BY DEF Become, TokensInv, TypeOK
  <1>2. /\ callers' \in [Callers -> Caller \cup {Idle}]
        /\ \A d \in Callers : callers'[d] = IF d = c THEN caller ELSE callers[d]
    BY <1>1
  <1>3. now \in Int /\ Latency \in Nat
    BY TokensAssumption DEF TokensInv, TypeOK
  <1>4. TypeOK'
    BY <1>2 DEF TokensInv, TypeOK, At, rigid
  <1>5. (cache # NoToken => Trusted(cache))' /\ CallOK'
    BY DEF TokensInv, Trusted, CallOK, OnTheWay, rigid
  <1>6. ASSUME NEW d \in Callers PROVE CallerOK(d)'
    <2>1. CASE d = c
      BY <1>2, <1>3, <2>1 DEF CallerOK, OnTheWay, Lasts, At, rigid
    <2>2. CASE d # c
      BY <1>2, <2>2 DEF TokensInv, CallerOK, OnTheWay, Lasts, At, rigid
    <2> QED
      BY <2>1, <2>2
  <1> QED
    BY <1>4, <1>5, <1>6 DEF TokensInv

(* The shared call ends, and all who wait get its result.                  *)
LEMMA DeliverKeeps ==
    ASSUME TokensInv, NEW result \in Caller, Deliver(result), UNCHANGED <<rigid, now>>,
           cache' \in Token \cup {NoToken}, cache' # NoToken => Trusted(cache'),
           \/ result.pc = "sending" /\ result.since = now /\ Lasts(result)
           \/ result.pc = "failed"
    PROVE  TokensInv'
  <1>1. /\ callers' \in [Callers -> Caller \cup {Idle}]
        /\ \A d \in Callers : callers'[d] = IF At(d, "waiting") THEN result ELSE callers[d]
    BY DEF Deliver, TokensInv, TypeOK
  <1>2. now \in Int /\ Latency \in Nat
    BY TokensAssumption DEF TokensInv, TypeOK
  <1>3. call' = NoCall
    BY DEF Deliver
  <1>4. TypeOK'
    BY <1>1, <1>3 DEF TokensInv, TypeOK, At, rigid
  <1>5. (cache # NoToken => Trusted(cache))' /\ CallOK'
    BY <1>3 DEF Trusted, CallOK, NoCall, rigid
  <1>6. ASSUME NEW d \in Callers PROVE CallerOK(d)'
    <2>1. CASE At(d, "waiting")
      BY <1>1, <1>2, <2>1 DEF CallerOK, OnTheWay, Lasts, At, rigid
    <2>2. CASE ~At(d, "waiting")
      BY <1>1, <2>2 DEF TokensInv, CallerOK, OnTheWay, Lasts, At, rigid
    <2> QED
      BY <2>1, <2>2
  <1> QED
    BY <1>4, <1>5, <1>6 DEF TokensInv

-----------------------------------------------------------------------------
(* Nothing is cached or asked for at first.                                *)
LEMMA TokensInvInit == Init => TokensInv
  <1> SUFFICES ASSUME Init PROVE TokensInv
    OBVIOUS
  <1>1. provider \in {"github", "oci"} /\ MaxTime \in Nat
    BY TokensAssumption DEF Init
  <1>2. TypeOK
    BY <1>1 DEF Init, TypeOK, At, Idle, NoCall
  <1> QED
    BY <1>2 DEF Init, TokensInv, CallOK, CallerOK, At, Idle, NoCall

(* The requests' steps.                                                    *)
LEMMA CallerActions ==
    ASSUME TokensInv, NEW c \in Callers
    PROVE  /\ Look(c) => TokensInv'
           /\ Join(c) => TokensInv'
           /\ Cancel(c) \/ Fail(c) \/ Answered(c) \/ FetchFails(c) => TokensInv'
           /\ Challenged(c) => TokensInv'
           /\ FetchToken(c) => TokensInv'
  <1>0. /\ now \in Int /\ Latency \in Nat
        /\ cache \in Token \cup {NoToken} /\ (cache # NoToken => Trusted(cache))
        /\ callers \in [Callers -> Caller \cup {Idle}]
    BY TokensAssumption DEF TokensInv, TypeOK
  <1>1. ASSUME Look(c) PROVE TokensInv'
    <2>1. CASE Fresh(cache) /\ Become(c, Sending(cache, "cache"))
      <3> DEFINE caller == Sending(cache, "cache")
      <3>1. caller \in Caller /\ caller.pc = "sending" /\ caller.since = now
        BY <1>0, SendingType DEF TokensInv
      <3>2. caller.token = cache /\ caller.from = "cache"
        BY DEF Sending
      <3>3. Lasts(caller)
        BY <2>1, <3>1, <3>2, FreshLasts DEF Lasts
      <3> HIDE DEF caller
      <3> QED
        BY <1>0, <1>1, <2>1, <3>1, <3>3, CallerStepKeeps DEF Look, caller
    <2>2. CASE provider = "github" /\ Become(c, [pc |-> "joining"])
      <3>1. [pc |-> "joining"] \in Caller
        BY DEF Caller
      <3> QED
        BY <1>0, <1>1, <2>2, <3>1, CallerStepKeeps DEF Look
    <2>3. CASE Become(c, Sending(NoToken, "cache"))
      <3> DEFINE caller == Sending(NoToken, "cache")
      <3>1. caller \in Caller /\ caller.pc = "sending" /\ caller.since = now
        BY SendingType DEF TokensInv
      <3>2. Lasts(caller)
        BY DEF Lasts, Sending
      <3> HIDE DEF caller
      <3> QED
        BY <1>0, <1>1, <2>3, <3>1, <3>2, CallerStepKeeps DEF Look, caller
    <2> QED
      BY <1>1, <2>1, <2>2, <2>3 DEF Look
  <1>2. ASSUME Join(c) PROVE TokensInv'
    <2>1. /\ callers' \in [Callers -> Caller \cup {Idle}]
          /\ \A d \in Callers : callers'[d] = IF d = c THEN [pc |-> "waiting"] ELSE callers[d]
      BY <1>0, <1>2 DEF Join, Become, Caller
    <2>2. /\ \/ call' = call /\ call # NoCall
             \/ call' = [pc |-> "checking"]
          /\ provider = "github" /\ UNCHANGED <<rigid, now, cache>>
      BY <1>2 DEF Join, TokensInv, CallerOK, At
    <2>3. call' # NoCall
      BY <2>2 DEF NoCall
    <2>4. TypeOK'
      BY <2>1, <2>2, <2>3 DEF TokensInv, TypeOK, rigid
    <2>5. (cache # NoToken => Trusted(cache))' /\ CallOK'
      BY <2>2 DEF TokensInv, Trusted, CallOK, OnTheWay, NoCall, rigid
    <2>6. ASSUME NEW d \in Callers PROVE CallerOK(d)'
      BY <2>1, <2>2 DEF TokensInv, CallerOK, OnTheWay, Lasts, At, rigid
    <2> QED
      BY <2>4, <2>5, <2>6 DEF TokensInv
  <1>3. ASSUME Cancel(c) \/ Fail(c) \/ Answered(c) \/ FetchFails(c) PROVE TokensInv'
    <2>1. Become(c, Idle) /\ UNCHANGED <<rigid, now, cache, call>>
      BY <1>3 DEF Cancel, Fail, Answered, FetchFails
    <2>2. Idle.pc = "idle"
      BY DEF Idle
    <2> QED
      BY <1>0, <2>1, <2>2, CallerStepKeeps
  <1>4. ASSUME Challenged(c) PROVE TokensInv'
    <2>1. [pc |-> "asking", since |-> now] \in Caller
      BY <1>0 DEF Caller
    <2> QED
      BY <1>0, <1>4, <2>1, CallerStepKeeps DEF Challenged
  <1>5. ASSUME FetchToken(c) PROVE TokensInv'
    <2>1. callers[c] \in [pc : {"asking"}, since : Int]
      BY <1>0, <1>5 DEF FetchToken, At, Caller, Idle
    <2>2. PICK ago \in 0..(now - callers[c].since), life \in Lifetimes :
            /\ cache' = Issued(ago, life)
            /\ Become(c, Sending(Issued(ago, life), "issuer"))
      BY <1>5 DEF FetchToken
    <2> DEFINE token == Issued(ago, life)
               caller == Sending(token, "issuer")
    <2>3. token \in Token /\ token # NoToken /\ token.until > now + Latency /\ Trusted(token)
      BY <1>5, <2>1, <2>2, IssuedLasts DEF TokensInv, CallerOK, OnTheWay, FetchToken, At
    <2>4. caller \in Caller /\ caller.pc = "sending" /\ caller.since = now
      BY <2>3, SendingType DEF TokensInv
    <2>5. Lasts(caller)
      BY <2>3 DEF Lasts, Sending
    <2> HIDE DEF token, caller
    <2> QED
      BY <1>0, <1>5, <2>2, <2>3, <2>4, <2>5, CallerStepKeeps DEF FetchToken, token, caller
  <1> QED
    BY <1>1, <1>2, <1>3, <1>4, <1>5

(* The shared call's steps, and time.                                      *)
LEMMA CallActions ==
    ASSUME TokensInv
    PROVE  /\ Check => TokensInv'
           /\ Mint => TokensInv'
           /\ MintFails => TokensInv'
           /\ Tick => TokensInv'
  <1>0. /\ now \in Int /\ Latency \in Nat /\ MaxTime \in Nat
        /\ cache \in Token \cup {NoToken} /\ (cache # NoToken => Trusted(cache))
        /\ callers \in [Callers -> Caller \cup {Idle}]
        /\ call.pc = "asking" => call.since \in 0..MaxTime
    BY TokensAssumption DEF TokensInv, TypeOK, NoCall
  <1>1. ASSUME Check PROVE TokensInv'
    <2>1. CASE Fresh(cache) /\ Deliver(Sending(cache, "cache"))
      <3> DEFINE result == Sending(cache, "cache")
      <3>1. result \in Caller /\ result.pc = "sending" /\ result.since = now
        BY <1>0, SendingType DEF TokensInv
      <3>2. Lasts(result)
        BY <2>1, FreshLasts DEF Lasts, Sending
      <3> HIDE DEF result
      <3> QED
        BY <1>0, <1>1, <2>1, <3>1, <3>2, DeliverKeeps DEF Check, result
    <2>2. CASE Ask /\ UNCHANGED callers
      <3>1. /\ call' = [pc |-> "asking", since |-> now] /\ provider = "github"
            /\ UNCHANGED <<rigid, now, cache, callers>>
        BY <1>1, <2>2 DEF Check, Ask, TokensInv, CallOK, NoCall
      <3>2. TypeOK'
        BY <3>1 DEF TokensInv, TypeOK, At, NoCall, rigid
      <3>3. (cache # NoToken => Trusted(cache))' /\ CallOK'
        BY <1>0, <3>1 DEF Trusted, CallOK, OnTheWay, rigid
      <3>4. ASSUME NEW d \in Callers PROVE CallerOK(d)'
        BY <3>1 DEF TokensInv, CallerOK, OnTheWay, Lasts, At, rigid
      <3> QED
        BY <3>2, <3>3, <3>4 DEF TokensInv
    <2> QED
      BY <1>1, <2>1, <2>2 DEF Check
  <1>2. ASSUME Mint PROVE TokensInv'
    <2>1. PICK ago \in 0..(now - call.since), life \in Lifetimes :
            /\ cache' = Issued(ago, life)
            /\ Deliver(Sending(Issued(ago, life), "issuer"))
      BY <1>2 DEF Mint
    <2> DEFINE token == Issued(ago, life)
               result == Sending(token, "issuer")
    <2>2. token \in Token /\ token # NoToken /\ token.until > now + Latency /\ Trusted(token)
      BY <1>0, <1>2, <2>1, IssuedLasts DEF TokensInv, CallOK, OnTheWay, Mint
    <2>3. result \in Caller /\ result.pc = "sending" /\ result.since = now
      BY <2>2, SendingType DEF TokensInv
    <2>4. Lasts(result)
      BY <2>2 DEF Lasts, Sending
    <2>5. UNCHANGED <<rigid, now>>
      BY <1>2 DEF Mint
    <2> HIDE DEF token, result
    <2> QED
      BY <2>1, <2>2, <2>3, <2>4, <2>5, DeliverKeeps DEF token, result
  <1>3. ASSUME MintFails PROVE TokensInv'
    <2>1. call.pc = "asking" /\ provider = "github" /\ UNCHANGED <<rigid, now, cache>>
      BY <1>3 DEF MintFails, TokensInv, CallOK, NoCall
    <2>2. CASE Valid(cache) /\ Deliver(Sending(cache, "fallback"))
      <3> DEFINE result == Sending(cache, "fallback")
      <3>1. result \in Caller /\ result.pc = "sending" /\ result.since = now
        BY <1>0, SendingType DEF TokensInv
      <3>2. Lasts(result)
        BY <1>0, <2>1, <2>2 DEF Lasts, Sending, Valid, Trusted
      <3> HIDE DEF result
      <3> QED
        BY <1>0, <2>1, <2>2, <3>1, <3>2, DeliverKeeps DEF result
    <2>3. CASE Deliver([pc |-> "failed"])
      <3>1. [pc |-> "failed"] \in Caller
        BY DEF Caller
      <3> QED
        BY <1>0, <2>1, <2>3, <3>1, DeliverKeeps
    <2> QED
      BY <1>3, <2>2, <2>3 DEF MintFails
  <1>4. ASSUME Tick PROVE TokensInv'
    <2>1. now' = now + 1 /\ now < MaxTime /\ UNCHANGED <<rigid, cache, call, callers>>
      BY <1>4 DEF Tick
    <2>2. TypeOK'
      BY <1>0, <2>1 DEF TokensInv, TypeOK, At, rigid
    <2>3. (cache # NoToken => Trusted(cache))' /\ CallOK'
      BY <1>0, <1>4, <2>1 DEF Tick, InTime, TokensInv, Trusted, CallOK, OnTheWay, rigid
    <2>4. ASSUME NEW d \in Callers PROVE CallerOK(d)'
      <3>1. callers[d].pc \in {"asking", "sending"} => callers[d].since \in Int
        BY <1>0 DEF Caller, Idle
      <3> QED
        BY <1>0, <1>4, <2>1, <3>1 DEF Tick, InTime, TokensInv, CallerOK, OnTheWay, Lasts, At,
                                      rigid
    <2> QED
      BY <2>2, <2>3, <2>4 DEF TokensInv
  <1> QED
    BY <1>1, <1>2, <1>3, <1>4

(* The invariant is inductive.                                             *)
LEMMA TokensInvStep == TokensInv /\ [Next]_vars => TokensInv'
  <1> SUFFICES ASSUME TokensInv, [Next]_vars PROVE TokensInv'
    OBVIOUS
  <1>1. CASE CallStep \/ Tick
    BY <1>1, CallActions DEF CallStep
  <1>2. ASSUME NEW c \in Callers, Look(c) \/ Cancel(c) \/ Challenged(c) \/ CallerStep(c)
        PROVE  TokensInv'
    BY <1>2, CallerActions DEF CallerStep
  <1>3. CASE UNCHANGED vars
    BY <1>3 DEF vars, rigid, TokensInv, TypeOK, Trusted, CallOK, CallerOK, OnTheWay, Lasts, At
  <1> QED
    BY <1>1, <1>2, <1>3 DEF Next

-----------------------------------------------------------------------------
(* A token that lasts beyond the request's latest arrival lasts until it.  *)
LEMMA TokensInvArrives == TokensInv => TokensArriveValid
  <1> SUFFICES ASSUME TokensInv PROVE TokensArriveValid
    OBVIOUS
  <1> SUFFICES ASSUME NEW c \in Callers, At(c, "sending"), callers[c].token # NoToken
               PROVE  callers[c].token.until >
                        (IF callers[c].from = "fallback" THEN callers[c].since ELSE now)
    BY DEF TokensArriveValid, TokensInv
  <1>1. callers[c] \in [pc : {"sending"}, token : Token \cup {NoToken}, since : Int,
                        from : {"cache", "issuer", "fallback"}]
    BY DEF TokensInv, TypeOK, At, Caller, Idle
  <1>2. callers[c].token.until \in Int
    BY <1>1 DEF Token
  <1> QED
    BY <1>1, <1>2, TokensAssumption DEF TokensInv, TypeOK, CallerOK, OnTheWay, Lasts, At

(* No token expires on its way to the upstream, as long as messages take   *)
(* no more than half of the skew (github_app.go:166, 190; auth.go:41).     *)
THEOREM TokensAreValid == Spec => []TokensArriveValid
  BY TokensInvInit, TokensInvStep, TokensInvArrives, PTL DEF Spec

(* Only the call's failure fails requests, and only its check asks.        *)
LEMMA StepUsesTheCache ==
    ASSUME TokensInv, [Next]_vars
    PROVE  /\ call'.pc = "asking" /\ call.pc # "asking" => ~Fresh(cache)
           /\ \A c \in Callers : callers'[c].pc = "failed" /\ ~At(c, "failed") => ~Valid(cache)
  <1>0. callers \in [Callers -> Caller \cup {Idle}]
    BY DEF TokensInv, TypeOK
  <1>1. CASE Check
    BY <1>0, <1>1 DEF Check, Ask, Deliver, Sending, NoCall, At
  <1>2. CASE Mint
    BY <1>0, <1>2 DEF Mint, Deliver, Sending, NoCall, At
  <1>3. CASE MintFails
    BY <1>0, <1>3 DEF MintFails, Deliver, Sending, NoCall, At
  <1>4. CASE Tick
    BY <1>4 DEF Tick, At
  <1>5. ASSUME NEW d \in Callers, Look(d) \/ Cancel(d) \/ Challenged(d) \/ CallerStep(d)
        PROVE  /\ call' = call \/ call'.pc = "checking"
               /\ \A c \in Callers : callers'[c].pc = "failed" => At(c, "failed")
    <2>1. CASE Look(d)
      BY <1>0, <2>1 DEF Look, Become, Sending, At
    <2>2. CASE Join(d)
      BY <1>0, <2>2 DEF Join, Become, At
    <2>3. CASE Cancel(d) \/ Fail(d) \/ Answered(d) \/ FetchFails(d)
      BY <1>0, <2>3 DEF Cancel, Fail, Answered, FetchFails, Become, At, Idle
    <2>4. CASE Challenged(d)
      BY <1>0, <2>4 DEF Challenged, Become, At
    <2>5. CASE FetchToken(d)
      BY <1>0, <2>5 DEF FetchToken, Become, Sending, At
    <2> QED
      BY <1>5, <2>1, <2>2, <2>3, <2>4, <2>5 DEF CallerStep
  <1>6. CASE UNCHANGED vars
    BY <1>6 DEF vars, At
  <1> QED
    BY <1>1, <1>2, <1>3, <1>4, <1>5, <1>6 DEF Next, CallStep

(* No token is minted while a fresh one is cached, and no request fails    *)
(* while one lasts (github_app.go:172-188).                                *)
THEOREM CallsUseTheCache == Spec => CallUsesTheCache
  <1>1. Spec => []TokensInv
    BY TokensInvInit, TokensInvStep, PTL DEF Spec
  <1>2. TokensInv /\ [Next]_vars
          => [/\ call'.pc = "asking" /\ call.pc # "asking" => ~Fresh(cache)
              /\ \A c \in Callers :
                   callers'[c].pc = "failed" /\ ~At(c, "failed") => ~Valid(cache)]_vars
    BY StepUsesTheCache
  <1> QED
    BY <1>1, <1>2, PTL DEF Spec, CallUsesTheCache
=============================================================================
