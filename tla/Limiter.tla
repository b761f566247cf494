-------------------------------- MODULE Limiter --------------------------------
(***************************************************************************)
(* The rate limit of /wallet/restore and the wallet handlers behind it     *)
(* (cmd/thomasd/main.go, internal/rpc/router.go).                          *)
(*                                                                         *)
(* main wraps the RPC router in withRateLimitRestore, and the mux that     *)
(* holds the router in withRateLimitRestore again.  Both layers use the    *)
(* one map rl, so a request takes a token in each.  A layer is one section *)
(* of rlMu; requests of any client interleave between the sections, and    *)
(* time passes.  Only whole tokens are refilled, and the time of the last  *)
(* refill moves only when there was one.                                   *)
(***************************************************************************)
EXTENDS Naturals, Sequences, FiniteSets

CONSTANTS
    Client,      \* client addresses
    Rpm,         \* requests per minute (5)
    TokenTime,   \* the time in which one token comes back: a minute / Rpm
    Call,        \* goroutines of the HTTP server
    HttpReq,     \* requests: [path, method, body]
    MaxTime      \* bound on the clock

ASSUME LimiterAssumption ==
    /\ Rpm \in Nat /\ Rpm >= 2
    /\ TokenTime \in Nat \ {0}
    /\ MaxTime \in Nat
    /\ HttpReq \subseteq [path : {"restore", "restore_sub", "create"},
                          method : {"OPTIONS", "GET", "POST"},
                          body : {"valid", "bad_words", "garbled"}]

VARIABLES
    clock,    \* time.Now
    rl,       \* the buckets: a function from the clients seen so far
    calls,    \* each goroutine: its client and request, where it is, the last reply
    spans     \* history: when each restore of a client took its first and last token

rlVars == <<clock, rl, calls, spans>>

NoCall == [ip |-> "none", req |-> [path |-> "none"], at |-> "idle", from |-> 0, patient |-> FALSE,
           reply |-> 0]

RlInit ==
    /\ clock = 0
    /\ rl = [c \in {} |-> 0]
    /\ calls = [k \in Call |-> NoCall]
    /\ spans = [c \in Client |-> <<>>]

-------------------------------------------------------------------------------
\* strings.HasPrefix(r.URL.Path, "/wallet/restore")
Limited(r) == r.path \in {"restore", "restore_sub"}

\* rl[ip], made full at the first request
Bucket(c) == IF c \in DOMAIN rl THEN rl[c] ELSE [tokens |-> Rpm, last |-> clock]

\* Mutant: the time of the refill is not kept, and the same time refills again.
RefillKeepsTime(b) ==
    LET add == (clock - b.last) \div TokenTime
    IN  IF b.tokens + add > Rpm THEN [b EXCEPT !.tokens = Rpm] ELSE [b EXCEPT !.tokens = @ + add]

\* refill
Refill(b) ==
    LET add == (clock - b.last) \div TokenTime
    IN  IF add > 0
        THEN [tokens |-> IF b.tokens + add > Rpm THEN Rpm ELSE b.tokens + add, last |-> clock]
        ELSE b

PutBucket(c, b) == rl' = [x \in DOMAIN rl \cup {c} |-> IF x = c THEN b ELSE rl[x]]

\* the reply; whether a refused client was patient is remembered with it
Answered(k, code) ==
    [calls EXCEPT ![k] = [NoCall EXCEPT !.reply = code,
                                        !.patient = code = 429 /\ calls[k].patient]]
Onward(k, next) == [calls EXCEPT ![k].at = next,
                                 ![k].from = IF next = "inner" THEN clock ELSE @]

\* Mutant: a bucket is refilled only after a token was found in it.
TakeTokenThenRefill(k, next) ==
    LET c == calls[k].ip
        b == Bucket(c)
    IN  IF b.tokens = 0
        THEN PutBucket(c, b) /\ calls' = Answered(k, 429)
        ELSE /\ PutBucket(c, [Refill(b) EXCEPT !.tokens = @ - 1])
             /\ calls' = Onward(k, next)

\* One layer of withRateLimitRestore, for a path it limits.
TakeToken(k, next) ==
    LET c == calls[k].ip
        b == Refill(Bucket(c))
    IN  IF b.tokens = 0
        THEN PutBucket(c, b) /\ calls' = Answered(k, 429)
        ELSE /\ PutBucket(c, [b EXCEPT !.tokens = @ - 1])
             /\ calls' = Onward(k, next)

\* withRateLimitRestore
Layer(k, here, next) ==
    /\ calls[k].at = here
    /\ IF Limited(calls[k].req) THEN TakeToken(k, next)
       ELSE calls' = Onward(k, next) /\ UNCHANGED rl
    /\ UNCHANGED clock

-------------------------------------------------------------------------------
\* The last time a client's bucket was refilled; clients that are patient leave it
\* alone for the time of two tokens.
Rested(c) ==
    /\ c \in DOMAIN rl => clock >= rl[c].last + 2 * TokenTime
    /\ \A k \in Call : calls[k].ip # c

\* A request comes in.  withCORS answers OPTIONS before any limiter.
Arrive(k, c, r) ==
    /\ calls[k].at = "idle"
    /\ IF r.method = "OPTIONS" THEN calls' = Answered(k, 204)
       ELSE LET new == [NoCall EXCEPT !.ip = c, !.req = r, !.at = "outer", !.patient = Rested(c)]
            IN  calls' = [x \in Call |-> IF x = k THEN new
                            ELSE [calls[x] EXCEPT !.patient = @ /\ calls[x].ip # c]]
    /\ UNCHANGED <<clock, rl, spans>>

\* root: the outer layer, in front of the mux.
OuterLayer(k) == Layer(k, "outer", "inner") /\ UNCHANGED spans

\* h: the inner layer, in front of the router.  A restore has all its tokens.
InnerLayer(k) ==
    /\ Layer(k, "inner", "handler")
    /\ spans' = IF calls'[k].at = "handler" /\ Limited(calls[k].req)
                THEN [spans EXCEPT ![calls[k].ip] =
                        Append(@, [from |-> calls[k].from, to |-> clock])]
                ELSE spans

\* walletRestoreHandler, walletCreateHandler (whose key generation may fail), and the
\* router's 404.
WalletReply(r) ==
    CASE r.path = "restore_sub" -> {404}
      [] r.path # "restore_sub" /\ r.method # "POST" -> {405}
      [] r.path = "restore" /\ r.method = "POST" -> IF r.body = "valid" THEN {200} ELSE {400}
      [] r.path = "create" /\ r.method = "POST" -> {200, 500}

Handle(k) ==
    /\ calls[k].at = "handler"
    /\ \E code \in WalletReply(calls[k].req) : calls' = Answered(k, code)
    /\ UNCHANGED <<clock, rl, spans>>

Tick == clock < MaxTime /\ clock' = clock + 1 /\ UNCHANGED <<rl, calls, spans>>

RlNext ==
    \/ \E k \in Call : OuterLayer(k) \/ InnerLayer(k) \/ Handle(k)
    \/ \E k \in Call, c \in Client, r \in HttpReq : Arrive(k, c, r)
    \/ Tick

RlSpec == RlInit /\ [][RlNext]_rlVars
-------------------------------------------------------------------------------
\* In any stretch of time the restores of a client that lie in it are at most half of
\* a full bucket and the tokens that came back meanwhile (and one under way), however
\* its requests overlap: both layers charge the one bucket.
RestoresBounded ==
    \A c \in Client : \A t1 \in 0 .. clock : \A t2 \in t1 .. clock :
        2 * Cardinality({i \in DOMAIN spans[c] : spans[c][i].from >= t1 /\ spans[c][i].to <= t2})
          <= Rpm + 1 + (t2 - t1) \div TokenTime

\* A client that asks once, the time of two tokens after its bucket was last refilled,
\* is never refused: neither other clients nor the second charge make it wait longer.
PatientIsServed == \A k \in Call : calls[k].reply = 429 => ~calls[k].patient
===============================================================================
