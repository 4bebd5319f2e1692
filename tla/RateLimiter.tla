---------------------------- MODULE RateLimiter ----------------------------
(* The ingest limiter of internal/server/ratelimit.go: one token bucket per   *)
(* client IP, created at its first request, refilled lazily at the next one    *)
(* and dropped after a long silence.  Allow runs under one mutex, so it is     *)
(* one action.  Tokens are counted in credits, Cost of them to a token, so     *)
(* that Rate credits per tick stand for the code's fractional refill.          *)
EXTENDS Integers, FiniteSets

CONSTANTS
    Keys,        \* client IPs
    Rate,        \* credits gained per tick ("rate")
    Burst,       \* credits a bucket holds ("burst")
    Cost,        \* credits of one token, what a request takes
    PruneAfter,  \* silence after which a bucket may go ("pruneAfter")
    PruneAt,     \* number of buckets at which pruning begins (64)
    Horizon      \* bound: ticks in a behaviour

ASSUME LimiterAssumption ==
    /\ Rate \in Nat /\ Burst \in Nat /\ Cost \in Nat \ {0}
    /\ PruneAfter \in Nat /\ PruneAt \in Nat /\ Horizon \in Nat
    \* 600 s at 10 tokens/s against a bucket of 60: a bucket that may be pruned
    \* has had the time to fill up.
    /\ PruneAfter * Rate >= Burst

VARIABLES
    now,      \* the limiter's clock
    buckets,  \* the map, as a function from the IPs that have a bucket
    answer,   \* what the last Allow returned, and to whom
    granted   \* history: requests let through, per IP

vars == <<now, buckets, answer, granted>>

NoAnswer == <<>>

\* A bucket's tokens after the lazy refill.
MutRefilled(b) == b.tokens + (now - b.updated) * Rate   \* mutation: no brim
Refilled(b) ==
    IF b.tokens + (now - b.updated) * Rate > Burst
    THEN Burst
    ELSE b.tokens + (now - b.updated) * Rate

\* The tokens Allow finds for k: of its bucket, or of the one it creates.
Found(k) == IF k \in DOMAIN buckets THEN Refilled(buckets[k]) ELSE Burst

\* maybePrune: what is left of the map bs.
MutIdle(b) == now - b.lastSeen >= 1   \* mutation: prune too early
Idle(b) == now - b.lastSeen > PruneAfter
MutPruned(bs) == IF Cardinality(DOMAIN bs) <= PruneAt   \* mutation: off by one
                 THEN bs
                 ELSE [k \in {j \in DOMAIN bs : ~Idle(bs[j])} |-> bs[k]]
Pruned(bs) == IF Cardinality(DOMAIN bs) < PruneAt
              THEN bs
              ELSE [k \in {j \in DOMAIN bs : ~Idle(bs[j])} |-> bs[k]]

\* A bucket k gets when it is touched with t credits left; updated and lastSeen
\* are both set to now.
Touched(k, t) ==
    [j \in DOMAIN buckets \cup {k} |->
        IF j = k THEN [tokens |-> t, updated |-> now, lastSeen |-> now] ELSE buckets[j]]

\* Allow, for a request that finds a token and for one that does not.
Grant(k) ==
    /\ Found(k) >= Cost
    /\ buckets' = Pruned(Touched(k, Found(k) - Cost))
    /\ answer' = <<k, TRUE>>
    /\ granted' = [granted EXCEPT ![k] = @ + 1]
    /\ UNCHANGED now

MutDeny(k) ==   \* mutation: a refused request is charged too
    /\ Found(k) < Cost
    /\ buckets' = Pruned(Touched(k, 0))
    /\ answer' = <<k, FALSE>>
    /\ UNCHANGED <<now, granted>>
Deny(k) ==
    /\ Found(k) < Cost
    /\ buckets' = Pruned(Touched(k, Found(k)))
    /\ answer' = <<k, FALSE>>
    /\ UNCHANGED <<now, granted>>

Tick ==
    /\ now < Horizon
    /\ now' = now + 1
    /\ answer' = NoAnswer
    /\ UNCHANGED <<buckets, granted>>

Init ==
    /\ now = 0
    /\ buckets = [k \in {} |-> [tokens |-> 0, updated |-> 0, lastSeen |-> 0]]
    /\ answer = NoAnswer
    /\ granted = [k \in Keys |-> 0]

Next == Tick \/ \E k \in Keys : Grant(k) \/ Deny(k)

Spec == Init /\ [][Next]_vars

-----------------------------------------------------------------------------
(* Properties *)

Bucket == [tokens : 0 .. Burst, updated : 0 .. now, lastSeen : 0 .. now]

\* The map holds well-formed buckets, between empty and brim-full, of the past.
TypeOK ==
    /\ now \in 0 .. Horizon
    /\ DOMAIN buckets \subseteq Keys
    /\ buckets = [k \in DOMAIN buckets |-> buckets[k]]
    /\ \A k \in DOMAIN buckets :
        buckets[k] \in Bucket /\ buckets[k].updated = buckets[k].lastSeen
    /\ answer \in {NoAnswer} \cup (Keys \X BOOLEAN)
    /\ granted \in [Keys -> Nat]

\* The promise to the server, over every window: whatever requests come, and
\* however buckets are dropped and made again in between, an IP's credit and what
\* it was granted grow by no more than Rate a tick.  A bucket holds Burst at most,
\* so no window lets more than Burst plus Rate per tick through.
NoFreeTokens ==
    [][\A k \in Keys :
        Cost * granted'[k] + Found(k)' <=
            Cost * granted[k] + Found(k) + Rate * (now' - now)]_vars

\* "Buckets are pruned lazily after pruneAfter of inactivity to bound memory": when
\* a request leaves the map at its threshold or above, every bucket in it is of an
\* IP that was active lately.
MapIsBounded ==
    [][answer' # NoAnswer /\ Cardinality(DOMAIN buckets') >= PruneAt =>
        \A k \in DOMAIN buckets' : now - buckets'[k].lastSeen <= PruneAfter]_vars

-----------------------------------------------------------------------------
(* Lazy refills and pruning cannot be told from the ideal bucket: the answers *)
(* are the same, so an IP is refused only when its bucket is really empty.    *)

Ideal == INSTANCE TokenBucket WITH level <- [k \in Keys |-> Found(k)]

IsTokenBucket == Ideal!Spec
=============================================================================
