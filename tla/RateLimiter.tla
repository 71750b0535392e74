------------------------------ MODULE RateLimiter ------------------------------
(***************************************************************************)
(* The rate limiter of urlshort: a token bucket per key, kept for the keys *)
(* that asked last.  A request looks its bucket up under the lock, which   *)
(* makes one and evicts another when needed, and takes its token after the *)
(* lock is released.                                                       *)
(***************************************************************************)
EXTENDS Naturals, FiniteSets, Sequences

CONSTANTS
    RateKeys,       \* addresses, or names of clients
    Handlers,       \* requests handled at a time
    MaxTracked,     \* keys tracked, 10000 in the code
    Burst, Rate,    \* the bucket's size, and its tokens per second
    MaxSecond,      \* bound of the model: the last second
    MaxAsks         \* bound of the model: requests

ASSUME RateLimiterAssumption ==
    /\ IsFiniteSet(RateKeys) /\ IsFiniteSet(Handlers)
    /\ MaxTracked \in Nat \ {0} /\ Burst \in Nat \ {0} /\ Rate \in Nat
    /\ MaxSecond \in Nat /\ MaxAsks \in Nat

VARIABLES
    second,      \* the clock
    order,       \* the tracked buckets, the one asked for last in front
    bucket,      \* the buckets: whose, and how many tokens
    holds,       \* per handler, the bucket it looked up, or 0
    asks,        \* history: how many requests came
    others,      \* history: per key, the keys that asked since it did, itself
                 \* among them when it never did
    fresh,       \* history: per key, how often it asked after MaxTracked others
    allowed      \* history: per key, how many tokens it took

rateVars == <<second, order, bucket, holds, asks, others, fresh, allowed>>

\* Enough for the tracked ones and those that are still held.
BucketIds == 1..(MaxTracked + Cardinality(Handlers))

RateInit ==
    /\ second = 0
    /\ order = <<>>
    /\ bucket \in [BucketIds -> {[key |-> "nobody", tokens |-> 0]}]
    /\ holds = [h \in Handlers |-> 0]
    /\ asks = 0
    /\ others = [k \in RateKeys |-> RateKeys]
    /\ fresh = [k \in RateKeys |-> 0]
    /\ allowed = [k \in RateKeys |-> 0]

-----------------------------------------------------------------------------
Tracked == {order[p] : p \in DOMAIN order}

\* Mutation of ToFront: the order is that of the first requests.
ToFrontNot(i) == order

ToFront(i) ==
    LET place == CHOOSE p \in DOMAIN order : order[p] = i IN
    [p \in DOMAIN order |->
        IF p = 1 THEN i ELSE order[IF p <= place THEN p - 1 ELSE p]]

\* A key that is tracked: its bucket is the one used last.
Find(h, k) ==
    \E i \in Tracked :
        /\ bucket[i].key = k
        /\ order' = ToFront(i)
        /\ holds' = [holds EXCEPT ![h] = i]
        /\ UNCHANGED bucket

\* Another key: it gets a full bucket; when too many are tracked, the last goes.
Make(h, k) ==
    LET i == CHOOSE i \in BucketIds : i \notin Tracked /\ \A g \in Handlers : holds[g] # i IN
    /\ \A j \in Tracked : bucket[j].key # k
    /\ order' = <<i>> \o SubSeq(order, 1, IF Len(order) >= MaxTracked THEN Len(order) - 1 ELSE Len(order))
    /\ bucket' = [bucket EXCEPT ![i] = [key |-> k, tokens |-> Burst]]
    /\ holds' = [holds EXCEPT ![h] = i]

\* Allow, under the lock.
Ask(h, k) ==
    /\ holds[h] = 0 /\ asks < MaxAsks
    /\ Find(h, k) \/ Make(h, k)
    /\ asks' = asks + 1
    /\ fresh' = [fresh EXCEPT ![k] =
         IF k \in others[k] \/ Cardinality(others[k]) >= MaxTracked THEN @ + 1 ELSE @]
    /\ others' = [o \in RateKeys |-> IF o = k THEN {} ELSE others[o] \cup {k}]
    /\ UNCHANGED <<second, allowed>>

\* Allow, after it; the bucket may have been evicted.
TakeToken(h) ==
    /\ holds[h] # 0
    /\ LET i == holds[h] IN
       IF bucket[i].tokens = 0 THEN UNCHANGED <<bucket, allowed>>
       ELSE /\ bucket' = [bucket EXCEPT ![i].tokens = @ - 1]
            /\ allowed' = [allowed EXCEPT ![bucket[i].key] = IF i \in Tracked THEN @ + 1 ELSE @]
    /\ holds' = [holds EXCEPT ![h] = 0]
    /\ UNCHANGED <<second, order, asks, others, fresh>>

Refill ==
    /\ second < MaxSecond
    /\ second' = second + 1
    /\ bucket' = [i \in BucketIds |->
         [bucket[i] EXCEPT !.tokens = IF @ + Rate > Burst THEN Burst ELSE @ + Rate]]
    /\ UNCHANGED <<order, holds, asks, others, fresh, allowed>>

RateNext ==
    \/ \E h \in Handlers : TakeToken(h) \/ \E k \in RateKeys : Ask(h, k)
    \/ Refill

RateSpec == RateInit /\ [][RateNext]_rateVars

-----------------------------------------------------------------------------
\* A key has a burst, and the rate on top of it, and a new burst only when it
\* never asked or at least MaxTracked other keys asked since it did, but for
\* requests that looked their bucket up before it was evicted (Allow): those who
\* keep asking are not forgotten for the many who ask once.
RateHeld == \A k \in RateKeys : allowed[k] <= Burst * fresh[k] + Rate * second
=============================================================================
