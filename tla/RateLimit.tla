----------------------------- MODULE RateLimit -----------------------------
(***************************************************************************)
(* ratelimit.Limiter (internal/ratelimit/ratelimit.go): one token bucket   *)
(* per key, filled when the key is used, and forgotten by a cleanup that   *)
(* runs inside Allow.  The mutex is held for the whole of every call, but  *)
(* the clock runs on: a call reads it three times in the cleanup, then for *)
(* the refill and for the bucket's new lastCheck, and may see five times.  *)
(*                                                                         *)
(* tokens is a float64 in the code; here it is counted in parts, Cost of   *)
(* which make a token.  `admits` is history: when each key was allowed.    *)
(***************************************************************************)
EXTENDS Integers, Sequences, Functions

CONSTANTS
    Keys,               \* client addresses
    Rate,               \* Limiter.rate: parts of a token per tick
    Cost,               \* parts that make one token
    Burst,              \* Limiter.burst
    CleanupInterval,    \* Limiter.cleanupInterval, in ticks
    Slip,               \* bound: how far the clock moves during one call
    MaxNow,             \* bound: the clock stops here
    MaxAdmits           \* bound: requests allowed for one key

\* With no token to give, the first request of a key is admitted all the same.
ASSUME LimiterAssumption ==
    /\ Rate \in Nat
    /\ Cost \in Nat \ {0}
    /\ Burst \in Nat \ {0}
    /\ CleanupInterval \in Nat
    /\ Slip \in Nat /\ MaxNow \in Nat /\ MaxAdmits \in Nat

Full == Burst * Cost

VARIABLES
    now,
    lastCleanup,        \* Limiter.lastCleanup
    buckets,            \* Limiter.buckets: a function on the keys it has
    admits

vars == <<now, lastCleanup, buckets, admits>>

Bucket == [tokens : Nat, lastCheck : Nat]

Init ==
    /\ now = 0
    /\ lastCleanup = 0
    /\ buckets = [k \in {} |-> 0]
    /\ admits = [k \in Keys |-> <<>>]

Tick ==
    /\ now < MaxNow
    /\ now' = now + 1
    /\ UNCHANGED <<lastCleanup, buckets, admits>>

CleanupDue(t) == t - lastCleanup >= CleanupInterval

\* Mutant: buckets idle for one interval are forgotten too.
IdleOneInterval(k, t) == buckets[k].lastCheck < t - CleanupInterval

\* b.lastCheck.Before(cutoff).
Idle(k, t) == buckets[k].lastCheck < t - 2 * CleanupInterval

\* The buckets that maybeCleanup leaves.
AfterCleanup(due, cutoff) ==
    IF CleanupDue(due)
    THEN Restrict(buckets, {k \in DOMAIN buckets : ~Idle(k, cutoff)})
    ELSE buckets

\* Mutant: the bucket overflows.
RefilledUncapped(b, t) == b.tokens + Rate * (t - b.lastCheck)

\* The tokens after the refill.
Refilled(b, t) ==
    LET tokens == b.tokens + Rate * (t - b.lastCheck)
    IN  IF tokens > Full THEN Full ELSE tokens

With(bs, k, tokens, t) ==
    [j \in DOMAIN bs \cup {k} |->
        IF j = k THEN [tokens |-> tokens, lastCheck |-> t] ELSE bs[j]]

Admitted(k) == admits' = [admits EXCEPT ![k] = Append(@, now')]

\* Allow(key) with no bucket for the key: a full one, less the token taken.
AllowNew(k, bs, check) ==
    /\ k \notin DOMAIN bs
    /\ buckets' = With(bs, k, Full - Cost, check)
    /\ Admitted(k)

\* Mutant: no test for a whole token.
AllowTokenAnyway(k, bs, refill, check) ==
    /\ k \in DOMAIN bs
    /\ buckets' = With(bs, k, Refilled(bs[k], refill) - Cost, check)
    /\ Admitted(k)

\* Allow(key) with a bucket that holds a token.
AllowToken(k, bs, refill, check) ==
    /\ k \in DOMAIN bs
    /\ Refilled(bs[k], refill) >= Cost
    /\ buckets' = With(bs, k, Refilled(bs[k], refill) - Cost, check)
    /\ Admitted(k)

\* Allow(key) with a bucket that does not: the refill is stored all the same.
Refuse(k, bs, refill, check) ==
    /\ k \in DOMAIN bs
    /\ Refilled(bs[k], refill) < Cost
    /\ buckets' = With(bs, k, Refilled(bs[k], refill), check)
    /\ UNCHANGED admits

\* The readings of the clock come in this order.
Allow(k) ==
    \E due, cleaned, cutoff, refill, check \in now .. (now + Slip) :
        /\ due <= cleaned /\ cleaned <= cutoff
        /\ cutoff <= refill /\ refill <= check /\ check <= MaxNow
        /\ Len(admits[k]) < MaxAdmits
        /\ now' = check
        /\ lastCleanup' = IF CleanupDue(due) THEN cleaned ELSE lastCleanup
        /\ \/ AllowNew(k, AfterCleanup(due, cutoff), check)
           \/ AllowToken(k, AfterCleanup(due, cutoff), refill, check)
           \/ Refuse(k, AfterCleanup(due, cutoff), refill, check)

\* Reset(key) is a caller's decision to begin anew.
Reset(k) ==
    /\ buckets' = Restrict(buckets, DOMAIN buckets \ {k})
    /\ admits' = [admits EXCEPT ![k] = <<>>]
    /\ UNCHANGED <<now, lastCleanup>>

Next ==
    \/ Tick
    \/ \E k \in Keys : Allow(k) \/ Reset(k)

Spec == Init /\ [][Next]_vars

-----------------------------------------------------------------------------
(* Properties.                                                             *)

TypeOK ==
    /\ now \in Nat
    /\ lastCleanup \in Nat /\ lastCleanup <= now
    /\ DOMAIN buckets \subseteq Keys
    /\ buckets \in [DOMAIN buckets -> Bucket]
    /\ admits \in [Keys -> Seq(Nat)]

\* No bucket is ahead of the clock or holds more than a burst.
BucketInv ==
    \A k \in DOMAIN buckets :
        buckets[k].lastCheck <= now /\ buckets[k].tokens <= Full

\* What a key could still take at once: the tokens its bucket would be
\* refilled to, or a full burst if it has none.
Level(k) == IF k \in DOMAIN buckets THEN Refilled(buckets[k], now) ELSE Full

TokenBucketOf(k) == INSTANCE TokenBucket WITH level <- Level(k), admits <- admits[k]

\* Forgetting an idle bucket is harmless only when a bucket that has been idle
\* for two cleanup intervals is full.
CleanupIsSafe == Rate * 2 * CleanupInterval >= Full

\* Seen from any one key, lazily refilled buckets that a cleanup forgets are a
\* token bucket, whatever the other keys do.  (This is TokenBucketOf(k)!Spec
\* for every k, with the quantifier inside.)
ImplementsTokenBucket ==
    /\ \A k \in Keys : TokenBucketOf(k)!Init
    /\ [][\A k \in Keys :
            [TokenBucketOf(k)!Next]_<<now, Level(k), admits[k]>>]_vars

\* No stretch of time sees more requests of a key than the burst and the rate
\* allow.
RateAndBurst == \A k \in Keys : TokenBucketOf(k)!Conforms
=============================================================================
