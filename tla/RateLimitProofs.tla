-------------------------- MODULE RateLimitProofs --------------------------
(* For every set of keys, rate, burst and cleanup interval, and however    *)
(* far the clock moves within a call: the limiter is type correct, and if  *)
(* a bucket idle for two cleanup intervals is full it implements a token   *)
(* bucket for each key, hence keeps each key to its rate and its burst.    *)
EXTENDS RateLimit, SequenceTheorems, TLAPS

\* The lemmas about histories, which mention no state.
History == INSTANCE TokenBucketProofs WITH level <- 0, admits <- <<>>

-----------------------------------------------------------------------------
(* Arithmetic.                                                             *)

\* The limits are numbers, and a full bucket holds at least one token.
LEMMA Constants ==
    /\ Rate \in Nat /\ Cost \in Nat /\ Burst \in Nat /\ Full \in Nat
    /\ CleanupInterval \in Nat /\ Cost <= Full
  <1>1. \A b, c \in Nat : b # 0 => b * c \in Nat /\ c <= b * c
    BY Z3
  <1>2. QED
    BY <1>1, LimiterAssumption DEF Full

\* What flows in from `a` to `c` flows in from `a` to `b` and from `b` to `c`,
\* and is never negative.
LEMMA Flow ==
    ASSUME NEW a \in Nat, NEW b \in Nat, NEW c \in Nat, a <= b, b <= c
    PROVE  /\ Rate * (b - a) \in Nat /\ Rate * (c - b) \in Nat
           /\ Rate * (c - a) = Rate * (b - a) + Rate * (c - b)
  <1>1. \A r, x, y \in Nat : r * x \in Nat /\ r * y \in Nat /\ r * (x + y) = r * x + r * y
    BY Z3
  <1>2. b - a \in Nat /\ c - b \in Nat /\ c - a = (b - a) + (c - b)
    OBVIOUS
  <1>3. QED
    BY <1>1, <1>2, Constants

\* More time, more flow.
LEMMA MoreFlow ==
    ASSUME NEW x \in Nat, NEW y \in Nat, x <= y
    PROVE  Rate * x \in Nat /\ Rate * y \in Nat /\ Rate * x <= Rate * y
  <1>1. \A r, a, b \in Nat : a <= b => r * a \in Nat /\ r * b \in Nat /\ r * a <= r * b
    BY Z3
  <1>2. QED
    BY <1>1, Constants

-----------------------------------------------------------------------------
(* One bucket.                                                             *)

\* A refill leaves between nothing and a burst.
LEMMA RefillRange ==
    ASSUME NEW b \in Bucket, NEW t \in Nat, b.lastCheck <= t
    PROVE  Refilled(b, t) \in Nat /\ Refilled(b, t) <= Full
  <1>1. b.tokens \in Nat /\ b.lastCheck \in Nat
    BY DEF Bucket
  <1>2. Rate * (t - b.lastCheck) \in Nat
    <2>1. t - b.lastCheck \in Nat /\ t - b.lastCheck <= t - b.lastCheck
      BY <1>1
    <2>2. QED
      BY ONLY <2>1, MoreFlow
  <1>3. QED
    BY <1>1, <1>2, Constants DEF Refilled

\* Refilling at once and refilling in two parts come to the same.
LEMMA RefillLater ==
    ASSUME NEW b \in Bucket, NEW n \in Nat, NEW t \in Nat, b.lastCheck <= n, n <= t
    PROVE  /\ Rate * (t - n) \in Nat
           /\ Refilled(b, t) =
                 IF Refilled(b, n) + Rate * (t - n) > Full THEN Full
                 ELSE Refilled(b, n) + Rate * (t - n)
           /\ Refilled(b, n) <= Refilled(b, t)
  <1>1. b.tokens \in Nat /\ b.lastCheck \in Nat
    BY DEF Bucket
  <1> DEFINE early == Rate * (n - b.lastCheck)
             late == Rate * (t - n)
             both == Rate * (t - b.lastCheck)
  <1>2. early \in Nat /\ late \in Nat /\ both = early + late
    <2>1. b.lastCheck \in Nat /\ n \in Nat /\ t \in Nat /\ b.lastCheck <= n /\ n <= t
      BY <1>1
    <2>2. QED
      BY ONLY <2>1, Flow
  <1>3. /\ Refilled(b, n) = IF b.tokens + early > Full THEN Full ELSE b.tokens + early
        /\ Refilled(b, t) = IF b.tokens + both > Full THEN Full ELSE b.tokens + both
    BY DEF Refilled
  <1> HIDE DEF early, late, both
  <1>4. /\ Refilled(b, t) = IF Refilled(b, n) + late > Full THEN Full ELSE Refilled(b, n) + late
        /\ Refilled(b, n) <= Refilled(b, t)
    BY <1>1, <1>2, <1>3, Constants
  <1>5. QED
    BY <1>2, <1>4 DEF late

\* A bucket just written is not refilled.
LEMMA RefillFresh ==
    ASSUME NEW x \in Nat, x <= Full, NEW t \in Nat
    PROVE  Refilled([tokens |-> x, lastCheck |-> t], t) = x
  <1>1. Rate * (t - t) = 0
    BY Constants
  <1>2. QED
    BY <1>1, Constants DEF Refilled

\* A bucket that the cleanup forgets is full, if CleanupIsSafe.
LEMMA IdleIsFull ==
    ASSUME CleanupIsSafe, NEW b \in Bucket, NEW c \in Nat, NEW t \in Nat, c <= t,
           b.lastCheck < c - 2 * CleanupInterval
    PROVE  Refilled(b, t) = Full
  <1>1. b.tokens \in Nat /\ b.lastCheck \in Nat
    BY DEF Bucket
  <1>2. 2 * CleanupInterval \in Nat /\ t - b.lastCheck \in Nat /\ 2 * CleanupInterval <= t - b.lastCheck
    BY <1>1, Constants
  <1>3. /\ Rate * (2 * CleanupInterval) <= Rate * (t - b.lastCheck)
        /\ Rate * (2 * CleanupInterval) \in Nat /\ Rate * (t - b.lastCheck) \in Nat
    BY <1>2, MoreFlow
  <1>4. Full <= Rate * (2 * CleanupInterval)
    <2>1. \A r, i \in Nat : r * 2 * i = r * (2 * i)
      BY Z3
    <2>2. QED
      BY <2>1, Constants DEF CleanupIsSafe
  <1> DEFINE flow == Rate * (t - b.lastCheck)
  <1>5. flow \in Nat /\ Full <= flow
    BY <1>3, <1>4, Constants
  <1>6. Refilled(b, t) = IF b.tokens + flow > Full THEN Full ELSE b.tokens + flow
    BY DEF Refilled
  <1> HIDE DEF flow
  <1>7. QED
    BY <1>1, <1>5, <1>6, Constants

-----------------------------------------------------------------------------
(* The limiter's state.                                                    *)

LimiterInv == TypeOK /\ BucketInv

\* What a key could take at time t from the buckets bs.
Held(bs, k, t) == IF k \in DOMAIN bs THEN Refilled(bs[k], t) ELSE Full

\* What LimiterInv says of the buckets bs at time t.
Sound(bs, t) ==
    /\ DOMAIN bs \subseteq Keys
    /\ bs \in [DOMAIN bs -> Bucket]
    /\ \A k \in DOMAIN bs : bs[k].lastCheck <= t /\ bs[k].tokens <= Full

\* Time does no harm to buckets.
LEMMA SoundLater ==
    ASSUME NEW bs, NEW n \in Nat, NEW t \in Nat, n <= t, Sound(bs, n)
    PROVE  Sound(bs, t)
  <1>1. \A k \in DOMAIN bs : bs[k].lastCheck \in Nat
    BY DEF Sound, Bucket
  <1>2. QED
    BY <1>1 DEF Sound

\* What a key holds is between nothing and a burst.
LEMMA HeldRange ==
    ASSUME NEW bs, NEW k, NEW t \in Nat, Sound(bs, t)
    PROVE  Held(bs, k, t) \in Nat /\ Held(bs, k, t) <= Full
  <1>1. CASE k \in DOMAIN bs
    <2>1. bs[k] \in Bucket /\ bs[k].lastCheck <= t
      BY <1>1 DEF Sound
    <2>2. QED
      BY <1>1, <2>1, RefillRange DEF Held
  <1>2. CASE k \notin DOMAIN bs
    BY <1>2, Constants DEF Held
  <1>3. QED
    BY <1>1, <1>2

\* What a key holds grows with time.
LEMMA HeldGrows ==
    ASSUME NEW bs, NEW k, NEW n \in Nat, NEW t \in Nat, n <= t, Sound(bs, n)
    PROVE  Held(bs, k, n) <= Held(bs, k, t)
  <1>1. CASE k \in DOMAIN bs
    <2>1. bs[k] \in Bucket /\ bs[k].lastCheck <= n
      BY <1>1 DEF Sound
    <2>2. QED
      BY <1>1, <2>1, RefillLater DEF Held
  <1>2. CASE k \notin DOMAIN bs
    BY <1>2, Constants DEF Held
  <1>3. QED
    BY <1>1, <1>2

\* A cleanup leaves sound buckets.
LEMMA CleanupSound ==
    ASSUME NEW due, NEW cutoff, NEW t \in Nat, Sound(buckets, t)
    PROVE  Sound(AfterCleanup(due, cutoff), t)
  BY DEF AfterCleanup, Restrict, Sound

\* A safe cleanup changes nothing for anyone.
LEMMA CleanupHarmless ==
    ASSUME CleanupIsSafe, NEW due, NEW cutoff \in Nat, NEW t \in Nat, cutoff <= t,
           NEW n \in Nat, Sound(buckets, n), NEW k
    PROVE  Held(AfterCleanup(due, cutoff), k, t) = Held(buckets, k, t)
  <1>1. CASE ~CleanupDue(due)
    BY <1>1 DEF AfterCleanup
  <1>2. CASE CleanupDue(due)
    <2>1. /\ DOMAIN AfterCleanup(due, cutoff) = {j \in DOMAIN buckets : ~Idle(j, cutoff)}
          /\ \A j \in DOMAIN buckets :
                ~Idle(j, cutoff) => AfterCleanup(due, cutoff)[j] = buckets[j]
      BY <1>2 DEF AfterCleanup, Restrict
    <2>2. CASE k \in DOMAIN buckets /\ Idle(k, cutoff)
      <3>1. buckets[k] \in Bucket /\ buckets[k].lastCheck < cutoff - 2 * CleanupInterval
        BY <2>2 DEF Sound, Idle
      <3>2. Refilled(buckets[k], t) = Full
        BY <3>1, IdleIsFull
      <3>3. QED
        BY <2>1, <2>2, <3>2 DEF Held
    <2>3. CASE ~(k \in DOMAIN buckets /\ Idle(k, cutoff))
      BY <2>1, <2>3 DEF Held
    <2>4. QED
      BY <2>2, <2>3
  <1>3. QED
    BY <1>1, <1>2

\* Writing one bucket leaves the others alone.
LEMMA Written ==
    ASSUME NEW bs, NEW t \in Nat, Sound(bs, t), NEW k \in Keys, NEW x \in Nat, x <= Full
    PROVE  /\ Sound(With(bs, k, x, t), t)
           /\ Held(With(bs, k, x, t), k, t) = x
           /\ \A j : j # k => Held(With(bs, k, x, t), j, t) = Held(bs, j, t)
  <1> DEFINE b == [tokens |-> x, lastCheck |-> t]
             w == With(bs, k, x, t)
  <1>1. b \in Bucket /\ b.tokens = x /\ b.lastCheck = t
    BY DEF Bucket
  <1>2. Refilled(b, t) = x
    BY RefillFresh
  <1>3. /\ DOMAIN w = DOMAIN bs \cup {k}
        /\ w = [j \in DOMAIN w |-> w[j]]
        /\ w[k] = b
        /\ \A j \in DOMAIN bs : j # k => w[j] = bs[j]
    BY DEF With
  <1> HIDE DEF b, w
  <1>4. Sound(w, t)
    <2>1. \A j \in DOMAIN w : w[j] \in Bucket /\ w[j].lastCheck <= t /\ w[j].tokens <= Full
      <3> SUFFICES ASSUME NEW j \in DOMAIN w
                   PROVE  w[j] \in Bucket /\ w[j].lastCheck <= t /\ w[j].tokens <= Full
        OBVIOUS
      <3>1. CASE j = k
        BY <3>1, <1>1, <1>3
      <3>2. CASE j # k
        BY <3>2, <1>3 DEF Sound
      <3>3. QED
        BY <3>1, <3>2
    <2>2. w \in [DOMAIN w -> Bucket]
      BY <2>1, <1>3
    <2>3. DOMAIN w \subseteq Keys
      BY <1>3 DEF Sound
    <2>4. QED
      BY <2>1, <2>2, <2>3 DEF Sound
  <1>5. Held(w, k, t) = x
    BY <1>2, <1>3 DEF Held
  <1>6. \A j : j # k => Held(w, j, t) = Held(bs, j, t)
    BY <1>3 DEF Held
  <1>7. QED
    BY <1>4, <1>5, <1>6 DEF w

-----------------------------------------------------------------------------
(* The steps.                                                              *)

\* LimiterInv makes all the buckets sound.
LEMMA InvIsSound ==
    LimiterInv <=> /\ now \in Nat /\ lastCleanup \in Nat /\ lastCleanup <= now
                   /\ Sound(buckets, now)
                   /\ admits \in [Keys -> Seq(Nat)]
  BY DEF LimiterInv, TypeOK, BucketInv, Sound

\* What Allow comes to: after the cleanup, a bucket for the key with x left,
\* which is no more than what the key held, less a token if it is admitted.
LEMMA AllowOutcome ==
    ASSUME LimiterInv, NEW k \in Keys, Allow(k)
    PROVE  \E due, cutoff, check, x \in Nat :
             LET bs == AfterCleanup(due, cutoff)
             IN  /\ now <= cutoff /\ cutoff <= check /\ now' = check
                 /\ lastCleanup' \in Nat /\ lastCleanup' <= check
                 /\ Sound(bs, check)
                 /\ x <= Full
                 /\ buckets' = With(bs, k, x, check)
                 /\ \/ /\ admits' = [admits EXCEPT ![k] = Append(@, check)]
                       /\ x + Cost <= Held(bs, k, check)
                    \/ /\ admits' = admits
                       /\ x <= Held(bs, k, check)
  <1>1. PICK due, cleaned, cutoff, refill, check \in now .. (now + Slip) :
           /\ due <= cleaned /\ cleaned <= cutoff
           /\ cutoff <= refill /\ refill <= check
           /\ now' = check
           /\ lastCleanup' = IF CleanupDue(due) THEN cleaned ELSE lastCleanup
           /\ \/ AllowNew(k, AfterCleanup(due, cutoff), check)
              \/ AllowToken(k, AfterCleanup(due, cutoff), refill, check)
              \/ Refuse(k, AfterCleanup(due, cutoff), refill, check)
    BY DEF Allow
  <1> DEFINE bs == AfterCleanup(due, cutoff)
  <1>2. /\ now \in Nat /\ lastCleanup \in Nat /\ lastCleanup <= now
        /\ Sound(buckets, now)
    BY InvIsSound
  <1>3. /\ due \in Nat /\ cleaned \in Nat /\ cutoff \in Nat /\ refill \in Nat /\ check \in Nat
        /\ now <= due /\ now <= cutoff /\ now <= refill /\ now <= check /\ cutoff <= check
        /\ cleaned <= check
    BY <1>1, <1>2, LimiterAssumption
  <1>4. lastCleanup' \in Nat /\ lastCleanup' <= check
    BY <1>1, <1>2, <1>3
  <1>5. Sound(bs, refill) /\ Sound(bs, check)
    <2>1. Sound(buckets, refill) /\ Sound(buckets, check)
      BY <1>2, <1>3, SoundLater
    <2>2. QED
      BY <2>1, <1>3, CleanupSound
  <1> HIDE DEF bs
  <1>6. /\ Held(bs, k, refill) \in Nat /\ Held(bs, k, refill) <= Full
        /\ Held(bs, k, check) \in Nat
        /\ Held(bs, k, refill) <= Held(bs, k, check)
    BY <1>1, <1>3, <1>5, HeldRange, HeldGrows
  <1> SUFFICES \E x \in Nat :
                 /\ x <= Full
                 /\ buckets' = With(bs, k, x, check)
                 /\ \/ /\ admits' = [admits EXCEPT ![k] = Append(@, check)]
                       /\ x + Cost <= Held(bs, k, check)
                    \/ /\ admits' = admits
                       /\ x <= Held(bs, k, check)
    BY <1>1, <1>3, <1>4, <1>5 DEF bs
  <1>7. CASE AllowNew(k, bs, check)
    <2>1. Full - Cost \in Nat /\ Full - Cost <= Full /\ (Full - Cost) + Cost <= Full
      BY Constants
    <2>2. Held(bs, k, check) = Full
      BY <1>7 DEF AllowNew, Held
    <2>3. QED
      BY <2>1, <2>2, <1>7, <1>1 DEF AllowNew, Admitted
  <1>8. CASE AllowToken(k, bs, refill, check)
    <2>1. Held(bs, k, refill) = Refilled(bs[k], refill)
      BY <1>8 DEF AllowToken, Held
    <2> DEFINE x == Held(bs, k, refill) - Cost
    <2>2. x \in Nat /\ x <= Full /\ x + Cost <= Held(bs, k, check)
      BY <2>1, <1>6, <1>8, Constants DEF AllowToken
    <2>3. QED
      BY <2>1, <2>2, <1>8, <1>1 DEF AllowToken, Admitted
  <1>9. CASE Refuse(k, bs, refill, check)
    <2>1. Held(bs, k, refill) = Refilled(bs[k], refill)
      BY <1>9 DEF Refuse, Held
    <2>2. QED
      BY <2>1, <1>6, <1>9 DEF Refuse
  <1>10. QED
    BY <1>1, <1>7, <1>8, <1>9 DEF bs

\* At first there is no bucket.
LEMMA LimiterInit == Init => LimiterInv
  BY DEF Init, LimiterInv, TypeOK, BucketInv, Bucket

\* Reset leaves the other buckets alone.
LEMMA ResetSound ==
    ASSUME LimiterInv, NEW k \in Keys, Reset(k)
    PROVE  /\ LimiterInv'
           /\ Held(buckets', k, now) = Full
           /\ \A j : j # k => Held(buckets', j, now) = Held(buckets, j, now)
  <1>1. /\ now \in Nat /\ lastCleanup \in Nat /\ lastCleanup <= now
        /\ Sound(buckets, now) /\ admits \in [Keys -> Seq(Nat)]
    BY InvIsSound
  <1>2. /\ buckets' = [j \in DOMAIN buckets \ {k} |-> buckets[j]]
        /\ admits' = [admits EXCEPT ![k] = <<>>]
        /\ now' = now /\ lastCleanup' = lastCleanup
    BY DEF Reset, Restrict
  <1>3. Sound(buckets', now)
    BY <1>1, <1>2 DEF Sound
  <1>4. admits' \in [Keys -> Seq(Nat)]
    BY <1>1, <1>2
  <1>5. LimiterInv'
    BY <1>1, <1>2, <1>3, <1>4 DEF LimiterInv, TypeOK, BucketInv, Sound
  <1>6. QED
    BY <1>2, <1>5 DEF Held

\* Every step keeps LimiterInv.
LEMMA LimiterStep == LimiterInv /\ [Next]_vars => LimiterInv'
  <1> SUFFICES ASSUME LimiterInv, [Next]_vars
               PROVE  LimiterInv'
    OBVIOUS
  <1>0. /\ now \in Nat /\ lastCleanup \in Nat /\ lastCleanup <= now
        /\ Sound(buckets, now) /\ admits \in [Keys -> Seq(Nat)]
    BY InvIsSound
  <1>1. CASE Tick
    <2>1. /\ now' \in Nat /\ now <= now' /\ lastCleanup' = lastCleanup
          /\ buckets' = buckets /\ admits' = admits
      BY <1>1, <1>0 DEF Tick
    <2>2. Sound(buckets, now')
      BY <2>1, <1>0, SoundLater
    <2>3. QED
      BY <2>1, <2>2, <1>0 DEF LimiterInv, TypeOK, BucketInv, Sound
  <1>2. ASSUME NEW k \in Keys, Allow(k)
        PROVE  LimiterInv'
    <2>1. PICK due, cutoff, check, x \in Nat :
             LET bs == AfterCleanup(due, cutoff)
             IN  /\ now <= cutoff /\ cutoff <= check /\ now' = check
                 /\ lastCleanup' \in Nat /\ lastCleanup' <= check
                 /\ Sound(bs, check)
                 /\ x <= Full
                 /\ buckets' = With(bs, k, x, check)
                 /\ \/ /\ admits' = [admits EXCEPT ![k] = Append(@, check)]
                       /\ x + Cost <= Held(bs, k, check)
                    \/ /\ admits' = admits
                       /\ x <= Held(bs, k, check)
      BY <1>2, AllowOutcome
    <2>2. Sound(buckets', now')
      BY <2>1, Written
    <2>3. admits' \in [Keys -> Seq(Nat)]
      <3>1. Append(admits[k], check) \in Seq(Nat)
        BY <1>0, AppendProperties
      <3>2. QED
        BY <3>1, <2>1, <1>0
    <2>4. QED
      BY <2>1, <2>2, <2>3 DEF LimiterInv, TypeOK, BucketInv, Sound
  <1>3. ASSUME NEW k \in Keys, Reset(k)
        PROVE  LimiterInv'
    BY <1>3, ResetSound
  <1>4. CASE UNCHANGED vars
    BY <1>4 DEF vars, LimiterInv, TypeOK, BucketInv
  <1>5. QED
    BY <1>1, <1>2, <1>3, <1>4 DEF Next

\* Calls, cleanups and resets keep the limiter's state well formed: no bucket
\* is below zero, however the clock moves between the readings of a call.
THEOREM TypeCorrect == Spec => []TypeOK
  <1>1. LimiterInv => TypeOK
    BY DEF LimiterInv
  <1>2. QED
    BY <1>1, LimiterInit, LimiterStep, PTL DEF Spec

-----------------------------------------------------------------------------
(* The refinement.                                                         *)

\* A token bucket fills exactly as a key's bucket would be refilled.
LEMMA FilledIsHeld ==
    ASSUME LimiterInv, NEW k, NEW t \in Nat, now <= t
    PROVE  TokenBucketOf(k)!Filled(t) = Held(buckets, k, t)
  <1>1. now \in Nat /\ Sound(buckets, now)
    BY InvIsSound
  <1>2. Rate * (t - now) \in Nat
    <2>1. now \in Nat /\ t \in Nat /\ now <= t /\ t <= t
      BY <1>1
    <2>2. QED
      BY ONLY <2>1, Flow
  <1>3. TokenBucketOf(k)!Filled(t) =
            IF Level(k) + Rate * (t - now) > Full THEN Full ELSE Level(k) + Rate * (t - now)
    BY DEF TokenBucketOf!Filled, TokenBucketOf!Full, Full
  <1>4. CASE k \in DOMAIN buckets
    <2>1. buckets[k] \in Bucket /\ buckets[k].lastCheck <= now
      BY <1>1, <1>4 DEF Sound
    <2>2. Level(k) = Refilled(buckets[k], now) /\ Held(buckets, k, t) = Refilled(buckets[k], t)
      BY <1>4 DEF Level, Held
    <2>3. QED
      BY <2>1, <2>2, <1>1, <1>3, RefillLater
  <1>5. CASE k \notin DOMAIN buckets
    <2>1. Level(k) = Full /\ Held(buckets, k, t) = Full
      BY <1>5 DEF Level, Held
    <2> DEFINE flow == Rate * (t - now)
    <2>2. flow \in Nat /\ TokenBucketOf(k)!Filled(t) = IF Full + flow > Full THEN Full ELSE Full + flow
      BY <2>1, <1>2, <1>3
    <2> HIDE DEF flow
    <2>3. QED
      BY <2>1, <2>2, Constants
  <1>6. QED
    BY <1>4, <1>5

\* Time passing, seen from one key.
LEMMA PassOf ==
    ASSUME LimiterInv, NEW k, now' \in Nat, now <= now',
           Held(buckets', k, now') \in Nat, Held(buckets', k, now') <= Held(buckets, k, now'),
           admits'[k] = admits[k]
    PROVE  TokenBucketOf(k)!Pass
  <1>1. TokenBucketOf(k)!Filled(now') = Held(buckets, k, now')
    BY FilledIsHeld
  <1>2. Level(k)' = Held(buckets', k, now')
    BY DEF Level, Held
  <1>3. now \in Nat /\ Sound(buckets, now')
    BY InvIsSound, SoundLater
  <1>4. Held(buckets, k, now') \in Nat
    BY <1>3, HeldRange
  <1>5. QED
    BY <1>1, <1>2, <1>3, <1>4 DEF TokenBucketOf!Pass

\* Every step of the limiter is, for every key, a step of its token bucket.
LEMMA RefinementStep ==
    ASSUME CleanupIsSafe, LimiterInv, [Next]_vars, NEW j \in Keys
    PROVE  [TokenBucketOf(j)!Next]_<<now, Level(j), admits[j]>>
  <1>0. /\ now \in Nat /\ Sound(buckets, now) /\ admits \in [Keys -> Seq(Nat)]
        /\ \A t \in Nat : now <= t => Sound(buckets, t)
    BY InvIsSound, SoundLater
  <1>1. CASE Tick
    <2>1. now' \in Nat /\ now <= now' /\ buckets' = buckets /\ admits' = admits
      BY <1>1, <1>0 DEF Tick
    <2>2. Held(buckets, j, now') \in Nat
      BY <2>1, <1>0, HeldRange
    <2>3. TokenBucketOf(j)!Pass
      BY <2>1, <2>2, PassOf
    <2>4. QED
      BY <2>3 DEF TokenBucketOf!Next
  <1>2. ASSUME NEW k \in Keys, Allow(k)
        PROVE  TokenBucketOf(j)!Next
    <2>1. PICK due, cutoff, check, x \in Nat :
             LET bs == AfterCleanup(due, cutoff)
             IN  /\ now <= cutoff /\ cutoff <= check /\ now' = check
                 /\ lastCleanup' \in Nat /\ lastCleanup' <= check
                 /\ Sound(bs, check)
                 /\ x <= Full
                 /\ buckets' = With(bs, k, x, check)
                 /\ \/ /\ admits' = [admits EXCEPT ![k] = Append(@, check)]
                       /\ x + Cost <= Held(bs, k, check)
                    \/ /\ admits' = admits
                       /\ x <= Held(bs, k, check)
      BY <1>2, AllowOutcome
    <2> DEFINE bs == AfterCleanup(due, cutoff)
    <2>2. \A i : Held(bs, i, check) = Held(buckets, i, check)
      BY <2>1, <1>0, CleanupHarmless
    <2>3. now' = check /\ now <= check
      BY <2>1, <1>0
    <2>4. /\ Sound(buckets', check)
          /\ Held(buckets', k, check) = x
          /\ \A i : i # k => Held(buckets', i, check) = Held(buckets, i, check)
      BY <2>1, <2>2, Written
    <2>5. Held(buckets, j, check) \in Nat
      BY <2>3, <1>0, HeldRange
    <2>6. CASE j # k
      <3>1. admits'[j] = admits[j]
        BY <2>6, <2>1, <1>0
      <3>2. TokenBucketOf(j)!Pass
        BY <3>1, <2>3, <2>4, <2>5, <2>6, PassOf
      <3>3. QED
        BY <3>2 DEF TokenBucketOf!Next
    <2>7. CASE j = k /\ admits' = admits /\ x <= Held(bs, k, check)
      <3>1. TokenBucketOf(j)!Pass
        BY <2>2, <2>3, <2>4, <2>5, <2>7, PassOf
      <3>2. QED
        BY <3>1 DEF TokenBucketOf!Next
    <2>8. CASE /\ j = k /\ x + Cost <= Held(bs, k, check)
               /\ admits' = [admits EXCEPT ![k] = Append(@, check)]
      <3>1. admits'[j] = Append(admits[j], now')
        BY <2>8, <2>3, <1>0
      <3>2. TokenBucketOf(j)!Filled(now') = Held(buckets, j, check)
        BY <2>3, FilledIsHeld
      <3>3. Level(j)' = x
        BY <2>3, <2>4, <2>8 DEF Level, Held
      <3>4. x + Cost <= TokenBucketOf(j)!Filled(now')
        BY <3>2, <2>2, <2>8
      <3>5. x \in 0 .. (TokenBucketOf(j)!Filled(now') - Cost)
        BY <3>2, <3>4, <2>5, Constants
      <3>6. TokenBucketOf(j)!Admit
        BY <3>1, <3>3, <3>5, <2>3, <1>0 DEF TokenBucketOf!Admit
      <3>7. QED
        BY <3>6 DEF TokenBucketOf!Next
    <2>9. QED
      BY <2>1, <2>6, <2>7, <2>8
  <1>3. ASSUME NEW k \in Keys, Reset(k)
        PROVE  TokenBucketOf(j)!Next
    <2>1. /\ now' = now /\ admits' = [admits EXCEPT ![k] = <<>>]
          /\ Held(buckets', k, now) = Full
          /\ \A i : i # k => Held(buckets', i, now) = Held(buckets, i, now)
      BY <1>3, ResetSound DEF Reset
    <2>2. CASE j = k
      <3>1. Level(j)' = Full /\ admits'[j] = <<>>
        BY <2>1, <2>2, <1>0 DEF Level, Held
      <3>2. QED
        BY <3>1, <2>1 DEF TokenBucketOf!Next, TokenBucketOf!Restart, TokenBucketOf!Full, Full
    <2>3. CASE j # k
      <3>1. admits'[j] = admits[j]
        BY <2>1, <2>3, <1>0
      <3>2. Held(buckets, j, now) \in Nat
        BY <1>0, HeldRange
      <3>3. TokenBucketOf(j)!Pass
        BY <3>1, <3>2, <2>1, <2>3, <1>0, PassOf
      <3>4. QED
        BY <3>3 DEF TokenBucketOf!Next
    <2>4. QED
      BY <2>2, <2>3
  <1>4. CASE UNCHANGED vars
    BY <1>4 DEF vars, Level
  <1>5. QED
    BY <1>1, <1>2, <1>3, <1>4 DEF Next

\* The limiter implements a token bucket for each key, if a bucket that has
\* been idle for two cleanup intervals is full: lazy refills, the slip between
\* the readings of the clock and the forgetting of buckets cannot be seen.
THEOREM Refinement == ASSUME CleanupIsSafe PROVE Spec => ImplementsTokenBucket
  <1>1. Init => \A k \in Keys : TokenBucketOf(k)!Init
    BY DEF Init, Level, TokenBucketOf!Init, TokenBucketOf!Full, Full
  <1>2. LimiterInv /\ [Next]_vars =>
          [\A k \in Keys : [TokenBucketOf(k)!Next]_<<now, Level(k), admits[k]>>]_vars
    BY RefinementStep
  <1>3. QED
    BY <1>1, <1>2, LimiterInit, LimiterStep, PTL DEF Spec, ImplementsTokenBucket

-----------------------------------------------------------------------------
(* The rate.                                                               *)

RateInv ==
    \A k \in Keys : /\ History!CreditOf(now, Level(k), admits[k])
                    /\ History!ConformsOf(admits[k])

\* The limiter and the token bucket mean the same by a full bucket.
LEMMA HistoryParameters == History!Parameters /\ History!Full = Full
  BY Constants DEF History!Parameters, History!Full, Full

\* Nothing flows in beyond the rate and the burst.
LEMMA FilledBound ==
    ASSUME LimiterInv, NEW k, NEW t \in Nat, now <= t
    PROVE  /\ TokenBucketOf(k)!Filled(t) \in Nat
           /\ TokenBucketOf(k)!Filled(t) <= Full
           /\ TokenBucketOf(k)!Filled(t) <= Level(k) + Rate * (t - now)
           /\ Level(k) \in Nat
           /\ Rate * (t - now) \in Nat
  <1>1. now \in Nat /\ Sound(buckets, now) /\ Sound(buckets, t)
    BY InvIsSound, SoundLater
  <1>2. Held(buckets, k, t) \in Nat /\ Held(buckets, k, t) <= Full
    BY <1>1, HeldRange
  <1>3. Level(k) \in Nat
    <2>1. Level(k) = Held(buckets, k, now)
      BY DEF Level, Held
    <2>2. QED
      BY <2>1, <1>1, HeldRange
  <1> DEFINE flow == Rate * (t - now)
  <1>4. flow \in Nat
    <2>1. now \in Nat /\ t \in Nat /\ now <= t /\ t <= t
      BY <1>1
    <2>2. QED
      BY ONLY <2>1, Flow
  <1>5. TokenBucketOf(k)!Filled(t) = IF Level(k) + flow > Full THEN Full ELSE Level(k) + flow
    BY DEF TokenBucketOf!Filled, TokenBucketOf!Full, Full
  <1> HIDE DEF flow
  <1>6. TokenBucketOf(k)!Filled(t) <= Level(k) + flow
    BY <1>3, <1>4, <1>5, Constants
  <1>7. QED
    BY <1>2, <1>3, <1>4, <1>6, FilledIsHeld DEF flow

\* Every step of a key's token bucket keeps its part of RateInv.
LEMMA RateStep ==
    ASSUME CleanupIsSafe, LimiterInv, RateInv, [Next]_vars
    PROVE  RateInv'
  <1> SUFFICES ASSUME NEW k \in Keys
               PROVE  /\ History!CreditOf(now', Level(k)', admits'[k])
                      /\ History!ConformsOf(admits'[k])
    BY DEF RateInv
  <1>1. [TokenBucketOf(k)!Next]_<<now, Level(k), admits[k]>>
    BY RefinementStep
  <1>2. /\ now \in Nat /\ admits[k] \in Seq(Nat)
        /\ History!CreditOf(now, Level(k), admits[k]) /\ History!ConformsOf(admits[k])
    BY InvIsSound DEF RateInv
  <1>3. CASE TokenBucketOf(k)!Pass
    <2>1. /\ now' \in Nat /\ now <= now' /\ admits'[k] = admits[k]
          /\ Level(k)' \in 0 .. TokenBucketOf(k)!Filled(now')
      BY <1>3, <1>2 DEF TokenBucketOf!Pass
    <2>2. /\ TokenBucketOf(k)!Filled(now') \in Nat
          /\ TokenBucketOf(k)!Filled(now') <= Level(k) + Rate * (now' - now)
          /\ Level(k) \in Nat /\ Rate * (now' - now) \in Nat
      BY <2>1, FilledBound
    <2>3. Level(k)' \in Nat /\ Level(k)' <= Level(k) + Rate * (now' - now)
      BY <2>1, <2>2
    <2>4. QED
      BY <2>1, <2>2, <2>3, <1>2, HistoryParameters, History!Passing
  <1>4. CASE TokenBucketOf(k)!Admit
    <2>1. /\ now' \in Nat /\ now <= now' /\ admits'[k] = Append(admits[k], now')
          /\ Level(k)' \in 0 .. (TokenBucketOf(k)!Filled(now') - Cost)
      BY <1>4, <1>2 DEF TokenBucketOf!Admit
    <2>2. /\ TokenBucketOf(k)!Filled(now') \in Nat
          /\ TokenBucketOf(k)!Filled(now') <= Full
          /\ TokenBucketOf(k)!Filled(now') <= Level(k) + Rate * (now' - now)
          /\ Level(k) \in Nat /\ Rate * (now' - now) \in Nat
      BY <2>1, FilledBound
    <2>3. /\ Level(k)' \in Nat /\ Level(k)' + Cost <= Full
          /\ Level(k)' + Cost <= Level(k) + Rate * (now' - now)
      BY <2>1, <2>2, Constants, History!Pays
    <2>4. QED
      BY <2>1, <2>2, <2>3, <1>2, HistoryParameters, History!Admitting
  <1>5. CASE TokenBucketOf(k)!Restart
    BY <1>5 DEF TokenBucketOf!Restart, History!CreditOf, History!ConformsOf
  <1>6. CASE UNCHANGED <<now, Level(k), admits[k]>>
    BY <1>6, <1>2
  <1>7. QED
    BY <1>1, <1>3, <1>4, <1>5, <1>6 DEF TokenBucketOf!Next

\* No client gets more requests through in any stretch of time than its burst
\* and its rate allow, whatever the other clients do, if a bucket that has
\* been idle for two cleanup intervals is full.
THEOREM RateIsKept == ASSUME CleanupIsSafe PROVE Spec => []RateAndBurst
  <1>1. Init => RateInv
    BY DEF Init, RateInv, History!CreditOf, History!ConformsOf
  <1>2. LimiterInv /\ RateInv /\ [Next]_vars => RateInv'
    BY RateStep
  <1>3. RateInv => RateAndBurst
    BY DEF RateInv, RateAndBurst, History!ConformsOf, History!Full,
           TokenBucketOf!Conforms, TokenBucketOf!Full
  <1>4. QED
    BY <1>1, <1>2, <1>3, LimiterInit, LimiterStep, PTL DEF Spec
=============================================================================
