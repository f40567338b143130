------------------------- MODULE TokenBucketProofs -------------------------
(* Every token bucket conforms to its rate and its burst.  The argument is *)
(* about a clock n, a level l and a history s, so that a limiter that      *)
(* keeps many buckets can use it for each of them.                         *)
EXTENDS TokenBucket, SequenceTheorems, TLAPS

Parameters == Rate \in Nat /\ Cost \in Nat /\ Burst \in Nat

\* Credit and Conforms, for any clock, level and history.
CreditOf(n, l, s) ==
    \A i \in DOMAIN s :
        s[i] <= n /\ (Len(s) - i + 1) * Cost + l <= Full + Rate * (n - s[i])

ConformsOf(s) ==
    \A j \in DOMAIN s : \A i \in 1 .. j :
        (j - i + 1) * Cost <= Full + Rate * (s[j] - s[i])

-----------------------------------------------------------------------------
(* Arithmetic.                                                             *)

\* A product of naturals is one.
LEMMA Products == \A a, b \in Nat : a * b \in Nat
  BY Z3

\* What flows in from `a` to `c` flows in from `a` to `b` and from `b` to `c`.
LEMMA Flow ==
    \A r, a, b, c \in Int :
        /\ r * (b - a) \in Int
        /\ r * (c - a) = r * (b - a) + r * (c - b)
  BY Z3

\* One request more costs one token more.
LEMMA OneMore ==
    \A q, c \in Int : q * c \in Int /\ (q + 1) * c = q * c + c
  BY Z3

\* A full bucket is a natural.
LEMMA FullNat == Parameters => Full \in Nat
  BY Products DEF Parameters, Full

\* The history after one more request.
LEMMA OneMoreAdmit ==
    ASSUME NEW s \in Seq(Nat), NEW t \in Nat
    PROVE  /\ Append(s, t) \in Seq(Nat)
           /\ Len(s) \in Nat /\ Len(Append(s, t)) = Len(s) + 1
           /\ DOMAIN s = 1 .. Len(s) /\ DOMAIN Append(s, t) = 1 .. (Len(s) + 1)
           /\ \A i \in 1 .. Len(s) : s[i] \in Nat /\ Append(s, t)[i] = s[i]
           /\ Append(s, t)[Len(s) + 1] = t
           /\ \A i \in 1 .. (Len(s) + 1) : i \in 1 .. Len(s) \/ i = Len(s) + 1
  BY AppendProperties

-----------------------------------------------------------------------------
(* Histories.                                                              *)

\* Time that passes earns what flows in, and no more.
LEMMA Passing ==
    ASSUME Parameters,
           NEW n \in Nat, NEW t \in Nat, n <= t,
           NEW l \in Nat, NEW m \in Nat, m <= l + Rate * (t - n),
           NEW s \in Seq(Nat), CreditOf(n, l, s)
    PROVE  CreditOf(t, m, s)
  <1> SUFFICES ASSUME NEW i \in DOMAIN s
               PROVE  /\ s[i] <= t
                      /\ (Len(s) - i + 1) * Cost + m <= Full + Rate * (t - s[i])
    BY DEF CreditOf
  <1>1. /\ s[i] \in Nat /\ s[i] <= n
        /\ (Len(s) - i + 1) * Cost + l <= Full + Rate * (n - s[i])
    BY DEF CreditOf
  <1>2. /\ Rate * (n - s[i]) \in Int
        /\ Rate * (t - n) \in Int
        /\ Rate * (t - s[i]) = Rate * (n - s[i]) + Rate * (t - n)
    <2>1. Rate \in Int /\ s[i] \in Int /\ n \in Int /\ t \in Int
      BY <1>1 DEF Parameters
    <2>2. QED
      BY ONLY <2>1, Flow
  <1>3. (Len(s) - i + 1) * Cost \in Int
    BY OneMore DEF Parameters
  <1>4. Full \in Nat
    BY FullNat
  <1> DEFINE given == (Len(s) - i + 1) * Cost
             before == Rate * (n - s[i])
             since == Rate * (t - n)
             all == Rate * (t - s[i])
  <1>5. given + l <= Full + before /\ m <= l + since /\ all = before + since
    BY <1>1, <1>2
  <1>6. given \in Int /\ before \in Int /\ since \in Int
    BY <1>2, <1>3
  <1> HIDE DEF given, before, since, all
  <1>7. given + m <= Full + all
    BY <1>4, <1>5, <1>6
  <1>8. QED
    BY <1>1, <1>7 DEF given, all

\* A request that pays from the level keeps both: it is counted for every
\* stretch that ends with it.
LEMMA Admitting ==
    ASSUME Parameters,
           NEW n \in Nat, NEW t \in Nat, n <= t,
           NEW l \in Nat, NEW m \in Nat,
           m + Cost <= Full, m + Cost <= l + Rate * (t - n),
           NEW s \in Seq(Nat), CreditOf(n, l, s), ConformsOf(s)
    PROVE  CreditOf(t, m, Append(s, t)) /\ ConformsOf(Append(s, t))
  <1> DEFINE a == Append(s, t)
             k == Len(s)
  <1>1. /\ a \in Seq(Nat) /\ k \in Nat /\ Len(a) = k + 1
        /\ DOMAIN s = 1 .. k /\ DOMAIN a = 1 .. (k + 1)
        /\ \A i \in 1 .. k : s[i] \in Nat /\ a[i] = s[i]
        /\ a[k + 1] = t
        /\ \A i \in 1 .. (k + 1) : i \in 1 .. k \/ i = k + 1
    BY OneMoreAdmit
  <1>2. Full \in Nat /\ Cost \in Nat /\ Rate \in Nat
    BY FullNat DEF Parameters
  <1>3. CreditOf(t, m + Cost, s)
    BY <1>2, Passing
  <1> HIDE DEF a, k
  <1>4. ASSUME NEW i \in 1 .. (k + 1)
        PROVE  /\ a[i] \in Nat /\ a[i] <= t
               /\ (k + 1 - i + 1) * Cost + m <= Full + Rate * (t - a[i])
    <2>1. CASE i \in 1 .. k
      <3>1. /\ a[i] = s[i] /\ s[i] \in Nat /\ s[i] <= t
            /\ (k - i + 1) * Cost + (m + Cost) <= Full + Rate * (t - s[i])
        BY <2>1, <1>1, <1>3 DEF CreditOf, k
      <3>2. /\ (k - i + 1) * Cost \in Int
            /\ (k + 1 - i + 1) * Cost = (k - i + 1) * Cost + Cost
        <4>1. k - i + 1 \in Int /\ k + 1 - i + 1 = (k - i + 1) + 1
          BY <1>1
        <4>2. QED
          BY <4>1, <1>2, OneMore
      <3>3. Rate * (t - s[i]) \in Int
        BY <3>1, <1>2, Flow
      <3> DEFINE old == (k - i + 1) * Cost
                 new == (k + 1 - i + 1) * Cost
                 in == Rate * (t - s[i])
      <3>4. old + (m + Cost) <= Full + in /\ new = old + Cost /\ old \in Int /\ in \in Int
        BY <3>1, <3>2, <3>3
      <3> HIDE DEF old, new, in
      <3>5. new + m <= Full + in
        BY <3>4, <1>2
      <3>6. QED
        BY <3>1, <3>5 DEF new, in
    <2>2. CASE i = k + 1
      <3>1. a[i] = t /\ k + 1 - i + 1 = 1 /\ t - a[i] = 0
        BY <2>2, <1>1
      <3>2. 1 * Cost = Cost /\ Rate * 0 = 0
        BY <1>2
      <3>3. QED
        BY <3>1, <3>2, <1>2
    <2>3. QED
      BY <2>1, <2>2, <1>1
  <1>5. CreditOf(t, m, a)
    <2> SUFFICES ASSUME NEW i \in DOMAIN a
                 PROVE  /\ a[i] <= t
                        /\ (Len(a) - i + 1) * Cost + m <= Full + Rate * (t - a[i])
      BY DEF CreditOf
    <2>1. i \in 1 .. (k + 1) /\ Len(a) - i + 1 = k + 1 - i + 1
      BY <1>1
    <2>2. QED
      BY <2>1, <1>4
  <1>6. ConformsOf(a)
    <2> SUFFICES ASSUME NEW j \in 1 .. (k + 1), NEW i \in 1 .. j
                 PROVE  (j - i + 1) * Cost <= Full + Rate * (a[j] - a[i])
      BY <1>1 DEF ConformsOf
    <2>1. CASE j \in 1 .. k
      <3>1. i \in 1 .. k /\ a[i] = s[i] /\ a[j] = s[j]
        BY <2>1, <1>1
      <3>2. (j - i + 1) * Cost <= Full + Rate * (s[j] - s[i])
        BY <2>1, <1>1 DEF ConformsOf
      <3>3. QED
        BY <3>1, <3>2
    <2>2. CASE j = k + 1
      <3>1. i \in 1 .. (k + 1)
        BY <2>2
      <3>2. (k + 1 - i + 1) * Cost + m <= Full + Rate * (t - a[i]) /\ a[i] \in Nat
        BY <3>1, <1>4
      <3>3. (k + 1 - i + 1) * Cost \in Int /\ Rate * (t - a[i]) \in Int
        <4>1. k + 1 - i + 1 \in Int
          BY <3>1, <1>1
        <4>2. (k + 1 - i + 1) * Cost \in Int
          BY <4>1, <1>2, OneMore
        <4>3. Rate \in Int /\ a[i] \in Int /\ t \in Int
          BY <3>2, <1>2
        <4>4. Rate * (t - a[i]) \in Int
          BY ONLY <4>3, Flow
        <4>5. QED
          BY <4>2, <4>4
      <3> DEFINE given == (k + 1 - i + 1) * Cost
                 in == Rate * (t - a[i])
      <3>4. given \in Int /\ in \in Int /\ given + m <= Full + in
        BY <3>2, <3>3
      <3> HIDE DEF given, in
      <3>5. given <= Full + in
        BY <3>4, <1>2
      <3>6. QED
        BY <3>5, <2>2, <1>1 DEF given, in
    <2>3. QED
      BY <2>1, <2>2, <1>1
  <1>7. QED
    BY <1>5, <1>6 DEF a

-----------------------------------------------------------------------------
(* The bucket.                                                             *)

\* The level is filled by what flows in, up to a full bucket.
LEMMA FilledBound ==
    ASSUME Parameters, now \in Nat, level \in Nat, NEW t \in Nat
    PROVE  /\ Filled(t) \in Int /\ Filled(t) <= Full
           /\ Filled(t) <= level + Rate * (t - now)
  <1>1. Rate * (t - now) \in Int
    BY Flow DEF Parameters
  <1>2. QED
    BY <1>1, FullNat DEF Filled

\* Taking a token from what there is leaves room for it.
LEMMA Pays ==
    ASSUME NEW c \in Nat, NEW f \in Nat, NEW l \in Nat, NEW w \in Int, NEW m \in Int,
           NEW x \in 0 .. (m - c), m <= f, m <= l + w
    PROVE  x \in Nat /\ x <= f /\ x + c <= f /\ x + c <= l + w
  OBVIOUS

BucketInv == TypeOK /\ Credit /\ Conforms

\* At first nothing was admitted.
LEMMA BucketInit == Parameters /\ Init => BucketInv
  BY FullNat DEF Init, BucketInv, TypeOK, Credit, Conforms

\* Every step of a bucket keeps BucketInv.
LEMMA BucketStep == Parameters /\ BucketInv /\ [Next]_bucket => BucketInv'
  <1> SUFFICES ASSUME Parameters, BucketInv, [Next]_bucket
               PROVE  BucketInv'
    OBVIOUS
  <1>0. /\ Rate \in Nat /\ Cost \in Nat /\ Full \in Nat
        /\ now \in Nat /\ level \in Nat /\ level <= Full /\ admits \in Seq(Nat)
        /\ CreditOf(now, level, admits) /\ ConformsOf(admits)
    BY FullNat DEF Parameters, BucketInv, TypeOK, Credit, Conforms, CreditOf, ConformsOf
  <1>1. CASE Pass
    <2>1. /\ now' \in Nat /\ now <= now' /\ admits' = admits
          /\ level' \in 0 .. Filled(now')
      BY <1>1, <1>0 DEF Pass
    <2>2. Filled(now') \in Int /\ Filled(now') <= Full /\ Filled(now') <= level + Rate * (now' - now)
      BY <2>1, <1>0, FilledBound
    <2>3. level' \in Nat /\ level' <= Full /\ level' <= level + Rate * (now' - now)
      <3>1. Rate * (now' - now) \in Int
        BY <2>1, <1>0, Flow
      <3> DEFINE flow == Rate * (now' - now)
                 most == Filled(now')
      <3>2. /\ flow \in Int /\ most \in Int /\ most <= Full /\ most <= level + flow
            /\ level' \in 0 .. most
        BY <3>1, <2>1, <2>2
      <3> HIDE DEF flow, most
      <3>3. /\ level' \in Nat /\ level' <= Full /\ level' <= level + flow
        BY <3>2, <1>0
      <3>4. QED
        BY <3>3 DEF flow
    <2>4. CreditOf(now', level', admits)
      BY <2>1, <2>3, <1>0, Passing
    <2>5. QED
      BY <2>1, <2>3, <2>4, <1>0 DEF BucketInv, TypeOK, Credit, Conforms, CreditOf, ConformsOf
  <1>2. CASE Admit
    <2>1. /\ now' \in Nat /\ now <= now' /\ admits' = Append(admits, now')
          /\ level' \in 0 .. (Filled(now') - Cost)
      BY <1>2, <1>0 DEF Admit
    <2>2. Filled(now') \in Int /\ Filled(now') <= Full /\ Filled(now') <= level + Rate * (now' - now)
      BY <2>1, <1>0, FilledBound
    <2>3. /\ level' \in Nat /\ level' <= Full
          /\ level' + Cost <= Full /\ level' + Cost <= level + Rate * (now' - now)
      <3>1. Rate * (now' - now) \in Int
        BY <2>1, <1>0, Flow
      <3> DEFINE flow == Rate * (now' - now)
                 most == Filled(now')
      <3>2. /\ flow \in Int /\ most \in Int /\ most <= Full /\ most <= level + flow
            /\ level' \in 0 .. (most - Cost)
        BY <3>1, <2>1, <2>2
      <3> HIDE DEF flow, most
      <3>3. /\ level' \in Nat /\ level' <= Full
            /\ level' + Cost <= Full /\ level' + Cost <= level + flow
        <4>1. /\ Cost \in Nat /\ Full \in Nat /\ level \in Nat
              /\ most \in Int /\ flow \in Int /\ level' \in 0 .. (most - Cost)
              /\ most <= Full /\ most <= level + flow
          BY <3>2, <1>0
        <4>2. QED
          BY ONLY <4>1, Pays
      <3>4. QED
        BY <3>3 DEF flow
    <2>4. CreditOf(now', level', admits') /\ ConformsOf(admits')
      BY <2>1, <2>3, <1>0, Admitting
    <2>5. admits' \in Seq(Nat)
      BY <2>1, <1>0, OneMoreAdmit
    <2>6. QED
      <3>1. TypeOK'
        BY <2>1, <2>3, <2>5, <1>0 DEF TypeOK
      <3>2. Credit' /\ Conforms'
        BY <2>4 DEF Credit, Conforms, CreditOf, ConformsOf
      <3>3. QED
        BY <3>1, <3>2 DEF BucketInv
  <1>3. CASE Restart
    BY <1>3, <1>0 DEF Restart, BucketInv, TypeOK, Credit, Conforms
  <1>4. CASE UNCHANGED bucket
    BY <1>4 DEF bucket, BucketInv, TypeOK, Credit, Conforms
  <1>5. QED
    BY <1>1, <1>2, <1>3, <1>4 DEF Next

\* Whatever the rate, the cost and the burst: no stretch of time sees more
\* admitted requests than the burst and the rate allow.
THEOREM Conformance == ASSUME Parameters PROVE Spec => []Conforms
  <1>1. BucketInv => Conforms
    BY DEF BucketInv
  <1>2. Init => BucketInv
    BY BucketInit
  <1>3. BucketInv /\ [Next]_bucket => BucketInv'
    BY BucketStep
  <1>4. QED
    BY <1>1, <1>2, <1>3, PTL DEF Spec
=============================================================================
