-------------------------- MODULE QuotaRatesProofs --------------------------
(* What AllowCredential's fixed window guarantees, for every limit and for *)
(* every length of the minute.                                             *)
EXTENDS QuotaRates, SequenceTheorems, TLAPS

RatesInv == TypeOK /\ WindowInv /\ TwiceTheLimit

\* At first nothing was granted.
LEMMA WindowInit == Init => RatesInv
  BY RatesAssumption DEF Init, RatesInv, TypeOK, WindowInv, TwiceTheLimit, ZeroTime

\* Where the last grant of an extended history is.
LEMMA GrantsAfter ==
    ASSUME NEW s \in Seq(Nat), NEW t \in Nat
    PROVE  /\ Append(s, t) \in Seq(Nat)
           /\ Len(Append(s, t)) = Len(s) + 1
           /\ DOMAIN Append(s, t) = 1 .. (Len(s) + 1)
           /\ \A i \in 1 .. Len(s) : Append(s, t)[i] = s[i]
           /\ Append(s, t)[Len(s) + 1] = t
           /\ DOMAIN s = 1 .. Len(s)
           /\ Len(s) \in Nat
           /\ \A i \in 1 .. Len(s) : s[i] \in Nat
  BY AppendProperties

\* What WindowInv says when the limit is tested, after the reset if there was
\* one: c is the count, l the start of the window.
LEMMA AtTest ==
    ASSUME RatesInv, NEW later \in {now, now + 1}
    PROVE  LET c == CountAtTest
               l == StartAtTest(later)
               n == Len(grants)
           IN  /\ c \in Nat /\ c <= MaxCredentials /\ c <= n
               /\ l \in Int /\ l <= later
               /\ \A i \in 1 .. n :
                     /\ i <= n - c => grants[i] <= l
                     /\ i <= n - c - MaxCredentials => grants[i] + Minute < l
  <1>1. /\ now \in Nat /\ later \in Nat /\ now <= later
        /\ credCount \in Nat /\ lastCredential \in Int /\ lastCredential <= now
        /\ credCount <= MaxCredentials /\ credCount <= Len(grants)
        /\ Len(grants) \in Nat /\ DOMAIN grants = 1 .. Len(grants)
        /\ \A i \in 1 .. Len(grants) : grants[i] \in Nat
        /\ \A i \in 1 .. Len(grants) :
              /\ grants[i] <= now
              /\ i <= Len(grants) - credCount => grants[i] <= lastCredential
              /\ i <= Len(grants) - credCount - MaxCredentials
                    => grants[i] + Minute < lastCredential
    BY DEF RatesInv, TypeOK, WindowInv
  <1>2. CASE WindowOver
    <2>1. CountAtTest = 0 /\ StartAtTest(later) = later /\ now - lastCredential > Minute
      BY <1>2 DEF CountAtTest, StartAtTest, WindowOver
    <2>2. ASSUME NEW i \in 1 .. Len(grants), i <= Len(grants) - MaxCredentials
          PROVE  grants[i] + Minute < later
      <3>1. i \in Nat /\ i <= Len(grants) - credCount
        BY <1>1, <2>2, RatesAssumption
      <3>2. grants[i] \in Nat /\ grants[i] <= lastCredential
        BY <3>1, <1>1
      <3>3. QED
        BY <3>2, <1>1, <2>1, RatesAssumption
    <2>3. \A i \in 1 .. Len(grants) : grants[i] <= later
      BY <1>1
    <2>4. QED
      BY <1>1, <2>1, <2>2, <2>3, RatesAssumption
  <1>3. CASE ~WindowOver
    <2>1. CountAtTest = credCount /\ StartAtTest(later) = lastCredential
      BY <1>3 DEF CountAtTest, StartAtTest
    <2>2. QED
      BY <1>1, <2>1, RatesAssumption
  <1>4. QED
    BY <1>2, <1>3

\* Every step of the tracker keeps RatesInv.
LEMMA WindowStep == RatesInv /\ [Next]_vars => RatesInv'
  <1> SUFFICES ASSUME RatesInv, [Next]_vars
               PROVE  RatesInv'
    OBVIOUS
  <1>0. /\ now \in Nat /\ credCount \in Nat /\ lastCredential \in Int
        /\ bytesPerSecond \in Nat /\ grants \in Seq(Nat)
        /\ sent \in Seq([at : Nat, bytes : Sizes])
        /\ Len(grants) \in Nat /\ DOMAIN grants = 1 .. Len(grants)
        /\ \A i \in 1 .. Len(grants) : grants[i] \in Nat /\ grants[i] <= now
    BY DEF RatesInv, TypeOK, WindowInv
  <1>1. CASE Tick
    BY <1>1, <1>0 DEF Tick, RatesInv, TypeOK, WindowInv, TwiceTheLimit
  <1>2. ASSUME NEW later \in {now, now + 1}, AllowCredential(later)
        PROVE  RatesInv'
    <2>1. /\ now' = later /\ lastCredential' = StartAtTest(later)
          /\ bytesPerSecond' = bytesPerSecond /\ sent' = sent
          /\ later \in Nat /\ now <= later
      BY <1>2, <1>0 DEF AllowCredential
    <2>2. PICK c, l, n : c = CountAtTest /\ l = StartAtTest(later) /\ n = Len(grants)
      OBVIOUS
    <2>3. /\ c \in Nat /\ c <= MaxCredentials /\ c <= n
          /\ l \in Int /\ l <= later
          /\ \A i \in 1 .. n :
                /\ i <= n - c => grants[i] <= l
                /\ i <= n - c - MaxCredentials => grants[i] + Minute < l
      BY <2>2, AtTest
    <2>4. CASE credCount' = CountAtTest /\ grants' = grants
      BY <2>1, <2>2, <2>3, <2>4, <1>0 DEF RatesInv, TypeOK, WindowInv, TwiceTheLimit
    <2>5. CASE /\ CountAtTest < MaxCredentials
               /\ credCount' = CountAtTest + 1
               /\ grants' = Append(grants, later)
      <3>1. /\ grants' \in Seq(Nat) /\ Len(grants') = n + 1
            /\ DOMAIN grants' = 1 .. (n + 1)
            /\ \A i \in 1 .. n : grants'[i] = grants[i]
            /\ grants'[n + 1] = later
        BY <2>5, <2>1, <2>2, <1>0, GrantsAfter
      <3>2. TypeOK'
        BY <2>1, <2>2, <2>3, <2>5, <3>1, <1>0 DEF TypeOK
      <3>3. WindowInv'
        BY <2>1, <2>2, <2>3, <2>5, <3>1, <1>0, RatesAssumption DEF WindowInv
      <3>4. TwiceTheLimit'
        <4> SUFFICES ASSUME NEW i \in 1 .. (n + 1), i + 2 * MaxCredentials \in 1 .. (n + 1)
                     PROVE  grants'[i + 2 * MaxCredentials] - grants'[i] > Minute
          BY <3>1 DEF TwiceTheLimit
        <4>1. CASE i + 2 * MaxCredentials \in 1 .. n
          <5>1. i \in 1 .. n
            BY <4>1, <2>2, <1>0, RatesAssumption
          <5>2. grants[i + 2 * MaxCredentials] - grants[i] > Minute
            BY <4>1, <5>1, <2>2, <1>0 DEF RatesInv, TwiceTheLimit
          <5>3. QED
            BY <4>1, <5>1, <5>2, <3>1
        <4>2. CASE i + 2 * MaxCredentials = n + 1
          <5>1. i \in 1 .. n /\ i <= n - c - MaxCredentials
            BY <4>2, <2>2, <2>3, <2>5, <1>0, RatesAssumption
          <5>2. grants[i] + Minute < l /\ l <= later /\ grants[i] \in Nat
            BY <5>1, <2>3, <2>2, <1>0
          <5>3. QED
            BY <5>1, <5>2, <4>2, <3>1, <2>1, <2>3, RatesAssumption
        <4>3. QED
          <5>1. n \in Nat
            BY <2>2, <1>0
          <5>2. \A m \in 1 .. (n + 1) : m \in 1 .. n \/ m = n + 1
            BY <5>1
          <5>3. QED
            BY <5>2, <4>1, <4>2
      <3>5. QED
        BY <3>2, <3>3, <3>4 DEF RatesInv
    <2>6. QED
      BY <1>2, <2>4, <2>5 DEF AllowCredential
  <1>3. ASSUME NEW bytes \in Sizes, AllowBandwidth(bytes)
        PROVE  RatesInv'
    <2>1. /\ now' = now /\ credCount' = credCount /\ grants' = grants
          /\ lastCredential' = lastCredential
      BY <1>3 DEF AllowBandwidth
    <2>2. bytesPerSecond' \in Nat
      BY <1>3, <1>0, RatesAssumption DEF AllowBandwidth
    <2>3. sent' \in Seq([at : Nat, bytes : Sizes])
      <3>1. [at |-> now, bytes |-> bytes] \in [at : Nat, bytes : Sizes]
        BY <1>0
      <3>2. QED
        BY <3>1, <1>3, <1>0, AppendProperties DEF AllowBandwidth
    <2>4. QED
      BY <2>1, <2>2, <2>3 DEF RatesInv, TypeOK, WindowInv, TwiceTheLimit
  <1>4. CASE UNCHANGED vars
    BY <1>4 DEF vars, RatesInv, TypeOK, WindowInv, TwiceTheLimit
  <1>5. QED
    BY <1>1, <1>2, <1>3, <1>4 DEF Next

\* Whatever the limit, and however calls and clock interleave, no minute sees
\* more than twice MaxCredentialRequestsPerMinute credentials.
THEOREM CredentialWindows == Spec => []TwiceTheLimit
  <1>1. RatesInv => TwiceTheLimit
    BY DEF RatesInv
  <1>2. QED
    BY <1>1, WindowInit, WindowStep, PTL DEF Spec
=============================================================================
