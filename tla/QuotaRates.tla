----------------------------- MODULE QuotaRates -----------------------------
(***************************************************************************)
(* quota.Tracker (internal/quota/quota.go), the two limits per unit of     *)
(* time: credentials per minute and bytes per second.  The record of one   *)
(* user is modelled, since no method ever reads or writes two of them.     *)
(* The mutex is held for the whole of each call; the clock is not stopped  *)
(* by it, so a call that reads the clock twice may see two times.          *)
(*                                                                         *)
(* `grants` and `sent` are history: what the tracker has allowed, and when.*)
(***************************************************************************)
EXTENDS Integers, Sequences, FiniteSets, SequencesExt

CONSTANTS
    Minute,             \* time.Minute, in clock ticks
    Second,             \* one second, in clock ticks
    MaxCredentials,     \* Limits.MaxCredentialRequestsPerMinute
    MaxBandwidth,       \* Limits.MaxBandwidthPerUser
    Sizes,              \* byte counts that AllowBandwidth is asked for
    MaxNow,             \* bound: the clock stops here
    MaxSent             \* bound: sends that were allowed

ASSUME RatesAssumption ==
    /\ Minute \in Nat /\ Second \in Nat
    /\ MaxCredentials \in Nat
    /\ MaxBandwidth \in Int
    /\ Sizes \subseteq Nat
    /\ MaxNow \in Nat /\ MaxSent \in Nat

VARIABLES
    now,
    credCount,          \* userQuota.credCount
    lastCredential,     \* userQuota.lastCredential
    bytesPerSecond,     \* userQuota.bytesPerSecond
    grants,             \* when credentials were allowed
    sent                \* what was allowed to be sent: [at, bytes]

vars == <<now, credCount, lastCredential, bytesPerSecond, grants, sent>>

\* The zero time.Time: more than a minute before anything happens.
ZeroTime == -(Minute + 1)

Init ==
    /\ now = 0
    /\ credCount = 0
    /\ lastCredential = ZeroTime
    /\ bytesPerSecond = 0
    /\ grants = <<>>
    /\ sent = <<>>

Tick ==
    /\ now < MaxNow
    /\ now' = now + 1
    /\ UNCHANGED <<credCount, lastCredential, bytesPerSecond, grants, sent>>

\* Mutant: the window is reset before its minute is over.
WindowOverEarly == now - lastCredential >= Minute

\* time.Since(uq.lastCredential) > time.Minute.
WindowOver == now - lastCredential > Minute

\* The count and the start of the window when the limit is tested; `later` is
\* the clock's second reading.
CountAtTest == IF WindowOver THEN 0 ELSE credCount
StartAtTest(later) == IF WindowOver THEN later ELSE lastCredential

\* One call.  The IsZero branch after the test is dead: a zero time is over a
\* minute old and has just been replaced.
AllowCredential(later) ==
    /\ later <= MaxNow
    /\ now' = later
    /\ lastCredential' = StartAtTest(later)
    /\ \/ /\ CountAtTest >= MaxCredentials
          /\ credCount' = CountAtTest
          /\ UNCHANGED grants
       \/ /\ CountAtTest < MaxCredentials
          /\ credCount' = CountAtTest + 1
          /\ grants' = Append(grants, later)
    /\ UNCHANGED <<bytesPerSecond, sent>>

\* The test of AllowBandwidth.
UnderBandwidth(bytes) ==
    MaxBandwidth > 0 => bytesPerSecond + bytes <= MaxBandwidth

\* The call that is allowed; one that is not changes nothing.
AllowBandwidth(bytes) ==
    /\ Len(sent) < MaxSent
    /\ UnderBandwidth(bytes)
    /\ bytesPerSecond' =
          IF MaxBandwidth > 0 THEN bytesPerSecond + bytes ELSE bytesPerSecond
    /\ sent' = Append(sent, [at |-> now, bytes |-> bytes])
    /\ UNCHANGED <<now, credCount, lastCredential, grants>>

Next ==
    \/ Tick
    \/ \E later \in {now, now + 1} : AllowCredential(later)
    \/ \E bytes \in Sizes : AllowBandwidth(bytes)

Spec == Init /\ [][Next]_vars

-----------------------------------------------------------------------------
(* Properties.                                                             *)

\* Type correctness of the record and of what is remembered of its calls.
TypeOK ==
    /\ now \in Nat
    /\ credCount \in Nat
    /\ lastCredential \in Int
    /\ bytesPerSecond \in Nat
    /\ grants \in Seq(Nat)
    /\ sent \in Seq([at : Nat, bytes : Sizes])

\* The fixed window of AllowCredential lets no minute, wherever it begins,
\* see more than twice the limit: any 2 * MaxCredentials + 1 grants in a row
\* take longer than a minute.
TwiceTheLimit ==
    \A i \in DOMAIN grants :
        i + 2 * MaxCredentials \in DOMAIN grants
            => grants[i + 2 * MaxCredentials] - grants[i] > Minute

\* The inductive part of TwiceTheLimit.  The last credCount grants belong to
\* the window; those before it are no later than its start, and those before
\* the window that came before it are a minute older than its start.
WindowInv ==
    /\ credCount <= MaxCredentials /\ credCount <= Len(grants)
    /\ lastCredential <= now
    /\ \A i \in DOMAIN grants :
          /\ grants[i] <= now
          /\ i <= Len(grants) - credCount => grants[i] <= lastCredential
          /\ i <= Len(grants) - credCount - MaxCredentials
                => grants[i] + Minute < lastCredential

\* What was sent during the last second.
RecentBytes ==
    LET recent == SelectSeq(sent, LAMBDA s : s.at > now - Second)
    IN  FoldLeft(LAMBDA sum, s : sum + s.bytes, 0, recent)

\* The documented limit is a rate: a user whose last second leaves room for
\* another send is not refused.
BandwidthIsARate ==
    \A bytes \in Sizes :
        MaxBandwidth > 0 /\ RecentBytes + bytes <= MaxBandwidth
            => UnderBandwidth(bytes)
=============================================================================
