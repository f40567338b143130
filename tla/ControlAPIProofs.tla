-------------------------- MODULE ControlAPIProofs --------------------------
(***************************************************************************)
(* Proofs about ControlAPI, for any number of requests in progress, any    *)
(* regions, checks, users and validities, and every length of a second and *)
(* width of a Duration.                                                    *)
(***************************************************************************)
EXTENDS ControlAPI, SequenceTheorems, TLAPS

-----------------------------------------------------------------------------
(* Whole seconds.                                                          *)

\* A quotient lies within one divisor of its dividend.
LEMMA DivBounds ==
    \A a \in Int, s \in Nat \ {0} :
        a \div s \in Int /\ (a \div s) * s <= a /\ a < (a \div s) * s + s
  BY Z3

\* A later time has no fewer whole seconds.
LEMMA DivMonotone ==
    \A a, b \in Int, s \in Nat \ {0} : a <= b => a \div s <= b \div s
  BY DivBounds, Z3

\* A full second later there are more whole seconds.
LEMMA DivNext ==
    \A a, b \in Int, s \in Nat \ {0} : a + s <= b => a \div s < b \div s
  BY DivBounds, Z3

\* A Duration, wrapped or not, is an integer.
LEMMA ValidityInt ==
    ASSUME NEW requested \in Requested
    PROVE  Validity(requested) \in Int
  <1>1. /\ requested \in Nat /\ Second \in Nat \ {0}
        /\ HalfRange \in Nat \ {0} /\ DefaultValidity \in Nat
    BY CredentialsAssumption
  <1>2. ASSUME NEW d \in Int PROVE Wrap(d) \in Int
    BY <1>1 DEF Wrap
  <1>3. requested * Second \in Int
    BY <1>1
  <1>4. QED
    BY <1>1, <1>2, <1>3 DEF Validity

\* The TTL is the validity without its fraction of a second.
LEMMA TTLBounds ==
    ASSUME NEW v \in Int
    PROVE  /\ WholeSeconds(v) \in Int
           /\ WholeSeconds(v) > 0 => WholeSeconds(v) * Second <= v
           /\ v < WholeSeconds(v) * Second + Second
  <1>1. Second \in Nat \ {0}
    BY CredentialsAssumption
  <1>2. CASE v >= 0
    BY <1>1, <1>2, DivBounds DEF WholeSeconds
  <1>3. CASE v < 0
    <2> DEFINE q == (-v) \div Second
    <2>1. /\ q \in Int /\ q * Second <= -v /\ -v < q * Second + Second
      BY <1>1, DivBounds
    <2>2. q >= 0
      BY <1>1, <1>3, <2>1, Z3
    <2>3. WholeSeconds(v) = -q
      BY <1>3 DEF WholeSeconds
    <2> HIDE DEF q
    <2>4. (-q) * Second = -(q * Second)
      BY <1>1, <2>1, Z3
    <2>5. q * Second \in Int
      BY <1>1, <2>1
    <2>6. QED
      BY <1>1, <2>1, <2>2, <2>3, <2>4, <2>5
  <1>4. QED
    BY <1>2, <1>3

\* Within the TTL the clock has not passed the expiry, and two seconds after
\* it has.
LEMMA ExpiryOnTime ==
    ASSUME NEW v \in Int, NEW t \in Nat, NEW n \in Nat
    PROVE  /\ WholeSeconds(v) > 0 /\ n <= t + WholeSeconds(v) * Second
                => ~(Unix(n) > Unix(t + v))
           /\ n >= t + (WholeSeconds(v) + 2) * Second => Unix(n) > Unix(t + v)
  <1> DEFINE w == WholeSeconds(v)
  <1>1. Second \in Nat \ {0}
    BY CredentialsAssumption
  <1>2. w \in Int /\ (w > 0 => w * Second <= v) /\ v < w * Second + Second
    BY TTLBounds
  <1> HIDE DEF w
  <1>3. w * Second \in Int /\ (w + 2) * Second = w * Second + Second + Second
    BY <1>1, <1>2, Z3
  <1>4. Unix(n) \in Int /\ Unix(t + v) \in Int
    BY <1>1, DivBounds DEF Unix
  <1>5. ASSUME w > 0, n <= t + w * Second
        PROVE  Unix(n) <= Unix(t + v)
    <2>1. n <= t + v
      BY <1>2, <1>3, <1>5
    <2>2. QED
      BY <1>1, <2>1, DivMonotone DEF Unix
  <1>6. ASSUME n >= t + (w + 2) * Second
        PROVE  Unix(n) > Unix(t + v)
    <2>1. (t + v) + Second <= n
      BY <1>1, <1>2, <1>3, <1>6
    <2>2. QED
      BY <1>1, <2>1, <1>4, DivNext DEF Unix
  <1>7. QED
    BY <1>4, <1>5, <1>6 DEF w

-----------------------------------------------------------------------------
(* A credential and its examiner.                                          *)

\* ValidateUsername on what GenerateCredentials makes: the first colon comes
\* before whatever colons the user id has.
LEMMA Examined ==
    ASSUME NEW x, NEW userID \in UserIDs \ {EmptyString}
    PROVE  ValidateUsername(<<x>> \o userID) =
               IF Unexpired(x) THEN userID ELSE Invalid
  <1>1. userID \in Seq(STRING) /\ userID # <<>>
    BY CredentialsAssumption
  <1>2. Len(userID) \in Nat /\ Len(userID) >= 1
    BY <1>1, EmptySeq, LenProperties
  <1>3. PICK S : S = STRING \cup {x}
    OBVIOUS
  <1>4. <<x>> \in Seq(S) /\ userID \in Seq(S)
    BY <1>1, <1>3
  <1> DEFINE name == <<x>> \o userID
  <1>5. Len(name) = 1 + Len(userID)
    BY <1>4
  <1>6. Head(name) = x
    BY <1>4, <1>5
  <1>7. Tail(name) = userID
    BY <1>2, <1>4, <1>5
  <1> HIDE DEF name
  <1>8. Len(name) >= 2 /\ Tail(name) # EmptyString
    BY <1>2, <1>5, <1>7
  <1>9. ValidateUsername(name) = IF Unexpired(x) THEN userID ELSE Invalid
    BY <1>6, <1>7, <1>8, Zenon DEF ValidateUsername, SplitUser
  <1>10. QED
    BY <1>9 DEF name

\* What handleCredentials makes keeps its promise at both ends of the TTL.
LEMMA TTLKept ==
    ASSUME APITypeOK, CredentialInv
    PROVE  HonestTTL /\ ExpiresOnTime
  <1> SUFFICES ASSUME NEW c \in issued
               PROVE  /\ WithinTTL(c) => ValidateCredentials(c.username, c.password, SharedSecret) = c.user
                      /\ now >= c.at + (c.ttl + 2) * Second =>
                            ValidateCredentials(c.username, c.password, SharedSecret) = Invalid
    BY DEF HonestTTL, ExpiresOnTime
  <1>1. PICK userID \in UserIDs \ {EmptyString}, requested \in Requested :
            MadeFor(c, userID, Validity(requested))
    BY DEF CredentialInv
  <1> DEFINE v == Validity(requested)
  <1>2. v \in Int /\ now \in Nat
    BY ValidityInt DEF APITypeOK
  <1>3. /\ c.username = <<Unix(c.at + v)>> \o userID
        /\ c.password = computePassword(SharedSecret, c.username)
        /\ c.ttl = WholeSeconds(v) /\ c.user = userID
        /\ c.at \in Nat
    BY <1>1, <1>2 DEF MadeFor
  <1> HIDE DEF v
  <1>4. ValidateCredentials(c.username, c.password, SharedSecret) =
            IF Unexpired(Unix(c.at + v)) THEN userID ELSE Invalid
    BY <1>3, Examined DEF ValidateCredentials
  <1>5. /\ WithinTTL(c) => Unexpired(Unix(c.at + v))
        /\ now >= c.at + (c.ttl + 2) * Second => ~Unexpired(Unix(c.at + v))
    BY <1>2, <1>3, ExpiryOnTime DEF WithinTTL, Unexpired
  <1>6. QED
    BY <1>3, <1>4, <1>5

-----------------------------------------------------------------------------
(* Health.                                                                 *)

\* Every check returns one of the three statuses.
LEMMA CheckStatus ==
    ASSUME APITypeOK, NEW n
    PROVE  Check(n) \in Statuses
  BY ControlAssumption DEF APITypeOK, Check, Statuses

\* RunChecks's loop, in whatever order the map gives the checks.
LEMMA CombineWorst ==
    ASSUME APITypeOK, NEW names, NEW n
    PROVE  Combine(WorstOf(names), Check(n)) = WorstOf(names \cup {n})
  <1>1. Check(n) \in {"healthy", "degraded", "unhealthy"}
    BY CheckStatus DEF Statuses
  <1>2. \A x \in {"unhealthy", "degraded"} :
            (\E m \in names \cup {n} : Check(m) = x)
               <=> (\E m \in names : Check(m) = x) \/ Check(n) = x
    BY Zenon
  <1>3. QED
    BY <1>1, <1>2 DEF Combine, WorstOf

\* Without a change of the world the checks find the same.
LEMMA SameWorld ==
    ASSUME UNCHANGED world
    PROVE  \A names : WorstOf(names)' = WorstOf(names)
  BY DEF world, WorstOf, Check, AnyRegion

\* Every step keeps the types.
LEMMA TypeStep ==
    ASSUME APITypeOK, [APINext]_allVars
    PROVE  APITypeOK'
  <1> USE DEF APITypeOK, vars, world, health, history, apiVars
  <1>1. CASE UNCHANGED allVars
    BY <1>1 DEF allVars
  <1>2. CASE (Tick \/ \E c \in issued : Discard(c)) /\ UNCHANGED apiVars
    BY <1>2 DEF Tick, Discard
  <1>3. ASSUME NEW region \in Region, Set(region)
        PROVE  APITypeOK'
    BY <1>3 DEF Set, Change
  <1>4. ASSUME NEW code \in Codes, Remove(code)
        PROVE  APITypeOK'
    BY <1>4 DEF Remove, Change
  <1>5. ASSUME NEW name \in OtherChecks, NEW s \in Findings, ComponentChanges(name, s)
        PROVE  APITypeOK'
    BY <1>5 DEF ComponentChanges, Change
  <1>6. ASSUME NEW r \in Requests, Handle(r)
        PROVE  APITypeOK'
    <2>1. CASE Healthz(r)
      BY <2>1 DEF Healthz, Statuses
    <2>2. CASE StoreStatus(r)
      BY <2>2 DEF StoreStatus
    <2>3. CASE ReplyHealth(r)
      BY <2>3 DEF ReplyHealth, Statuses
    <2>4. ASSUME NEW name \in Checks, RunCheck(r, name)
          PROVE  APITypeOK'
      <3>1. Combine(overall[r], Check(name)) \in Statuses
        BY CheckStatus DEF Combine
      <3>2. QED
        BY <2>4, <3>1 DEF RunCheck
    <2>5. ASSUME NEW userID \in UserIDs, NEW requested \in Requested,
                 GenerateCredentials(r, userID, requested)
          PROVE  APITypeOK'
      BY <2>5 DEF GenerateCredentials
    <2>6. CASE CountRegions(r)
      BY <2>6 DEF CountRegions, Respond
    <2>7. CASE AddURIs(r)
      BY <2>7 DEF AddURIs, Respond
    <2>8. QED
      BY <1>6, <2>1, <2>2, <2>3, <2>4, <2>5, <2>6, <2>7 DEF Handle
  <1>7. QED
    BY <1>1, <1>2, <1>3, <1>4, <1>5, <1>6 DEF APINext

\* Every step keeps HealthInv.
LEMMA HealthStep ==
    ASSUME APITypeOK, HealthInv, [APINext]_allVars
    PROVE  HealthInv'
  <1> USE DEF APITypeOK, vars, world, health, history, apiVars
  <1>1. CASE UNCHANGED allVars
    BY <1>1, SameWorld DEF allVars, HealthInv
  <1>2. CASE (Tick \/ \E c \in issued : Discard(c)) /\ UNCHANGED apiVars
    BY <1>2, SameWorld DEF HealthInv
  <1>3. CASE Change
    BY <1>3 DEF Change, HealthInv
  <1>4. ASSUME NEW r \in Requests, Handle(r)
        PROVE  HealthInv'
    <2>1. CASE Healthz(r)
      <3>1. WorstOf({}) = "healthy"
        BY DEF WorstOf
      <3>2. QED
        BY <2>1, <3>1, SameWorld DEF Healthz, HealthInv
    <2>2. CASE StoreStatus(r)
      BY <2>2, SameWorld DEF StoreStatus, HealthInv
    <2>3. CASE ReplyHealth(r)
      BY <2>3, SameWorld DEF ReplyHealth, HealthInv
    <2>4. ASSUME NEW name \in Checks, RunCheck(r, name)
          PROVE  HealthInv'
      BY <2>4, SameWorld, CombineWorst DEF RunCheck, HealthInv
    <2>5. ASSUME NEW userID \in UserIDs, NEW requested \in Requested,
                 GenerateCredentials(r, userID, requested)
          PROVE  HealthInv'
      BY <2>5, SameWorld DEF GenerateCredentials, HealthInv
    <2>6. CASE CountRegions(r)
      BY <2>6, SameWorld DEF CountRegions, Respond, HealthInv
    <2>7. CASE AddURIs(r)
      BY <2>7, SameWorld DEF AddURIs, Respond, HealthInv
    <2>8. QED
      BY <1>4, <2>1, <2>2, <2>3, <2>4, <2>5, <2>6, <2>7 DEF Handle
  <1>5. QED
    BY <1>1, <1>2, <1>3, <1>4 DEF APINext, Set, Remove, ComponentChanges

-----------------------------------------------------------------------------
(* Credentials in the handler and with the clients.                        *)

\* What is made for a user stays so while time passes.
LEMMA MadeStays ==
    ASSUME APITypeOK, now' \in {now, now + 1}, NEW c, NEW userID, NEW v,
           MadeFor(c, userID, v)
    PROVE  MadeFor(c, userID, v)'
  BY DEF MadeFor, APITypeOK, Unix, computePassword, WholeSeconds

\* Filling in the URIs leaves the rest of a response alone.
LEMMA WithURIs ==
    ASSUME NEW c, NEW username, NEW password, NEW ttl, NEW uris, NEW at, NEW user, NEW new,
           c = [username |-> username, password |-> password, ttl |-> ttl, uris |-> uris,
                at |-> at, user |-> user]
    PROVE  [c EXCEPT !.uris = new] =
               [username |-> username, password |-> password, ttl |-> ttl, uris |-> new,
                at |-> at, user |-> user]
  OBVIOUS

\* Every step keeps CredentialInv.
LEMMA CredentialStep ==
    ASSUME APITypeOK, CredentialInv, [APINext]_allVars
    PROVE  CredentialInv'
  <1> DEFINE Sound(c) == \E userID \in UserIDs \ {EmptyString}, requested \in Requested :
                             MadeFor(c, userID, Validity(requested))
             Held == issued \cup UNION {resp[r] : r \in Requests}
  <1>1. \A c \in Held : Sound(c)
    BY DEF CredentialInv
  <1>2. SUFFICES \A c \in Held' : Sound(c)'
    BY DEF CredentialInv
  <1>3. now' \in {now, now + 1}
    BY DEF APINext, allVars, vars, Tick, Discard, Set, Remove, ComponentChanges, Change,
           Handle, Healthz, StoreStatus, ReplyHealth, RunCheck, GenerateCredentials,
           CountRegions, AddURIs, Respond
  <1>4. \A c : Sound(c) => Sound(c)'
    BY <1>3, MadeStays DEF Validity, Wrap
  <1> HIDE DEF Sound
  <1>5. CASE Held' \subseteq Held
    BY <1>1, <1>4, <1>5
  <1>6. ASSUME NEW r \in Requests, NEW userID \in UserIDs, NEW requested \in Requested,
               GenerateCredentials(r, userID, requested)
        PROVE  \A c \in Held' : Sound(c)'
    <2> DEFINE new == Response(userID, requested)
    <2>1. Held' \subseteq Held \cup {new}
      BY <1>6 DEF GenerateCredentials, vars, APITypeOK
    <2>2. Sound(new)
      <3> DEFINE v == Validity(requested)
                 username == <<Unix(now + v)>> \o userID
      <3>1. new = [username |-> username,
                   password |-> computePassword(SharedSecret, username),
                   ttl |-> WholeSeconds(v), uris |-> {}, at |-> now, user |-> userID]
        BY DEF Response, Username, TTL
      <3>2. now \in 0 .. now
        BY DEF APITypeOK
      <3> HIDE DEF v, new, Unix, computePassword, WholeSeconds
      <3>3. new.at = now /\ new.uris = {} /\ new.username = username
        BY <3>1
      <3>4. MadeFor(new, userID, v)
        BY <3>1, <3>2, <3>3 DEF MadeFor
      <3>5. QED
        BY <1>6, <3>4 DEF Sound, v, GenerateCredentials
    <2>3. QED
      BY <1>1, <1>4, <2>1, <2>2
  <1>7. ASSUME NEW r \in Requests, AddURIs(r)
        PROVE  \A c \in Held' : Sound(c)'
    <2>1. PICK c \in resp[r] :
              Respond(r, [c EXCEPT !.uris = GenerateMultiRegionURIs(c.username, c.password)])
      BY <1>7 DEF AddURIs
    <2> DEFINE new == [c EXCEPT !.uris = GenerateMultiRegionURIs(c.username, c.password)]
    <2>2. Held' \subseteq Held \cup {new}
      BY <2>1 DEF Respond, APITypeOK
    <2>3. Sound(c)
      BY <1>1
    <2>4. Sound(new)
      <3>1. PICK userID \in UserIDs \ {EmptyString}, requested \in Requested :
                MadeFor(c, userID, Validity(requested))
        BY <2>3 DEF Sound
      <3> DEFINE uris == GenerateMultiRegionURIs(c.username, c.password)
      <3> HIDE DEF uris
      <3> DEFINE username == <<Unix(c.at + Validity(requested))>> \o userID
                 password == computePassword(SharedSecret, c.username)
                 ttl == WholeSeconds(Validity(requested))
                 old == c.uris
                 at == c.at
                 d == [c EXCEPT !.uris = uris]
      <3>2. /\ c = [username |-> username, password |-> password, ttl |-> ttl,
                    uris |-> old, at |-> at, user |-> userID]
            /\ c.username = username /\ at \in 0 .. now
        BY <3>1 DEF MadeFor
      <3> HIDE DEF old, ttl
      <3>3. d = [username |-> username, password |-> password, ttl |-> ttl,
                 uris |-> uris, at |-> at, user |-> userID]
        <4> HIDE DEF username, password, at
        <4>1. QED
          BY <3>2, WithURIs
      <3> HIDE DEF d
      <3>4. MadeFor(d, userID, Validity(requested))
        BY <3>2, <3>3 DEF MadeFor, ttl
      <3>5. QED
        BY <3>4 DEF Sound, uris, d
    <2>5. QED
      BY <1>1, <1>4, <2>2, <2>4
  <1>8. QED
    <2>1. CASE UNCHANGED <<issued, resp>>
      BY <1>5, <2>1
    <2>2. ASSUME NEW c \in issued, Discard(c), UNCHANGED apiVars
          PROVE  \A d \in Held' : Sound(d)'
      BY <1>5, <2>2 DEF Discard, apiVars
    <2>3. ASSUME NEW r \in Requests, CountRegions(r)
          PROVE  \A d \in Held' : Sound(d)'
      <3>1. Held' \subseteq Held
        BY <2>3 DEF CountRegions, Respond, vars, APITypeOK
      <3>2. QED
        BY <1>5, <3>1
    <2>4. QED
      BY <1>6, <1>7, <2>1, <2>2, <2>3
         DEF APINext, Handle, allVars, apiVars, vars, Tick, Set, Remove, ComponentChanges,
             Change, Healthz, StoreStatus, ReplyHealth, RunCheck

-----------------------------------------------------------------------------
(* The theorems.                                                           *)

\* The invariants hold at first.
LEMMA APIStarts ==
    ASSUME APIInit
    PROVE  APITypeOK /\ HealthInv /\ CredentialInv
  <1>1. APITypeOK
    BY DEF APIInit, Init, APITypeOK, Statuses
  <1>2. HealthInv
    BY DEF APIInit, HealthInv
  <1>3. CredentialInv
    BY DEF APIInit, Init, CredentialInv
  <1>4. QED
    BY <1>1, <1>2, <1>3

\* The invariants hold throughout.
LEMMA APIInvariant == APISpec => [](APITypeOK /\ HealthInv /\ CredentialInv)
  BY APIStarts, TypeStep, HealthStep, CredentialStep, PTL DEF APISpec

\* An issued credential validates, as its user, until its TTL is over, though
\* the store changed between the sections of the handler that made it.
THEOREM TTLHonest == APISpec => []HonestTTL
  <1>1. APITypeOK /\ CredentialInv => HonestTTL
    BY TTLKept
  <1>2. QED
    BY <1>1, APIInvariant, PTL

\* It is refused two seconds after its TTL at the latest.
THEOREM ExpiryEnforced == APISpec => []ExpiresOnTime
  <1>1. APITypeOK /\ CredentialInv => ExpiresOnTime
    BY TTLKept
  <1>2. QED
    BY <1>1, APIInvariant, PTL

\* However many runs of the checks overlap, GetStatus is the worst of what they
\* find while the run that was stored last is one that no change has overtaken.
THEOREM StatusIsFresh == APISpec => []FreshStatus
  <1>1. ASSUME APITypeOK, HealthInv
        PROVE  FreshStatus
    <2>1. WorstOf(Checks) # NoStatus
      <3>1. WorstOf(Checks) \in {"healthy", "degraded", "unhealthy"}
        BY DEF WorstOf
      <3>2. NoStatus \notin {"healthy", "degraded", "unhealthy"}
        BY Zenon DEF NoStatus
      <3>3. QED
        BY <3>1, <3>2, Zenon
    <2>2. QED
      BY <1>1, <2>1 DEF HealthInv, FreshStatus, GetStatus
  <1>2. QED
    BY <1>1, APIInvariant, PTL
=============================================================================
