---------------------------- MODULE Credentials ----------------------------
(***************************************************************************)
(* The life of an ephemeral TURN credential: POST /v1/credentials issues   *)
(* it (internal/controlapi/controlapi.go, internal/auth/auth.go), a client *)
(* keeps it, and it is examined later, by auth.ValidateCredentials         *)
(* (internal/auth/validate.go) or by the TURN server's AuthHandler         *)
(* (internal/turnserver/turnserver.go).                                    *)
(*                                                                         *)
(* A string that may hold colons is the sequence of its parts between      *)
(* them: "a:b" is <<"a", "b">> and the empty string is <<"">>.  HMAC, MD5  *)
(* and base64 are taken to be injective and are kept as terms.             *)
(***************************************************************************)
EXTENDS Integers, Sequences, FiniteSets

CONSTANTS
    UserIDs,            \* user_id of requests, as sequences of parts
    Requested,          \* validity_seconds of requests; 0 when it is absent
    DefaultValidity,    \* Server.credValidity, in ticks
    Second,             \* ticks of the clock in a second
    HalfRange,          \* a time.Duration wraps around at this many ticks
    SharedSecret,       \* TURN_SHARED_SECRET, a term like computePassword's
    Realm,
    MaxNow,             \* bound: the clock stops here
    MaxIssued           \* bound: credentials that exist

ASSUME CredentialsAssumption ==
    /\ UserIDs \subseteq Seq(STRING) \ {<<>>}
    /\ Requested \subseteq Nat
    /\ DefaultValidity \in Nat
    /\ Second \in Nat \ {0}
    /\ HalfRange \in Nat \ {0}
    /\ MaxNow \in Nat /\ MaxIssued \in Nat

VARIABLES
    now,
    issued              \* responses that clients hold; `at` is when the
                        \* credential in one was made, before it was sent

vars == <<now, issued>>

EmptyString == <<"">>

\* time.Time.Unix: the seconds that have passed.
Unix(t) == t \div Second

\* What 64-bit arithmetic makes of a Duration.
Wrap(d) == ((d + HalfRange) % (2 * HalfRange)) - HalfRange

\* computePassword: base64 of the HMAC.
computePassword(secret, username) == <<"hmac", secret, username>>

\* GenerateCredentials: the username is the expiry, a colon and the user.
Username(userID, validity) == <<Unix(now + validity)>> \o userID

Init == now = 0 /\ issued = {}

Tick ==
    /\ now < MaxNow
    /\ now' = now + 1
    /\ UNCHANGED issued

\* The validity that handleCredentials settles on.
Validity(requested) ==
    IF requested > 0 THEN Wrap(requested * Second) ELSE DefaultValidity

\* Duration.Seconds as an int: towards zero.
WholeSeconds(d) == IF d >= 0 THEN d \div Second ELSE -((-d) \div Second)

\* The TTL of the response.
TTL(requested) == WholeSeconds(Validity(requested))

\* The CredentialsResponse, as it is when the credential has just been made
\* and before URIs are added.
Response(userID, requested) ==
    LET username == Username(userID, Validity(requested))
    IN  [username |-> username,
         password |-> computePassword(SharedSecret, username),
         ttl |-> TTL(requested), uris |-> {}, at |-> now, user |-> userID]

\* A server without a region store answers at once.  A request with an empty
\* user_id is refused.
handleCredentials(userID, requested) ==
    /\ userID # EmptyString
    /\ Cardinality(issued) < MaxIssued
    /\ issued' = issued \cup {Response(userID, requested)}
    /\ UNCHANGED now

\* A client is done with its credential.  The service keeps no record of it.
Discard(c) ==
    /\ issued' = issued \ {c}
    /\ UNCHANGED now

Next ==
    \/ Tick
    \/ \E userID \in UserIDs, requested \in Requested :
          handleCredentials(userID, requested)
    \/ \E c \in issued : Discard(c)

Spec == Init /\ [][Next]_vars

-----------------------------------------------------------------------------
(* The two examiners.                                                      *)

\* What a validation returns when it fails.
Invalid == EmptyString

\* Mutant: every colon separates.
SplitUserAtEveryColon(username) == <<username[2]>>

\* strings.SplitN(username, ":", 2): only the first colon separates.
SplitUser(username) == Tail(username)

\* Mutant: an expired username is never refused.
UnexpiredAlways(expiryUnix) == TRUE

Unexpired(expiryUnix) == ~(Unix(now) > expiryUnix)

\* A username whose first part is not a number cannot come from
\* GenerateCredentials and is not modelled.
ValidateUsername(username) ==
    IF /\ Len(username) >= 2
       /\ SplitUser(username) # EmptyString
       /\ Unexpired(Head(username))
    THEN SplitUser(username)
    ELSE Invalid

ValidateCredentials(username, password, sharedSecret) ==
    IF password = computePassword(sharedSecret, username)
    THEN ValidateUsername(username)
    ELSE Invalid

\* turn.GenerateAuthKey: the key that both ends of a TURN exchange derive.
GenerateAuthKey(username, password) == <<"md5", username, Realm, password>>

\* The key with which the TURN server checks a message of this username.
AuthHandler(username) ==
    IF ValidateUsername(username) # Invalid
    THEN {GenerateAuthKey(username, SharedSecret)}
    ELSE {}

\* The server lets a client in whose message is signed with that key.
TurnAccepts(c) == GenerateAuthKey(c.username, c.password) \in AuthHandler(c.username)

-----------------------------------------------------------------------------
(* Properties.                                                             *)

\* Until its TTL, if it was given any, has run out since it was made.
WithinTTL(c) == c.ttl > 0 /\ now <= c.at + c.ttl * Second

\* A credential passes ValidateCredentials, as the user who asked for it, for
\* as long as the response says, counted from the moment it was made, whatever
\* the clock was at between seconds, however many colons the user id has, and
\* if the validity overflowed too (one that wraps to a fraction of a second
\* before now gets TTL 0).
HonestTTL ==
    \A c \in issued :
        WithinTTL(c) =>
            ValidateCredentials(c.username, c.password, SharedSecret) = c.user

\* It stops passing before another two seconds are over: one for the fraction
\* of a second that Unix drops, one for the second in which it expires.
ExpiresOnTime ==
    \A c \in issued :
        now >= c.at + (c.ttl + 2) * Second =>
            ValidateCredentials(c.username, c.password, SharedSecret) = Invalid

\* The documented purpose: the TURN server accepts an issued credential that
\* has not expired.
AcceptedByTurn == \A c \in issued : WithinTTL(c) => TurnAccepts(c)
=============================================================================
