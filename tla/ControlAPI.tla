----------------------------- MODULE ControlAPI -----------------------------
(***************************************************************************)
(* The HTTP control API of `turnfly serve-turn` at work on what its        *)
(* handlers share: the region store (internal/regions/regions.go), the     *)
(* health service (internal/health/health.go) and the clock, wired the way *)
(* runServeTurn does (cmd/turnfly/main.go).  Requests are served by        *)
(* goroutines of their own.  A handler is a sequence of critical sections  *)
(* and each of them is one step, so the sections of two requests, and the  *)
(* changes of the store, interleave.                                       *)
(***************************************************************************)
EXTENDS Credentials

CONSTANTS
    Requests,           \* requests that may be in progress at once
    Codes,              \* region codes
    Hosts,              \* hosts of regions
    NoHost,             \* Region.Host when it is not set
    OtherChecks,        \* checks besides the two of runServeTurn
    Findings,           \* the statuses those may find
    MaxChanges          \* bound: changes of the store and of the components

Statuses == {"healthy", "degraded", "unhealthy"}

\* Service.status before the first run of the checks.
NoStatus == ""

ASSUME ControlAssumption ==
    /\ {"startup", "regions"} \cap OtherChecks = {}
    /\ Findings \subseteq Statuses
    /\ NoHost \notin Hosts
    /\ MaxChanges \in Nat

VARIABLES
    regions,            \* Store.regions
    component,          \* what the other checks find
    status,             \* Service.status
    pc,                 \* per request: the next section of its handler
    ran,                \* per healthz request: the checks it has been through
    overall,            \* per healthz request: RunChecks's overall
    resp,               \* per credentials request: its response so far,
                        \* as a set of at most one
    changes,            \* how often regions or component have changed
    early,              \* requests whose checks began before the last change
    fresh               \* history: did the run that was stored last begin
                        \* after the last change

history == <<early, fresh>>
health  == <<status, ran, overall>>
world   == <<regions, component, changes>>
apiVars == <<world, health, pc, resp, history>>
allVars == <<vars, apiVars>>

Region == [code : Codes, host : Hosts \cup {NoHost}]

-----------------------------------------------------------------------------
(* regions.Store, and the components behind other checks.  runServeTurn    *)
(* registers the local region before it listens and leaves the rest of the *)
(* list to "deploy orchestration", that is to callers of Set and Remove at *)
(* any time.                                                               *)

\* A change of what the checks look at: from now on the runs in progress are
\* early ones.
Change ==
    /\ changes < MaxChanges
    /\ changes' = changes + 1
    /\ early' = {r \in Requests : pc[r] = "checks"}
    /\ fresh' = FALSE
    /\ UNCHANGED <<vars, health, pc, resp>>

\* Store.Set replaces a region of the same code.
Set(region) ==
    /\ region \notin regions
    /\ regions' = {g \in regions : g.code # region.code} \cup {region}
    /\ Change
    /\ UNCHANGED component

Remove(code) ==
    /\ \E g \in regions : g.code = code
    /\ regions' = {g \in regions : g.code # code}
    /\ Change
    /\ UNCHANGED component

\* A component breaks, recovers, or becomes slow.
ComponentChanges(name, s) ==
    /\ component[name] # s
    /\ component' = [component EXCEPT ![name] = s]
    /\ Change
    /\ UNCHANGED regions

\* Store.Count() > 0
AnyRegion == regions # {}

\* GenerateMultiRegionURIs, without TLS: every URI carries the credential.
GenerateMultiRegionURIs(username, password) ==
    {[username |-> username, password |-> password, host |-> g.host] : g \in regions}

-----------------------------------------------------------------------------
(* health.Service.                                                         *)

\* What runServeTurn and others have registered.
Checks == {"startup", "regions"} \cup OtherChecks

Check(name) ==
    IF name \in OtherChecks THEN component[name]
    ELSE IF name = "regions" /\ ~AnyRegion THEN "degraded" ELSE "healthy"

\* Mutant: a degraded check improves an unhealthy aggregate.
CombineLast(o, s) ==
    IF s \in {"unhealthy", "degraded"} THEN s ELSE o

\* The body of RunChecks's loop.
Combine(o, s) ==
    IF s = "unhealthy" \/ (s = "degraded" /\ o = "healthy") THEN s ELSE o

GetStatus == IF status = NoStatus THEN "healthy" ELSE status

\* GET /healthz: RunChecks takes its read lock.
Healthz(r) ==
    /\ pc[r] = "idle"
    /\ pc' = [pc EXCEPT ![r] = "checks"]
    /\ ran' = [ran EXCEPT ![r] = {}]
    /\ overall' = [overall EXCEPT ![r] = "healthy"]
    /\ UNCHANGED <<vars, world, status, resp, early, fresh>>

\* One check, in the random order of a map.
RunCheck(r, name) ==
    /\ pc[r] = "checks"
    /\ name \notin ran[r]
    /\ ran' = [ran EXCEPT ![r] = @ \cup {name}]
    /\ overall' = [overall EXCEPT ![r] = Combine(@, Check(name))]
    /\ UNCHANGED <<vars, world, status, pc, resp, history>>

StoreStatus(r) ==
    /\ pc[r] = "checks"
    /\ ran[r] = Checks
    /\ pc' = [pc EXCEPT ![r] = "status"]
    /\ status' = overall[r]
    /\ early' = early \ {r}
    /\ fresh' = (r \notin early)
    /\ UNCHANGED <<vars, world, ran, overall, resp>>

\* GetStatus, whose result is the reply; then the request is over.
ReplyHealth(r) ==
    /\ pc[r] = "status"
    /\ pc' = [pc EXCEPT ![r] = "idle"]
    /\ ran' = [ran EXCEPT ![r] = {}]
    /\ overall' = [overall EXCEPT ![r] = "healthy"]
    /\ UNCHANGED <<vars, world, status, resp, early, fresh>>

-----------------------------------------------------------------------------
(* POST /v1/credentials with a region store.                               *)

GenerateCredentials(r, userID, requested) ==
    /\ pc[r] = "idle"
    /\ userID # EmptyString
    /\ Cardinality(issued) + Cardinality({q \in Requests : resp[q] # {}}) < MaxIssued
    /\ resp' = [resp EXCEPT ![r] = {Response(userID, requested)}]
    /\ pc' = [pc EXCEPT ![r] = "count"]
    /\ UNCHANGED <<vars, world, health, history>>

\* The response reaches the client.
Respond(r, c) ==
    /\ issued' = issued \cup {c}
    /\ resp' = [resp EXCEPT ![r] = {}]
    /\ pc' = [pc EXCEPT ![r] = "idle"]
    /\ UNCHANGED <<now, world, health, history>>

\* regionStore.Count() > 0, and if so the URIs, in another section.
CountRegions(r) ==
    /\ pc[r] = "count"
    /\ \/ ~AnyRegion /\ \E c \in resp[r] : Respond(r, c)
       \/ /\ AnyRegion
          /\ pc' = [pc EXCEPT ![r] = "uris"]
          /\ UNCHANGED <<vars, world, health, resp, history>>

AddURIs(r) ==
    /\ pc[r] = "uris"
    /\ \E c \in resp[r] :
          Respond(r, [c EXCEPT !.uris = GenerateMultiRegionURIs(c.username, c.password)])

-----------------------------------------------------------------------------
\* runServeTurn's wiring: on Fly the store begins with the local region, whose
\* host nobody knows; elsewhere it is empty.
APIInit ==
    /\ Init
    /\ regions \in {{}} \cup {{[code |-> c, host |-> NoHost]} : c \in Codes}
    /\ component \in [OtherChecks -> Findings]
    /\ status = NoStatus
    /\ pc = [r \in Requests |-> "idle"]
    /\ ran = [r \in Requests |-> {}]
    /\ overall = [r \in Requests |-> "healthy"]
    /\ resp = [r \in Requests |-> {}]
    /\ changes = 0
    /\ early = {}
    /\ fresh = FALSE

Handle(r) ==
    \/ Healthz(r) \/ StoreStatus(r) \/ ReplyHealth(r)
    \/ \E name \in Checks : RunCheck(r, name)
    \/ \E userID \in UserIDs, requested \in Requested :
          GenerateCredentials(r, userID, requested)
    \/ CountRegions(r) \/ AddURIs(r)

APINext ==
    \/ (Tick \/ \E c \in issued : Discard(c)) /\ UNCHANGED apiVars
    \/ \E region \in Region : Set(region)
    \/ \E code \in Codes : Remove(code)
    \/ \E name \in OtherChecks, s \in Findings : ComponentChanges(name, s)
    \/ \E r \in Requests : Handle(r)

APISpec == APIInit /\ [][APINext]_allVars

-----------------------------------------------------------------------------
(* Properties.                                                             *)

\* The worst of what some checks find now.
WorstOf(names) ==
    IF \E n \in names : Check(n) = "unhealthy" THEN "unhealthy"
    ELSE IF \E n \in names : Check(n) = "degraded" THEN "degraded" ELSE "healthy"

\* Runs of checks that overlap a change are stored late and out of order, and
\* an early one may overwrite a later one.  Whenever the last to be stored began
\* after the last change, /healthz and /readyz tell the truth until the next
\* change: the worst that any check finds.  So a status is wrong only for want
\* of a run since the change, or because a run from before it was stored last;
\* it then stays wrong until another run is stored.
FreshStatus == fresh => GetStatus = WorstOf(Checks)

-----------------------------------------------------------------------------
(* The strengthenings that make the properties inductive.                  *)

\* Type correctness of what the handlers share and of each request.
APITypeOK ==
    /\ now \in Nat
    /\ component \in [OtherChecks -> Findings]
    /\ status \in Statuses \cup {NoStatus}
    /\ pc \in [Requests -> {"idle", "checks", "status", "count", "uris"}]
    /\ ran \in [Requests -> SUBSET Checks]
    /\ overall \in [Requests -> Statuses]
    /\ DOMAIN resp = Requests
    /\ early \subseteq {r \in Requests : pc[r] = "checks"}
    /\ fresh \in BOOLEAN

\* A run of checks that no change has overtaken has aggregated what its checks
\* find now.
HealthInv ==
    /\ \A r \in Requests :
          pc[r] = "checks" /\ r \notin early => overall[r] = WorstOf(ran[r])
    /\ fresh => status = WorstOf(Checks)

\* c is what handleCredentials makes for this user and validity.
MadeFor(c, userID, validity) ==
    /\ c = [username |-> <<Unix(c.at + validity)>> \o userID,
            password |-> computePassword(SharedSecret, c.username),
            ttl |-> WholeSeconds(validity), uris |-> c.uris, at |-> c.at,
            user |-> userID]
    /\ c.at \in 0 .. now

\* No later section of the handler changes what the credential says.
CredentialInv ==
    \A c \in issued \cup UNION {resp[r] : r \in Requests} :
        \E userID \in UserIDs \ {EmptyString}, requested \in Requested :
            MadeFor(c, userID, Validity(requested))
=============================================================================
