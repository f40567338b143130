# turnfly in TLA+

turnfly runs a TURN server on Fly.io machines and deploys it there itself.  This
directory holds a TLA+ model of the parts of it that keep state, the TLC runs
that check the model on small instances, and TLAPS proofs of the properties that
matter most for every size.  Line numbers refer to the sources under `src/`;
`PROJECT.json` maps every definition to the lines it stands for.

    tlc -config deployer_one_operator.cfg MCDeployer
    tlapm DeployerProofs.tla

## Inventory

| Component | State | Operations | What is hard | What makes it correct |
|---|---|---|---|---|
| **Deployer** (`internal/flydeploy/deployer.go`), driven by `deploy`, `autodeploy`, `image push`, `destroy` (`cmd/turnfly/main.go`) | none of its own: the app, its addresses and its machines live on the Fly platform; a command holds one listing and what it has done so far | Deploy, Destroy, ensureApp, ensureIPs, ensureMachine, waitForHealthy | every step is a remote call that may fail, or succeed and lose its reply; the command may be killed; two operators may work at once; the listing ages | converges, without duplicates, strays or second addresses of a type; deploys only what is published; dry runs change nothing; commands end |
| **Fly client** (`client.go`) | token, dry-run flag | one HTTP call per method | lost replies, JSON round trips | an error never hides behind a success |
| **Allocation quota** (`internal/quota/quota.go`) | allocations per user and per address | AllowAllocation, ReleaseAllocation | two counters moved together; releases that do not match | never over the limit, no share lost |
| **Rate quotas** (`quota.go`) | window start, count and bytes per user | AllowCredential, AllowBandwidth | window boundaries, a clock that moves | the documented rates |
| **Rate limiter** (`internal/ratelimit/ratelimit.go`) | a token bucket per client, time of the last cleanup | Allow (with cleanup), Reset | lazy refill, forgetting | a token bucket for each client |
| **Credentials** (`internal/auth`, `internal/controlapi`) | none: a credential carries its expiry and proves itself by an HMAC | POST /v1/credentials, ValidateCredentials, ValidateUsername | seconds and fractions, overflow, two sides that must agree | valid for as long as promised, no longer, and accepted by the TURN server |
| **TURN server and process** (`internal/turnserver`, `runServeTurn`) | sockets, three goroutines, an errgroup | Start, Shutdown, signals | failures in any order, requests that do not end | stops, leaves no socket, returns the failure that brought it down |
| **Relay** (`internal/relay`) | sessions, tunnel connection, counters | Create, Get, Close, Delete, GC, ForwardPacket, handleDatagram, Run, frame codec | GC against packets in flight, unlocked session fields, a closed tunnel | no packet is counted nowhere or twice; Run ends |
| **Region store** (`internal/regions`) | a locked map of regions | Set, Remove, Get, List, Count, GenerateMultiRegionURIs, GenerateICEConfig | readers that look twice | a reply is made of regions the store held |
| **Health service** (`internal/health`) | the registered checks, one aggregate status | Register, RunChecks, GetStatus, /healthz, /readyz | the status is shared by concurrent requests that store it in any order | the status of a run that no change has overtaken is the truth |
| **Control API** (`internal/controlapi`) | none of its own | credentials, regions, ICE report, deploy stub | handlers of several critical sections | a credential is good for the TTL of its response, from the moment it was made |
| **Image publisher** (`internal/containerimage`) | none: the registry's images | BuildAndPush | a Docker Engine that answers 200 and fails inside its stream | what goes on after it has been published |
| **Configuration** (`internal/config`, flags of `serve-turn`, `--env` of `autodeploy`) | none: read once | DefaultConfig, LoadFromEnv, Validate | precedence; three packages that must agree on ports and required values | no socket under an invalid configuration; a deployed machine starts, on its services' ports |
| **Metrics** | counters | Register, Handler | nothing | - |

How they interact: the CLI calls the deployer, the deployer the client, the client
the platform; machines the platform starts run `serve-turn`, which owns the TURN
server, the HTTP server with the control API, the region store and the health
service.  Its configuration comes from the environment that autodeploy has put into the
machine.  The control API and the TURN server share only the secret.  The quota
tracker and the rate limiter are libraries that no other package calls at this
commit; they are modelled by their contract with any caller.

## Plan

1. `Deployer` with its proofs (done): the convergence that the program exists for.
2. `Quota` over the abstract `AllocationPool`, `QuotaRates` (done, proved).
3. `RateLimit` over the abstract `TokenBucket` (done, proved).
4. `Credentials`, and `ControlAPI`, which composes it with the region store and
   the health service (done, proved).
5. `Config`, and `ServeTurn`, which uses it (done, proved but for its liveness).
6. `Relay` (done, proved but for its liveness).

Every invariant and action property of the passing runs has a theorem; what is left
to TLC is liveness.

## Modules

### Deployer

One application on the platform is `app`, `ips` and `machines`.  Each operator is
a terminal that runs one command at a time; `pc` is the next API call of its
command, and `job`, `listed`, `seen`, `todo`, `result` and `logged` are the
command's locals.  Each API call is one action, so everything the code does
between two calls belongs to the action of the first.

* A configuration is an image and an environment; the services and the guest are
  the same in every deploy.  `Wire` is what a configuration becomes when it is
  sent and read back: `json:"env,omitempty"` turns an empty map into nil.
* `Answer` gives every call three outcomes: it succeeds, it is refused without
  effect, or it takes effect and the client sees an error.  A call that the
  platform must refuse (a machine that is gone, an app that exists) is refused
  at no cost; other failures are bounded by `MaxFaults`.  A lost call takes effect
  before the client sees the error.  A request that is still on its way when the
  next command lists the machines is not modelled; it would be a second operator.
* `existingByRegion` keeps the last machine of each region in a response without
  a promised order: `ByRegion` allows any.
* `Crash` kills a command before any of its calls.  `MachineStep` lets machines
  boot, stop and break at any time.
* `Build` and `Push` are the two calls of BuildAndPush to the Docker Engine, for
  `autodeploy` and `image push`.  A reply of "ok" is a status below 400 and a stream
  to its end without an error line; `built` are the operators whose command's build
  the engine holds, and `published` is what the registry holds.  The engine pushes
  whatever bears the tag: it is the command's image only if its build came to an end.
  A push to an app that does not exist is refused, which `image push` may meet.
* `waitForHealthy` is one action per machine: it ends well only in a state in
  which the machine is started, and badly at any time.

### AllocationPool, Quota, QuotaRates

Every method of the tracker holds its mutex to the end, so a call is one step.
`held` is what callers own and is not part of the tracker; they may also release
what they do not hold, and `mismatched` remembers that somebody has.  A record that a call creates on first use reads as
zero before.  `QuotaRates` models one user's record, because no call reads two.
The two readings of the clock in AllowCredential may differ; the branch on
`lastCredential.IsZero()` is dead and left out.  Byte counts are packet sizes, far
below an int64, and are not wrapped.

### TokenBucket, RateLimit

`TokenBucket` is the promise for one client: a bucket that fills at `Rate`, may
leak, and gives a token to each admitted request.  `RateLimit` keeps buckets
lazily.  A call reads the clock five times: whether a cleanup is due, the new
`lastCleanup`, the cutoff, the refill and the new `lastCheck`; each reading is no
earlier than the one before, and they span up to `Slip`.  The refinement maps a
key's `level` to what its bucket would be refilled to now, or to a full bucket if
there is none.  Tokens are float64 in the code and whole parts of a token here, so
rounding is not modelled.  A burst of zero, for which the code still admits a
key's first request, is excluded by `LimiterAssumption`.

### Credentials

A username is the expiry followed by the parts of the user id between its colons,
so that formatting and `SplitN` are concatenation and `Tail`.  HMAC, base64 and
the TURN key derivation are injective terms.  A `Duration` wraps at `HalfRange`.
The two examiners are operators, since they change nothing.  `at` is the moment at which
a credential was made, from which its TTL counts; the client gets it a little later.
`Duration.Seconds` is a float64 in the code, and its rounding is left out.

### ControlAPI

Composes `Credentials` with the region store and the health service, as
`runServeTurn` wires them.  A request is a goroutine; each locked section of its
handler is a step.  `/healthz` is RunChecks check by check, in any order (a Go map),
then the store of the status, then GetStatus.  POST /v1/credentials makes the
credential, counts the regions, and builds the URIs, in three sections.  `Set` and
`Remove` may happen at any time: `runServeTurn` calls Set once, before it listens, and
a comment there (`main.go:935`) leaves the rest of the list to deploy orchestration.
`OtherChecks` stands for checks beyond the two that `runServeTurn` registers; with the
two alone the status could never be unhealthy.  `early` and `fresh` are history
variables: which runs began before the last change, and whether the run that was stored
last is one that did not.

### Config

DefaultConfig, LoadFromEnv and Validate as operators on records, with the fields that
Validate tests; `strconv.Atoi` is a constant, a function on the texts that are
numbers, and a text outside its domain leaves the field alone, as in the code.
`Configured` applies defaults, environment and flags in that order.  `AutodeployEnv` is
the environment `autodeploy` gives to a machine: the `--env` flags, and over them the
realm, secret and token that were given or generated.  A value is Empty or not; only
ports and the log level are told apart further.

### ServeTurn

`Configure` is the command up to the end of its configuration: an invalid one ends the
process before anything is opened.  The process is started by hand, with any of
`Environments` and `CommandFlags`, or as an autodeployed machine, without flags and in
an `AutodeployEnv`.  The three goroutines of `runServeTurn` step independently; `err` is the errgroup's
first error and `Cancelled` its context.  pion, `net`, `http.Server` and errgroup
are external: closing a `turn.Server` closes the PacketConn it was configured with,
closing a PacketConn twice is an error, and a server that is shut down before it
listens returns `ErrServerClosed`.  An error of `turn.Server.Close` ends Shutdown before it
closes the socket itself, which pion has closed by then.  `cause` is a history variable:
what first brought the process down, a rejected configuration, a signal, or the failure
of a server; errors of the teardown come later and are not to blame.  A TURN read loop that dies by itself is not
noticed by the code and not modelled.

### Relay

One end of a relay pair.  `run` is where the goroutine of `serve-relay` is, from
Connect through the loop of Proxy.Run and handleDatagram; `fwd` is the same for
each caller of ForwardPacket.  Sessions are objects in `heap` and the registry
holds indices, so that a caller can hold a session that is no longer registered.
Each locked section is one step.  `Counted` is what the sessions have counted as a set
with an element for each packet, so that its size is the sum over all sessions.

* Time is kept as ages: `idle` is the age of LastActive, and no age grows beyond
  what `IsExpired` can tell.  Touch stores a clock that it read up to `Slip` ago;
  LastActive has no lock, and the last writer wins.
* A datagram is its size, its magic and the id and payload length in its header;
  the peer may send any of `Incoming`, malformed ones included.
* A datagram may still be received, from the connection's queue, after the connection
  is lost.
* A session without a positive timeout never expires; `Forgotten` is about those with
  one, as NewProxy's default is.
* `select` takes `default` only when no other case is ready, and any ready case
  otherwise.
* `EnableDatagrams` is a setting of the QUIC connection.  `relay_proxy` checks the
  proxy over a tunnel that carries datagrams; `relay_datagrams` has the setting
  that `listen` and `dial` really make.
* Byte counts, RTT samples and outgoing packet counts of a session are written and
  only reported; they are left out.  `serve-relay` passes a context that nobody
  cancels; `Cancel` is what any other caller of Run may do.

## Runs

| Run | Expect | Properties | Bounds |
|---|---|---|---|
| `deployer_one_operator` | pass | TypeOK, OneMachinePerRegion, Converged, NoStrays, PublishedFirst, AllocatesOnce, MatchingLeftAlone | 2 regions, 3 machines, 2 images, 3 commands out of 4 kinds, 2 failed calls, 3 starting inventories, an app without addresses or with an IPv6 one |
| `deployer_two_operators` | pass | AtMostOneEach, KeepsDesired, DryRunPure, Termination | 2 operators, 2 commands out of 9 command lines (dry runs, image pushes, `--skip-image` and an empty region list among them), kills at any call, fairness |
| `deployer_no_env` | violation | MatchingLeftAlone | 2 identical deploys without `--env` |
| `quota_allocations` | pass | TypeOK, NoLostShare, Exact, ImplementsPool | 2 users, 2 addresses, 4 allocations, limits 3 and 2, releases of what is not held at any time |
| `rates_windows` | pass | TwiceTheLimit | a minute of 3 ticks, limit 2, 9 ticks: three windows |
| `rates_bandwidth` | violation | BandwidthIsARate | the same |
| `ratelimit_buckets` | pass | TypeOK, RateAndBurst, ImplementsTokenBucket | 2 keys, burst 2, half a token per tick, cleanup every 2 ticks, 6 ticks |
| `controlapi_requests` | pass | HonestTTL, ExpiresOnTime, FreshStatus | 2 requests at once, 1 region code, 1 further check, 2 changes, 3 ticks to a second, 12 ticks, a validity that fits, one that wraps into the past and one that wraps to a shorter one, a user id with a colon |
| `credentials_turn` | violation | AcceptedByTurn | 2 credentials, 3 ticks to a second, 15 ticks, 4 user ids, 4 validities |
| `serve_lifecycle` | pass | NoOpenSockets, ReportsCause, OpensOnlyValid, StartsAsDeployed, Stops | 2 requests, environments and flags with every kind of bad value, fairness |
| `relay_proxy` | pass | InOnce, RecordsRegistered, RoundTrip, NoOpenTunnel, GCSpares, Stops, Forgotten | 1 forwarder beside Run, 2 ids, 2 datagrams of 6, 2 forwards at and over the limit, timeout and slip 1, fairness |
| `relay_datagrams` | violation | Carries | the same, datagrams disabled |

Three commands are enough for a failure, the command that meets what it left and
one that shrinks or removes it; two failed calls let the second command fail too.
Three machine ids leave room for the duplicate that must not appear.  Two requests
and two changes let a run of the checks be overtaken by a change and its result by
that of a later run.  Every bound
is a constant of its own (`MaxCommands`, `MaxFaults`, `MachineIds`, `Slots`,
`MaxNow`, `MaxDatagrams`, `MaxForwards`, `MaxSent`, `MaxAdmits`, `MaxIssued`, `MaxChanges`, `Slip`, `Requests`).  Deadlock is not
checked where the system really stops: an operator with no command left to give,
a process that has ended.

The definitions marked `Mutant` are not part of the model.  Each one is a
plausible mistake in the code beside which it stands, and makes one of the
properties fail when it takes that definition's place.

### What the violations show

* `deployer_no_env`: without `--env` the desired environment is an empty map and
  the listed one is nil; `reflect.DeepEqual` tells them apart and every deploy
  updates, and so restarts, every machine.  The same property passes in
  `deployer_one_operator`, whose commands all have an environment.
* `rates_bandwidth`: the bytes are never reset, so the limit is one per lifetime.
* `credentials_turn`: the TURN server's key is that of a client whose password is
  the shared secret; issued passwords are HMACs.

* `relay_datagrams`: the QUIC configuration that `listen` and `dial` pass is nil, and
  datagrams are off by default, so that the tunnel carries nothing.

### Differences met while modelling

The model reproduces these too; they have no run of their own.

* autodeploy without a given secret makes a new one (`main.go:284`) and updates
  machine by machine; a call that fails half way leaves two secrets in use, where
  `docs/security.md:17` says that all servers share one.
* Destroy logs a failed DestroyMachine and returns nil (`deployer.go:178`): the
  command prints that it is complete with a machine left.  `NoStrays` therefore
  excuses a command that has logged a failure.
* `existingByRegion` keeps one machine of each region (`deployer.go:123`): of two
  machines in a region that is no longer desired, one survives a deploy that
  reports success.  `Convergence` assumes that there are none (`DistinctInventories`).
* ensureIPs is content with one address of either type and never allocates an
  IPv6 one (`deployer.go:205`), where its comment says that it "ensures at least one
  public IPv4 and IPv6 are allocated" (line 198): an app that comes with an IPv6
  address only stays without the IPv4 one that UDP needs, and no app ever gets an
  IPv6 one.  `AllocatesOnce` does not ask for that; it says that no address is bought
  of a type the app holds already.
* AllowCredential's fixed window (`quota.go:133`) allows twice the documented
  number of requests around its end; `TwiceTheLimit` shows that twice is the most.
* With a rate that does not fill a bucket in ten minutes the limiter's cleanup
  (`ratelimit.go:96`) forgets a bucket that is not full and hands out a second
  burst; `CleanupIsSafe` is the condition, and `LimiterAssumption` is not enough
  for `RateAndBurst` without it.
* A status of /healthz or /readyz may be that of another request's run
  (`health.go:88`, `:112`), and readyz says healthy before the first healthz.
  A run that began before a change may also be stored after one that began later
  (`health.go:72`), and the status is then wrong until another run is stored, though a
  right one was known.  `FreshStatus` says that these are the only ways in which the
  status is wrong: no run was stored since the change, or the one stored last began
  before it.
* The region that `runServeTurn` registers (`main.go:938`) has no Host, so that the URIs
  of a credential name none.  /v1/regions counts and lists in two sections
  (`controlapi.go:165`) and can answer with an empty list where it means to fall back
  on the well-known ones.
* A TURN_PORT or HTTP_PORT that is no number is ignored without a word
  (`config.go:55`).  METRICS_ADDR and `--metrics-addr` are read and never used: metrics
  are served on the HTTP port, where `docs/deployment.md:110` has 9090.
* `autodeploy --env TURN_PORT=...` makes the server listen elsewhere than the service
  of its machine forwards to, and `deploy` without the TURN_* variables makes machines
  whose server exits at once.  `StartsAsDeployed` is about autodeploy without such flags.
* The machine has a TCP service on 3478 (`docs/deployment.md:108`) but the TURN
  server listens on UDP only, and it binds to 0.0.0.0 (`main.go:920`) where
  `docs/deployment.md:101` says `fly-global-services`.  `StartsAsDeployed` compares the
  protocol and port of each socket with the services; it neither asks for a socket
  behind every service nor looks at the address that a socket is bound to, so it says
  nothing of these two.
* The Docker client has no timeout (`docker.go:67`) and its context is never cancelled: an
  engine that does not answer keeps `autodeploy` or `image push` waiting for ever.
* `docs/deployment.md:61` speaks of an immutable image and pushes `--tag latest`: with the
  same reference and environment, the next deploy finds machines that match and
  leaves them on the old build.
* `ice-config` says that it calls the local control API (`main.go:552`) and prints a
  server of example.com.
* turnServer.Close has closed the UDP socket when Shutdown closes it again
  (`turnserver.go:116`), so that a graceful stop ends in an error; it may hide the
  one that matters, that requests outlived the shutdown's deadline.
  `ReportsCause` is therefore about processes that a server's failure brought down.

### Fairness

`Deployer!FairSpec` is weak fairness of each operator's next step but for `Build` and
`Push`: the Fly client gives up after 30 seconds and waitForHealthy has a deadline, while
the Docker client has neither, and nobody cancels its context.  Nothing is assumed of
machines, of the platform's answers or of operators.  `ServeTurn!FairSpec` is weak
fairness of what the Go runtime and timers do; nothing is assumed of signals, of
requests, which may never finish, or of failures.  `Relay!FairSpec` adds to the
weak fairness of Run, the clock and the ticker the strong fairness of the case that
sees the cancellation: Go's select chooses evenly among the cases that are ready, so
a ticker that is ready too cannot win for ever.  Forwarders and the peer are not
assumed to do anything.

## Proofs

* **TypeCorrect** (`DeployerProofs`): `TypeOK` is not inductive: `Region(o)` is an
  element of the region list only inside the ensure loop and `Head(result[o])`
  exists only inside the wait loop.  `ControlInv` says where a command can be given
  what it has collected, and the two together are inductive.
* **DesiredKept**: `TodoInv` adds that whatever a running loop holds was live and
  outside the desired regions.  It holds for any number of operators, because a
  machine never changes its region.
* **DryRunsArePure**: follows from `TypeOK` and `ControlInv` action by action.
* **AddressesAllocatedOnce**, for one operator and whatever addresses the app has at
  first: between ListIPs and AllocateIP the
  app still has no address (`AddressInv`).
* **Convergence**, for one operator, distinct regions on every command line and at
  most one machine per region at first.  `Snapshot` says that what Deploy listed is
  still true of every machine it has not touched, that the regions it is through
  with are served and that a region in which it saw nothing and made nothing is
  empty; `Outcome` carries `Converged` and `NoStrays` from the moment each becomes
  true to the end of the command.  Their conjunction with `OneMachinePerRegion` and
  `TodoInv` is inductive.  The assumptions are needed: two deploys at once create
  two machines where both saw none; `--regions iad,iad` creates two in one command,
  since `existingByRegion` is not refreshed; the third is among the differences above.
* **ReleasesPublished**: `PublishedFirst` is inductive together with `TypeOK` and `BuiltInv`,
  that a command comes to its push only with its build in the engine: the registry never
  loses an image, and Begin starts a command before its build.
* **AtMostOnePerOperator**, for any finite set of operators, with the assumptions on
  regions and inventories of `Convergence`.  `Armed(r)` are the operators inside a
  deploy that saw region `r` empty and have not created their machine there yet, and
  `CrowdInv` says that the machines of a region and its armed operators together are
  at most as many as the operators.  Creating a machine spends an armed operator.
  Listing an empty region arms one more, but an empty region has no machines to count.
* **UpdatesChangeSomething**, with the assumptions of `Convergence` and `GivenEnvs`: every
  command line gives an environment.  A deploy updates a machine only if what it listed
  differs from what it was given; `Snapshot` says that the machine is still as listed,
  and `DryRunInv`, that a dry run has seen no machine, leaves no other way to an update.
  `GivenEnvs` is needed: `deployer_no_env` is the counterexample without it.
* **CountersCount**, **TrackerImplementsPool** (`QuotaProofs`): counters against the
  cardinality of what is held; slots tell allocations apart (`DistinctSlots`).  The
  refinement needs the counters to be exact, and ends with the first release that
  nobody was entitled to.
* **CredentialWindows** (`QuotaRatesProofs`): `WindowInv` splits the grants into
  those of this window, those of the one before, no later than its start, and
  older ones, more than a minute older than its start.
* **Conformance** (`TokenBucketProofs`), for every rate, cost and burst: the bound on
  every past stretch of time says nothing of the next request.  `Credit` does: what was
  given since any admitted request, and what is left, is at most a full bucket and what
  flowed in since.  A step that passes time adds no more to the left side than to the
  right, and a request moves its cost from what is left to what was given.
* **TypeCorrect**, **Refinement**, **RateIsKept** (`RateLimitProofs`), for any clients,
  rate, burst and interval and any time between the readings of the clock.  `BucketInv`,
  that no bucket is ahead of the clock or above a burst, is inductive with `TypeOK`.
  Refilling in two parts comes to the same as refilling at once (`RefillLater`), and a
  late `lastCheck` only loses what flowed in between refill and check, which the abstract
  bucket may leak.  The other two assume `CleanupIsSafe`: a bucket that has been idle for
  two cleanup intervals is full, and then to forget it changes no key's level
  (`CleanupHarmless`).  With the five minutes of `NewLimiter` this means that the rate
  fills a burst in ten minutes.  Without it both are false, as said among the differences
  above.  `RateIsKept` carries `Credit` of each key through the refinement.
* **TTLHonest**, **ExpiryEnforced** (`ControlAPIProofs`): `CredentialInv` says that every
  credential, with a client or still in the handler, is what handleCredentials makes
  for some request at some moment that is past; the rest is arithmetic of whole
  seconds (`TTLBounds`, `ExpiryOnTime`) and of splitting at the first colon (`Examined`).
* **StatusIsFresh**: `HealthInv` says that a run that no change has overtaken has
  aggregated exactly what the checks it has been through find now
  (`CombineWorst`: whatever the order), and that the status such a run has stored is the
  worst until the next change or store.
* **SocketsClosed**, **CauseReported**, **ValidBeforeOpen**, **MachinesStart**
  (`ServeTurnProofs`): `SocketInv` ties an open socket to the goroutine that will close
  it, `CauseInv` the failure that is to blame to the group's error (no teardown begins,
  and so no error of a teardown is kept, before something is to blame), `ConfigInv` goroutines and sockets to
  an accepted configuration, `LaunchInv` a machine to what autodeploy gave it.
* **InboundRegistered**, **CollectsIdleOnly**, **FramesRoundTrip**, **TunnelClosed**
  (`RelayProofs`) rest on one invariant: `HandlerInv`, that what handleDatagram looked
  up is still registered, which holds because GC and Create run in its goroutine;
  `AgeInv`, that LastActive lags behind the last packet by at most `Slip`;
  `ForwardInv`, what a call holds after its send; `TunnelInv`.
* **AccountedOnce**: no step but the record of a packet changes `Counted`, and that one
  adds a single element that was not there (`CountedOneMore`); touching, ageing and
  creating a session leave it alone (`CountedSame`), and GC does not touch the heap.
* **CarriesWithDatagrams**: `relay_datagrams` refutes `Carries` for the setting that the
  code makes; with `EnableDatagrams` it holds.  A connection opens only while the tunnel
  connects, and no call is made before (`CarriesInv`), so that a call that failed for want
  of a connection never sees it open later.

The proofs assume the constants' `ASSUME`s, which TLC evaluates in the runs.

Only model-checked: liveness (`Termination`, `Stops` of the process and of the relay,
`Forgotten`), because fairness and ENABLED are beyond the prover.  The properties of the
runs `rates_bandwidth` and `credentials_turn` are false of the code and have no theorem.

## Not modelled

* Of the control API: GET /v1/regions, which reads the store and changes nothing; the
  ICE report, which increments a metric; the deploy endpoint, a stub that always
  answers 501 behind a token test; the middleware.
* Of the image publisher: the tar of the build context and the formats on the wire.
* `ice-config` and `probe`, which print or send one message and keep nothing.
* Metrics, which are written only.
* Of the client: `StopMachine`, `WaitForMachine` and `ListApps`, without a caller in the
  deployer.
* Of the relay: `Manager.Close` and `Delete`, without a caller in a proxy, and the
  certificate.
