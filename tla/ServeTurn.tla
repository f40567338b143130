----------------------------- MODULE ServeTurn -----------------------------
(***************************************************************************)
(* The life of `turnfly serve-turn`: serveTurnCmd and runServeTurn in      *)
(* cmd/turnfly/main.go and turnserver.Server in                            *)
(* internal/turnserver/turnserver.go.  The configuration is loaded and     *)
(* tested; then an errgroup runs three goroutines, the TURN server, the    *)
(* HTTP server and the one that shuts HTTP down; a signal or the first     *)
(* error of any of them cancels the context that the other ones watch, and *)
(* the process ends when all three have returned.                          *)
(*                                                                         *)
(* net.PacketConn, pion's turn.Server, http.Server and errgroup are        *)
(* external and are modelled by what the code relies on: turn.Server.Close *)
(* closes the PacketConn it was given, closing a PacketConn twice is an    *)
(* error, and a server that is shut down before it listens never listens.  *)
(***************************************************************************)
EXTENDS Config, FiniteSets

CONSTANTS
    Requests,           \* HTTP requests that may be in progress
    Environments,       \* environments in which serve-turn is started by hand
    CommandFlags,       \* and the flags that it is then given
    ExtraEnvs           \* the --env flags of autodeploy

ASSUME ServeAssumption ==
    /\ Environments \subseteq [Names -> STRING]
    /\ \A f \in CommandFlags : DOMAIN f \subseteq Flagged
    /\ \A extra \in ExtraEnvs : DOMAIN extra \subseteq Names

VARIABLES
    launch,             \* started by hand or as an autodeployed machine
    env,                \* the process's environment
    flags,              \* its flags
    config,             \* runServeTurn's cfg
    signalled,          \* SIGINT or SIGTERM has arrived
    turn,               \* where the TURN goroutine is
    http,               \* where the HTTP goroutine is
    shutdown,           \* where the goroutine that shuts HTTP down is
    udpListener,        \* Server.udpListener
    httpListener,
    active,             \* requests that the HTTP server is serving
    cause,              \* history: what first brought the process down
    err,                \* the errgroup's first error
    exit                \* what runServeTurn has returned

command == <<launch, env, flags, config>>

vars == <<command, signalled, turn, http, shutdown, udpListener, httpListener,
          active, cause, err, exit>>

\* Type correctness of the three goroutines, the sockets and the group.
TypeOK ==
    /\ launch \in {"hand", "machine"}
    /\ DOMAIN env = Names
    /\ DOMAIN flags \subseteq Flagged
    /\ DOMAIN config = DOMAIN DefaultConfig
    /\ signalled \in BOOLEAN
    /\ turn \in {"none", "bind", "new", "serve", "closeTurn", "closeListener", "returned"}
    /\ http \in {"none", "listen", "serve", "returned"}
    /\ shutdown \in {"none", "watch", "drain", "returned"}
    /\ udpListener \in {"none", "open", "closed"}
    /\ httpListener \in {"none", "open", "closed"}
    /\ active \subseteq Requests
    /\ cause \in {"none", "config", "signal", "turn", "http"}
    /\ err \in {"nil", "turn", "http", "shutdown"}
    /\ exit \in {"running", "ok", "error"}

\* What is given to autodeploy of what serve-turn requires.
Given == [Required -> {Empty, "given"}]

\* The image's command is serve-turn without flags.
Launched ==
    \/ launch = "hand" /\ env \in Environments /\ flags \in CommandFlags
    \/ /\ launch = "machine" /\ flags = [f \in {} |-> Empty]
       /\ \E extra \in ExtraEnvs, given \in Given : env = AutodeployEnv(extra, given)

Init ==
    /\ Launched
    /\ config = DefaultConfig
    /\ signalled = FALSE
    /\ turn = "none" /\ http = "none" /\ shutdown = "none"
    /\ udpListener = "none" /\ httpListener = "none"
    /\ active = {}
    /\ cause = "none"
    /\ err = "nil" /\ exit = "running"

Running == exit = "running"

\* The errgroup's context, derived from the one that signals cancel.
Cancelled == signalled \/ err # "nil"

\* A goroutine returns an error; the group keeps the first.
Fails(who) == err' = IF err = "nil" THEN who ELSE err

\* What is to blame is what came first: later errors are those of the teardown.
Blame(who) == cause' = IF cause = "none" THEN who ELSE cause

\* serveTurnCmd's RunE and the start of runServeTurn.
Configure ==
    /\ Running
    /\ turn = "none"
    /\ config' = Configured(env, flags)
    /\ IF Accepts(env, flags)
       THEN /\ turn' = "bind" /\ http' = "listen" /\ shutdown' = "watch"
            /\ UNCHANGED <<cause, exit>>
       ELSE /\ Blame("config") /\ exit' = "error"
            /\ UNCHANGED <<turn, http, shutdown>>
    /\ UNCHANGED <<launch, env, flags, signalled, udpListener, httpListener,
                   active, err>>

\* signal.NotifyContext: before it is called a signal just ends the process.
Signal ==
    /\ Running
    /\ turn # "none"
    /\ ~signalled
    /\ signalled' = TRUE
    /\ Blame("signal")
    /\ UNCHANGED <<turn, http, shutdown, udpListener, httpListener, active,
                   err, exit, command>>

-----------------------------------------------------------------------------
(* turnserver.Server.Start and Shutdown.                                   *)

HttpSide == <<http, shutdown, httpListener, active>>

\* ResolveUDPAddr and ListenUDP.
BindUDP ==
    /\ turn = "bind"
    /\ \/ turn' = "new" /\ udpListener' = "open" /\ UNCHANGED <<cause, err>>
       \/ /\ turn' = "returned" /\ Blame("turn")
          /\ Fails("turn") /\ UNCHANGED udpListener
    /\ UNCHANGED <<signalled, exit, HttpSide, command>>

\* Mutant: the socket stays open when the TURN server is not created.
NewServerLeaks ==
    /\ turn = "new"
    /\ \/ turn' = "serve" /\ UNCHANGED <<udpListener, cause, err>>
       \/ /\ turn' = "returned" /\ Blame("turn")
          /\ Fails("turn") /\ UNCHANGED udpListener
    /\ UNCHANGED <<signalled, exit, HttpSide, command>>

\* turn.NewServer; if it fails the socket is closed again.
NewServer ==
    /\ turn = "new"
    /\ \/ turn' = "serve" /\ UNCHANGED <<udpListener, cause, err>>
       \/ /\ turn' = "returned" /\ Blame("turn")
          /\ Fails("turn") /\ udpListener' = "closed"
    /\ UNCHANGED <<signalled, exit, HttpSide, command>>

\* <-ctx.Done().
StopServing ==
    /\ turn = "serve"
    /\ Cancelled
    /\ turn' = "closeTurn"
    /\ UNCHANGED <<signalled, udpListener, cause, err, exit, HttpSide, command>>

\* turnServer.Close() closes the PacketConn.  If that brings an error Shutdown
\* returns it at once.
CloseTurnServer ==
    /\ turn = "closeTurn"
    /\ \/ turn' = "closeListener" /\ UNCHANGED err
       \/ turn' = "returned" /\ Fails("turn")
    /\ udpListener' = "closed"
    /\ UNCHANGED <<signalled, cause, exit, HttpSide, command>>

\* udpListener.Close(), an error if it is closed already.
CloseListener ==
    /\ turn = "closeListener"
    /\ turn' = "returned"
    /\ udpListener' = "closed"
    /\ IF udpListener = "closed" THEN Fails("turn") ELSE UNCHANGED err
    /\ UNCHANGED <<signalled, cause, exit, HttpSide, command>>

-----------------------------------------------------------------------------
(* The HTTP server and its shutdown.                                       *)

TurnSide == <<turn, udpListener>>

\* ListenAndServe begins, unless Shutdown was called before.
ListenAndServe ==
    /\ http = "listen"
    /\ \/ /\ shutdown = "watch"
          /\ http' = "serve" /\ httpListener' = "open" /\ UNCHANGED <<cause, err>>
       \/ /\ shutdown = "watch"
          /\ http' = "returned" /\ Blame("http")
          /\ Fails("http") /\ UNCHANGED httpListener
       \/ /\ shutdown # "watch"
          /\ http' = "returned" /\ UNCHANGED <<httpListener, cause, err>>
    /\ UNCHANGED <<signalled, shutdown, active, exit, TurnSide, command>>

\* Mutant: the goroutine logs the error and returns nil.
ServeFailsSilently ==
    /\ http = "serve"
    /\ httpListener = "open"
    /\ http' = "returned" /\ httpListener' = "closed"
    /\ Blame("http")
    /\ UNCHANGED <<signalled, shutdown, active, err, exit, TurnSide, command>>

\* The listener breaks while serving; ListenAndServe closes it and returns.
ServeFails ==
    /\ http = "serve"
    /\ httpListener = "open"
    /\ http' = "returned" /\ httpListener' = "closed"
    /\ Blame("http")
    /\ Fails("http")
    /\ UNCHANGED <<signalled, shutdown, active, exit, TurnSide, command>>

\* Shutdown has closed the listener: http.ErrServerClosed, which is no error.
ServeEnds ==
    /\ http = "serve"
    /\ httpListener = "closed"
    /\ http' = "returned"
    /\ UNCHANGED <<signalled, shutdown, httpListener, active, cause, err, exit,
                   TurnSide, command>>

Request(r) ==
    /\ httpListener = "open"
    /\ r \notin active
    /\ active' = active \cup {r}
    /\ UNCHANGED <<signalled, http, shutdown, httpListener, cause, err, exit,
                   TurnSide, command>>

\* Nothing makes a handler or its client finish.
Finish(r) ==
    /\ Running
    /\ r \in active
    /\ active' = active \ {r}
    /\ UNCHANGED <<signalled, http, shutdown, httpListener, cause, err, exit,
                   TurnSide, command>>

\* <-ctx.Done(), then httpSrv.Shutdown: no new connection from here on.
ShutdownBegins ==
    /\ shutdown = "watch"
    /\ Cancelled
    /\ shutdown' = "drain"
    /\ httpListener' = IF httpListener = "open" THEN "closed" ELSE httpListener
    /\ UNCHANGED <<signalled, http, active, cause, err, exit, TurnSide, command>>

ShutdownDrained ==
    /\ shutdown = "drain"
    /\ active = {}
    /\ shutdown' = "returned"
    /\ UNCHANGED <<signalled, http, httpListener, active, cause, err, exit,
                   TurnSide, command>>

\* Mutant: Shutdown gets a context without a deadline.
NoShutdownTimeout ==
    /\ FALSE
    /\ UNCHANGED vars

\* Ten seconds are over: context.DeadlineExceeded.
ShutdownTimeout ==
    /\ shutdown = "drain"
    /\ active # {}
    /\ shutdown' = "returned"
    /\ Fails("shutdown")
    /\ UNCHANGED <<signalled, http, httpListener, active, cause, exit, TurnSide, command>>

-----------------------------------------------------------------------------
\* g.Wait() and the end of runServeTurn.  No error of the three goroutines is
\* context.Canceled or http.ErrServerClosed, the ones that would be dropped.
Wait ==
    /\ Running
    /\ turn = "returned" /\ http = "returned" /\ shutdown = "returned"
    /\ exit' = IF err = "nil" THEN "ok" ELSE "error"
    /\ UNCHANGED <<signalled, turn, http, shutdown, udpListener, httpListener,
                   active, cause, err, command>>

\* What the runtime does by itself.
Progress ==
    \/ Configure
    \/ BindUDP \/ NewServer \/ StopServing \/ CloseTurnServer \/ CloseListener
    \/ ListenAndServe \/ ServeEnds
    \/ ShutdownBegins \/ ShutdownDrained \/ ShutdownTimeout
    \/ Wait

Next ==
    \/ Progress
    \/ Signal \/ ServeFails
    \/ \E r \in Requests : Request(r) \/ Finish(r)

Spec == Init /\ [][Next]_vars

\* Goroutines that can run do run, and deadlines pass.  Nothing is assumed of
\* signals, of requests, or of a listener's failures.
FairSpec ==
    /\ Spec
    /\ WF_vars(Configure)
    /\ WF_vars(BindUDP) /\ WF_vars(NewServer)
    /\ WF_vars(StopServing) /\ WF_vars(CloseTurnServer) /\ WF_vars(CloseListener)
    /\ WF_vars(ListenAndServe) /\ WF_vars(ServeEnds)
    /\ WF_vars(ShutdownBegins) /\ WF_vars(ShutdownDrained)
    /\ WF_vars(ShutdownTimeout)
    /\ WF_vars(Wait)

-----------------------------------------------------------------------------
(* Properties.                                                             *)

\* A signal, or the failure of one server, ends the process, though the other
\* server is healthy and a client may hold a request for ever.
Stops == Cancelled ~> ~Running

\* Whatever the order of signals, failures and returns, no socket is open
\* when runServeTurn returns.
NoOpenSockets == ~Running => udpListener # "open" /\ httpListener # "open"

\* A process that the failure of a server has brought down returns that very
\* error: it is neither swallowed by the goroutine that met it nor replaced by
\* the errors of the teardown, the second close of the socket and the deadline
\* of Shutdown among them.  After a signal nothing of the kind holds: the second
\* close makes every stop an error, and may hide that requests were cut off.
ReportsCause ==
    ~Running /\ cause \in {"turn", "http"} => exit = "error" /\ err = cause

\* A socket is only ever opened under a configuration that Validate accepts,
\* whichever of defaults, environment and flags each field came from.
OpensOnlyValid ==
    udpListener # "none" \/ httpListener # "none" => Validate(config)

\* A machine that autodeploy made is not refused for its configuration, and
\* each socket its server opens has the protocol and the port of one of the
\* machine's services, unless --env itself set a port or the log level.  --env
\* cannot blank what serve-turn requires: ensureMachine's literal ports,
\* serve-turn's defaults and the order in which autodeploy fills the environment
\* are in three packages.  Nothing is said of the address a socket is bound to,
\* nor that each service has its socket: TCP 3478 has none.
StartsAsDeployed ==
    /\ launch = "machine"
    /\ \A n \in Names \ Required : env[n] = Empty
    => /\ turn = "none" => Running
       /\ udpListener = "open" => Endpoint("udp", config.TURNPort) \in Services
       /\ httpListener = "open" => Endpoint("tcp", config.HTTPPort) \in Services

-----------------------------------------------------------------------------
(* The strengthenings that make the properties inductive.                  *)

\* A socket is open only while the goroutine that closes it is at work; the
\* HTTP listener is closed by the goroutine that shuts HTTP down.
SocketInv ==
    /\ udpListener = "open" => turn \in {"new", "serve", "closeTurn", "closeListener"}
    /\ httpListener = "open" => http = "serve" /\ shutdown = "watch"
    /\ http = "serve" => httpListener # "none"

\* The group has kept the error of the server that is to blame.  The teardown
\* begins, and the group has an error, only when something is to blame already.
CauseInv ==
    /\ cause \in {"turn", "http"} => err = cause
    /\ cause = "none" =>
          /\ ~Cancelled
          /\ turn \notin {"closeTurn", "closeListener", "returned"}
          /\ shutdown \notin {"drain", "returned"}
    /\ exit = "ok" => err = "nil"

\* There are goroutines and sockets only under an accepted configuration.
ConfigInv ==
    /\ turn = "none" <=> http = "none"
    /\ turn = "none" <=> shutdown = "none"
    /\ turn = "none" => udpListener = "none" /\ httpListener = "none"
    /\ turn # "none" => config = Configured(env, flags) /\ Accepts(env, flags)
    /\ ~Running => \/ turn = "none" /\ ~Accepts(env, flags)
                   \/ turn = "returned" /\ http = "returned" /\ shutdown = "returned"

\* What autodeploy promises of the machines it makes.
LaunchInv ==
    launch = "machine" => flags = [f \in {} |-> Empty] /\ \A n \in Required : env[n] # Empty
=============================================================================
