------------------------------- MODULE Config -------------------------------
(***************************************************************************)
(* The configuration of `turnfly serve-turn`: internal/config/config.go,   *)
(* the flags of serveTurnCmd in cmd/turnfly/main.go, and the environment   *)
(* that `turnfly autodeploy` gives to the machines that run it.            *)
(*                                                                         *)
(* An environment maps the names of Names to text, Empty being an unset    *)
(* variable as it is for os.Getenv.  A Config keeps the fields that        *)
(* Validate tests; the others have no effect on serve-turn's life.         *)
(***************************************************************************)
EXTENDS Integers

CONSTANTS
    Atoi            \* strconv.Atoi: a function on the texts that are numbers

\* The empty text.
Empty == ""

ASSUME AtoiAssumption ==
    /\ Empty \notin DOMAIN Atoi
    /\ Atoi \in [DOMAIN Atoi -> Int]

Required == {"TURN_REALM", "TURN_SHARED_SECRET", "ADMIN_API_TOKEN"}

Names == {"TURN_PORT", "HTTP_PORT", "LOG_LEVEL"} \cup Required

\* The fields that have a flag of their own.
Flagged == {"TURNPort", "HTTPPort", "LogLevel"}

DefaultConfig ==
    [TURNPort |-> 3478, HTTPPort |-> 8080, LogLevel |-> "info",
     TURNRealm |-> Empty, TURNSharedSecret |-> Empty, AdminAPIToken |-> Empty]

\* What f gives comes before what g gives.
Over(f, g) == [x \in DOMAIN f \cup DOMAIN g |-> IF x \in DOMAIN f THEN f[x] ELSE g[x]]

\* A text replaces what it overrides unless it is empty.
Text(v, other) == IF v # Empty THEN v ELSE other

\* A port that does not parse is ignored like one that is not set.
Port(v, other) == IF v \in DOMAIN Atoi THEN Atoi[v] ELSE other

LoadFromEnv(c, env) ==
    [TURNPort         |-> Port(env["TURN_PORT"], c.TURNPort),
     HTTPPort         |-> Port(env["HTTP_PORT"], c.HTTPPort),
     LogLevel         |-> Text(env["LOG_LEVEL"], c.LogLevel),
     TURNRealm        |-> Text(env["TURN_REALM"], c.TURNRealm),
     TURNSharedSecret |-> Text(env["TURN_SHARED_SECRET"], c.TURNSharedSecret),
     AdminAPIToken    |-> Text(env["ADMIN_API_TOKEN"], c.AdminAPIToken)]

Validate(c) ==
    /\ c.TURNRealm # Empty /\ c.TURNSharedSecret # Empty /\ c.AdminAPIToken # Empty
    /\ c.TURNPort \in 1 .. 65535
    /\ c.HTTPPort \in 1 .. 65535
    /\ c.LogLevel \in {"debug", "info", "warn", "error"}
    /\ c.TURNPort # c.HTTPPort

\* flags: the flags that were given, by the fields they override, with Empty
\* and 0 like any other value.
Configured(env, flags) == Over(flags, LoadFromEnv(DefaultConfig, env))

\* Mutant: the flags are applied after the test.
AcceptsEarly(env, flags) == Validate(LoadFromEnv(DefaultConfig, env))

\* serveTurnCmd: the configuration that is tested before anything starts.
Accepts(env, flags) == Validate(Configured(env, flags))

-----------------------------------------------------------------------------
(* What a machine runs with.                                               *)

\* given: the realm, the secret and the token of autodeploy's flags or of its
\* own environment; what is not given is generated.
Supplied(given) == [n \in Required |-> Text(given[n], "generated")]

\* Mutant: --env is applied last.
AutodeployEnvLast(extra, given) ==
    Over(extra, Over(Supplied(given), [n \in Names |-> Empty]))

\* extra: the --env flags, a map from some of the names to texts that may be
\* empty.
AutodeployEnv(extra, given) ==
    Over(Supplied(given), Over(extra, [n \in Names |-> Empty]))

Endpoint(protocol, port) == [protocol |-> protocol, port |-> port]

\* Where the machine's services forward to inside the machine.
Services == {Endpoint("udp", 3478), Endpoint("tcp", 3478), Endpoint("tcp", 8080)}
=============================================================================
