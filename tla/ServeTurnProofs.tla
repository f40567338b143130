-------------------------- MODULE ServeTurnProofs --------------------------
(***************************************************************************)
(* Proofs about ServeTurn, for any requests, environments, flags and       *)
(* --env arguments.                                                        *)
(***************************************************************************)
EXTENDS ServeTurn, TLAPS

\* Types, sockets and errors, step by step.
LEMMA LifeStep ==
    ASSUME TypeOK, SocketInv, CauseInv, ConfigInv, [Next]_vars
    PROVE  TypeOK' /\ SocketInv' /\ CauseInv' /\ ConfigInv'
  <1> USE DEF TypeOK, SocketInv, CauseInv, ConfigInv, Running, Cancelled, command
  <1>1. CASE Configure
    <2>1. DOMAIN config' = DOMAIN flags \cup DOMAIN LoadFromEnv(DefaultConfig, env)
      BY <1>1 DEF Configure, Configured, Over
    <2>2. DOMAIN LoadFromEnv(DefaultConfig, env) = DOMAIN DefaultConfig
      BY DEF LoadFromEnv, DefaultConfig
    <2>3. Flagged \subseteq DOMAIN DefaultConfig
      BY DEF Flagged, DefaultConfig
    <2>4. DOMAIN config' = DOMAIN DefaultConfig
      BY <2>1, <2>2, <2>3
    <2>5. CASE Accepts(env, flags)
      BY <1>1, <2>4, <2>5 DEF Configure
    <2>6. CASE ~Accepts(env, flags)
      BY <1>1, <2>4, <2>6 DEF Configure, Blame
    <2>7. QED
      BY <2>5, <2>6
  <1>2. CASE Signal
    BY <1>2 DEF Signal, Blame
  <1>3. CASE BindUDP
    <2>1. CASE turn' = "new" /\ udpListener' = "open" /\ UNCHANGED <<cause, err>>
      BY <1>3, <2>1 DEF BindUDP, HttpSide
    <2>2. CASE turn' = "returned" /\ Blame("turn") /\ Fails("turn") /\ UNCHANGED udpListener
      BY <1>3, <2>2 DEF BindUDP, Fails, Blame, HttpSide
    <2>3. QED
      BY <1>3, <2>1, <2>2 DEF BindUDP
  <1>4. CASE NewServer
    <2>1. CASE turn' = "serve" /\ UNCHANGED <<udpListener, cause, err>>
      BY <1>4, <2>1 DEF NewServer, HttpSide
    <2>2. CASE turn' = "returned" /\ Blame("turn") /\ Fails("turn") /\ udpListener' = "closed"
      BY <1>4, <2>2 DEF NewServer, Fails, Blame, HttpSide
    <2>3. QED
      BY <1>4, <2>1, <2>2 DEF NewServer
  <1>5. CASE StopServing
    BY <1>5 DEF StopServing, HttpSide
  <1>6. CASE CloseTurnServer
    <2>1. CASE turn' = "closeListener" /\ UNCHANGED err
      BY <1>6, <2>1 DEF CloseTurnServer, HttpSide
    <2>2. CASE turn' = "returned" /\ Fails("turn")
      BY <1>6, <2>2 DEF CloseTurnServer, Fails, HttpSide
    <2>3. QED
      BY <1>6, <2>1, <2>2 DEF CloseTurnServer
  <1>7. CASE CloseListener
    BY <1>7 DEF CloseListener, Fails, Blame, HttpSide
  <1>8. CASE ListenAndServe
    <2>1. CASE /\ shutdown = "watch" /\ http' = "serve" /\ httpListener' = "open"
               /\ UNCHANGED <<cause, err>>
      BY <1>8, <2>1 DEF ListenAndServe, TurnSide
    <2>2. CASE /\ shutdown = "watch" /\ http' = "returned" /\ Blame("http")
               /\ Fails("http") /\ UNCHANGED httpListener
      BY <1>8, <2>2 DEF ListenAndServe, Fails, Blame, TurnSide
    <2>3. CASE /\ shutdown # "watch" /\ http' = "returned"
               /\ UNCHANGED <<httpListener, cause, err>>
      BY <1>8, <2>3 DEF ListenAndServe, TurnSide
    <2>4. QED
      BY <1>8, <2>1, <2>2, <2>3 DEF ListenAndServe
  <1>9. CASE ServeFails
    BY <1>9 DEF ServeFails, Fails, Blame, TurnSide
  <1>10. CASE ServeEnds
    BY <1>10 DEF ServeEnds, TurnSide
  <1>11. ASSUME NEW r \in Requests, Request(r) \/ Finish(r)
         PROVE  TypeOK' /\ SocketInv' /\ CauseInv' /\ ConfigInv'
    BY <1>11 DEF Request, Finish, TurnSide
  <1>12. CASE ShutdownBegins
    BY <1>12 DEF ShutdownBegins, TurnSide
  <1>13. CASE ShutdownDrained
    BY <1>13 DEF ShutdownDrained, TurnSide
  <1>14. CASE ShutdownTimeout
    BY <1>14 DEF ShutdownTimeout, Fails, Blame, TurnSide
  <1>15. CASE Wait
    BY <1>15 DEF Wait
  <1>16. CASE UNCHANGED vars
    BY <1>16 DEF vars
  <1>17. QED
    BY <1>1, <1>2, <1>3, <1>4, <1>5, <1>6, <1>7, <1>8, <1>9, <1>10, <1>11, <1>12,
       <1>13, <1>14, <1>15, <1>16 DEF Next, Progress

\* No step changes the command's environment or its flags.
LEMMA LaunchStep ==
    ASSUME LaunchInv, [Next]_vars
    PROVE  LaunchInv'
  <1>1. UNCHANGED <<launch, env, flags>>
    BY DEF Next, Progress, Configure, Signal, BindUDP, NewServer, StopServing,
           CloseTurnServer, CloseListener, ListenAndServe, ServeFails, ServeEnds,
           Request, Finish, ShutdownBegins, ShutdownDrained, ShutdownTimeout, Wait,
           vars, command
  <1>2. QED
    BY <1>1 DEF LaunchInv

\* The environment that autodeploy makes has all the names, and something for
\* each of the required ones.
LEMMA AutodeployGives ==
    ASSUME NEW extra \in ExtraEnvs, NEW given \in Given
    PROVE  /\ DOMAIN AutodeployEnv(extra, given) = Names
           /\ \A n \in Required : AutodeployEnv(extra, given)[n] # Empty
  <1>1. /\ DOMAIN Supplied(given) = Required
        /\ \A n \in Required : Supplied(given)[n] # Empty
    <2>1. "generated" # Empty
      BY Zenon DEF Empty
    <2>2. QED
      BY <2>1 DEF Supplied, Text
  <1>2. DOMAIN extra \subseteq Names /\ Required \subseteq Names
    BY ServeAssumption DEF Names
  <1>3. QED
    BY <1>1, <1>2 DEF AutodeployEnv, Over

\* The invariants hold at first.
LEMMA Starts ==
    ASSUME Init
    PROVE  TypeOK /\ SocketInv /\ CauseInv /\ ConfigInv /\ LaunchInv
  <1>1. /\ launch \in {"hand", "machine"}
        /\ DOMAIN env = Names
        /\ DOMAIN flags \subseteq Flagged
        /\ LaunchInv
    <2>1. CASE launch = "hand" /\ env \in Environments /\ flags \in CommandFlags
      BY <2>1, ServeAssumption DEF LaunchInv
    <2>2. CASE /\ launch = "machine" /\ flags = [f \in {} |-> Empty]
               /\ \E extra \in ExtraEnvs, given \in Given : env = AutodeployEnv(extra, given)
      BY <2>2, AutodeployGives DEF LaunchInv
    <2>3. QED
      BY <2>1, <2>2 DEF Init, Launched
  <1>2. QED
    BY <1>1 DEF Init, TypeOK, SocketInv, CauseInv, ConfigInv, Running, Cancelled

\* The invariants hold throughout the life of the process.
LEMMA Life == Spec => [](TypeOK /\ SocketInv /\ CauseInv /\ ConfigInv /\ LaunchInv)
  BY Starts, LifeStep, LaunchStep, PTL DEF Spec

\* Whatever the order of signals, failures and returns, runServeTurn returns
\* with both of its sockets closed.
THEOREM SocketsClosed == Spec => []NoOpenSockets
  <1>1. TypeOK /\ SocketInv /\ ConfigInv => NoOpenSockets
    BY DEF TypeOK, SocketInv, ConfigInv, NoOpenSockets, Running
  <1>2. QED
    BY <1>1, Life, PTL

\* When the failure of a server has brought the process down, runServeTurn
\* returns that error, whatever the other goroutines return after it.
THEOREM CauseReported == Spec => []ReportsCause
  <1>1. TypeOK /\ CauseInv => ReportsCause
    BY DEF TypeOK, CauseInv, ReportsCause, Running
  <1>2. QED
    BY <1>1, Life, PTL

\* No socket is opened but under a configuration that Validate accepts.
THEOREM ValidBeforeOpen == Spec => []OpensOnlyValid
  <1>1. ConfigInv => OpensOnlyValid
    BY DEF ConfigInv, OpensOnlyValid, Accepts
  <1>2. QED
    BY <1>1, Life, PTL

\* The defaults are accepted together with what autodeploy always gives.
LEMMA DefaultsAccepted ==
    ASSUME NEW e, NEW f, f = [x \in {} |-> Empty],
           e["TURN_PORT"] = Empty, e["HTTP_PORT"] = Empty, e["LOG_LEVEL"] = Empty,
           e["TURN_REALM"] # Empty, e["TURN_SHARED_SECRET"] # Empty,
           e["ADMIN_API_TOKEN"] # Empty
    PROVE  /\ Accepts(e, f)
           /\ Configured(e, f).TURNPort = 3478
           /\ Configured(e, f).HTTPPort = 8080
  <1> DEFINE c == LoadFromEnv(DefaultConfig, e)
  <1>1. /\ c.TURNPort = 3478 /\ c.HTTPPort = 8080 /\ c.LogLevel = "info"
        /\ c.TURNRealm # Empty /\ c.TURNSharedSecret # Empty /\ c.AdminAPIToken # Empty
    BY AtoiAssumption DEF LoadFromEnv, DefaultConfig, Port, Text
  <1>2. Configured(e, f) = c
    BY DEF Configured, Over, LoadFromEnv
  <1> HIDE DEF c
  <1>3. Validate(c)
    BY <1>1 DEF Validate
  <1>4. QED
    BY <1>1, <1>2, <1>3 DEF Accepts

\* With serve-turn's defaults, an autodeployed machine is never refused for
\* its configuration and opens only sockets with the protocol and the port of one
\* of its services.
THEOREM MachinesStart == Spec => []StartsAsDeployed
  <1>1. ASSUME TypeOK, ConfigInv, LaunchInv
        PROVE  StartsAsDeployed
    <2> SUFFICES ASSUME launch = "machine", \A n \in Names \ Required : env[n] = Empty
                 PROVE  /\ turn = "none" => Running
                        /\ udpListener = "open" => Endpoint("udp", config.TURNPort) \in Services
                        /\ httpListener = "open" => Endpoint("tcp", config.HTTPPort) \in Services
      BY DEF StartsAsDeployed
    <2>1. /\ env["TURN_PORT"] = Empty /\ env["HTTP_PORT"] = Empty /\ env["LOG_LEVEL"] = Empty
          /\ env["TURN_REALM"] # Empty /\ env["TURN_SHARED_SECRET"] # Empty
          /\ env["ADMIN_API_TOKEN"] # Empty
      BY <1>1 DEF LaunchInv, Names, Required
    <2>2. /\ Accepts(env, flags)
          /\ Configured(env, flags).TURNPort = 3478
          /\ Configured(env, flags).HTTPPort = 8080
      BY <1>1, <2>1, DefaultsAccepted DEF LaunchInv
    <2>3. turn = "none" => Running
      BY <1>1, <2>2 DEF ConfigInv
    <2>4. turn # "none" => config = Configured(env, flags)
      BY <1>1 DEF ConfigInv
    <2>5. udpListener = "open" \/ httpListener = "open" => turn # "none"
      BY <1>1 DEF ConfigInv
    <2>6. QED
      BY <2>2, <2>3, <2>4, <2>5 DEF Services
  <1>2. QED
    BY <1>1, Life, PTL
=============================================================================
