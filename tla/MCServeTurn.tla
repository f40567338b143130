---------------------------- MODULE MCServeTurn ----------------------------
EXTENDS ServeTurn, TLC

MCAtoi == "0" :> 0 @@ "3478" :> 3478 @@ "8080" :> 8080 @@ "65536" :> 65536

\* Ports that are unset, malformed, out of range or the other server's; a
\* level that does not exist; a requirement that is missing.
MCEnvironments ==
    {[n \in Names |->
        CASE n = "TURN_PORT" -> p [] n = "HTTP_PORT" -> q [] n = "LOG_LEVEL" -> l
          [] OTHER -> IF n = missing THEN "" ELSE "given"] :
     p \in {"", "8080", "65536"}, q \in {"", "http", "3478"},
     l \in {"", "verbose"}, missing \in {"", "TURN_REALM", "ADMIN_API_TOKEN"}}

MCCommandFlags ==
    {[f \in {} |-> ""], "TURNPort" :> 0, "TURNPort" :> 3478, "HTTPPort" :> 3478,
     "LogLevel" :> "", "TURNPort" :> 8080 @@ "LogLevel" :> "debug"}

MCExtraEnvs ==
    {[n \in {} |-> ""], "TURN_REALM" :> "", "TURN_REALM" :> "realm",
     "TURN_PORT" :> "8080", "LOG_LEVEL" :> "" @@ "ADMIN_API_TOKEN" :> ""}
=============================================================================
