----------------------------- MODULE MCDeployer -----------------------------
(* Small instances of Deployer for TLC.                                    *)
EXTENDS Deployer, TLC

CONSTANTS r1, r2, m1, m2, m3, v1, v2, secret1, secret2

MCRegions == {r1, r2}
MCMachineIds == {m1, m2, m3}
MCImages == {v1, v2}
MCEnvs == {EmptyEnv, NilEnv, secret1, secret2}

MCConfig(image, env) == [image |-> image, env |-> env]

Deploy(regions, config) ==
    [kind |-> "deploy", regions |-> regions, config |-> config,
     dryRun |-> FALSE, skipImage |-> FALSE]

Autodeploy(regions, config) == [Deploy(regions, config) EXCEPT !.kind = "autodeploy"]

DryRun(j) == [j EXCEPT !.dryRun = TRUE]

SkipImage(j) == [j EXCEPT !.skipImage = TRUE]

MCDestroy == [Deploy(<< >>, MCConfig(v1, secret1)) EXCEPT !.kind = "destroy"]

ImagePush(image) == [MCDestroy EXCEPT !.kind = "image", !.config.image = image]

\* Two releases and a change of secret, over growing and shrinking regions.
OneOperatorJobs ==
    {Deploy(<<r1, r2>>, MCConfig(v1, secret1)),
     Deploy(<<r2>>, MCConfig(v2, secret1)),
     Autodeploy(<<r1, r2>>, MCConfig(v2, secret2)),
     ImagePush(v1), MCDestroy}

\* Every kind of command line, dry runs, --skip-image and the rejected empty
\* list of regions included.
TwoOperatorJobs ==
    {Deploy(<<r1, r2>>, MCConfig(v1, secret1)),
     Deploy(<<r1>>, MCConfig(v2, secret1)),
     DryRun(Deploy(<<r1>>, MCConfig(v1, EmptyEnv))),
     SkipImage(Autodeploy(<<r2>>, MCConfig(v2, secret2))),
     Autodeploy(<<r2>>, MCConfig(v2, secret2)), ImagePush(v1),
     Deploy(<< >>, MCConfig(v1, secret1)),
     DryRun(MCDestroy), MCDestroy}

\* `turnfly deploy` without --env.
NoEnvJobs == {Deploy(<<r1>>, MCConfig(v1, EmptyEnv))}

MCMachine(region, state, image) ==
    [region |-> region, state |-> state, config |-> MCConfig(image, secret1)]

Unused(ids) == [m \in ids |-> MCMachine(r1, "absent", v1)]

NoMachines == {Unused(MCMachineIds)}

\* Nothing yet, a stopped machine of the first release, or one machine of each
\* release in the two regions.
SomeMachines ==
    {Unused(MCMachineIds),
     m1 :> MCMachine(r1, "stopped", v1) @@ Unused(MCMachineIds),
     m1 :> MCMachine(r1, "started", v1) @@ m2 :> MCMachine(r2, "error", v2)
        @@ Unused(MCMachineIds)}

\* A machine in the first region; every deploy of the second must create one.
FirstRegion == {m1 :> MCMachine(r1, "started", v1) @@ Unused(MCMachineIds)}

IPs(v4, v6) == [t \in {"v4", "v6"} |-> IF t = "v4" THEN v4 ELSE v6]

NoAddresses == {IPs(0, 0)}

\* No address, or only one, of the type that ensureIPs does not buy.
SomeAddresses == {IPs(0, 0), IPs(0, 1)}

OneAddress == {IPs(1, 1)}
=============================================================================
