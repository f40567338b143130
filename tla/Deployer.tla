------------------------------ MODULE Deployer ------------------------------
(***************************************************************************)
(* The deploy path of the turnfly CLI: `turnfly deploy`, `autodeploy`,     *)
(* `destroy` and `image push` (cmd/turnfly/main.go) driving                *)
(* flydeploy.Deployer (internal/flydeploy/deployer.go) over                *)
(* flydeploy.Client (client.go), and containerimage.DockerPublisher        *)
(* (internal/containerimage/docker.go).                                    *)
(*                                                                         *)
(* One application on the Fly platform is the shared state: the app, its   *)
(* IP addresses and its machines.  Each operator is a terminal running one *)
(* command at a time.  A command is a sequence of API calls and each call  *)
(* is one step, so the calls of two operators interleave, any call can     *)
(* fail with or without having taken effect, and a command can be killed   *)
(* between any two of its calls.                                           *)
(***************************************************************************)
EXTENDS Integers, Sequences, FiniteSets

CONSTANTS
    Operators,      \* the terminals from which commands are run
    Regions,        \* Fly regions
    Images,         \* image references, in registry.fly.io
    Envs,           \* values of MachineConfig.Env
    EmptyEnv,       \* the empty, non-nil map parseEnvFlags makes of no --env
    NilEnv,         \* the nil map a missing "env" field decodes to
    MachineIds,     \* the machines the organisation may ever own (a bound)
    NoId,           \* the nil *Machine, and the id "" of a dry run's machine
    Jobs,           \* the command lines that may be given
    Inventories,    \* the machines that may exist before the first command
    InitialIPs,     \* the addresses the app may have before the first command
    MaxCommands,    \* bound: commands run in a behaviour
    MaxFaults       \* bound: API calls that fail in a behaviour

Config == [image : Images, env : Envs]

MachineStates == {"absent", "created", "started", "stopped", "error", "destroyed"}

\* One Fly machine. "absent": the id has not been handed out yet.
Machine == [region : Regions, state : MachineStates, config : Config]

Kinds == {"deploy", "autodeploy", "destroy", "image"}

Job == [kind : Kinds, regions : Seq(Regions), config : Config,
        dryRun : BOOLEAN, skipImage : BOOLEAN]

ASSUME ConstantsAssumption ==
    /\ NoId \notin MachineIds
    /\ EmptyEnv \in Envs
    /\ NilEnv \in Envs
    /\ EmptyEnv # NilEnv
    /\ Jobs # {}
    /\ Jobs \subseteq Job
    /\ Inventories \subseteq [MachineIds -> Machine]
    /\ InitialIPs \subseteq [{"v4", "v6"} -> Nat]
    /\ MaxCommands \in Nat
    /\ MaxFaults \in Nat

VARIABLES
    app,        \* does the application exist on the platform
    ips,        \* how many addresses of each type it holds
    machines,   \* the machines, by id
    built,      \* the operators whose command's build the Docker Engine holds
    published,  \* images that have been pushed to the registry
    pc,         \* per operator: the next call of its command
    job,        \* per operator: the command line
    listed,     \* per operator: existingMachines, the ListMachines response
    seen,       \* per operator: existingByRegion, an id of listed or nil
    todo,       \* per operator: machines the running loop has yet to destroy
    result,     \* per operator: result.Machines
    logged,     \* per operator: failures that are logged and not returned
    faults,     \* API calls that have failed
    commands    \* commands that have been started

platform == <<app, ips, machines, built, published>>
control  == <<pc, job, listed, seen, todo, result, logged>>
vars     == <<platform, control, faults, commands>>

-----------------------------------------------------------------------------
(* The platform, as the client's calls see it.                             *)

Live == {m \in MachineIds : machines[m].state \notin {"absent", "destroyed"}}

Absent == {m \in MachineIds : machines[m].state = "absent"}

\* The machines after one of them changes state, or is updated and restarted.
WithState(m, s) == [machines EXCEPT ![m].state = s]

WithConfig(m, c, s) == [machines EXCEPT ![m].config = c, ![m].state = s]

InRegion(r) == {m \in Live : machines[m].region = r}

\* A config after json.Marshal and json.Decode: `json:"env,omitempty"` drops
\* an empty map, which then decodes as the nil map.
Wire(c) == IF c.env = EmptyEnv THEN [c EXCEPT !.env = NilEnv] ELSE c

Replies == {"ok", "refused", "lost"}

\* doRequest on a call the platform is ready to accept, or not.  "ok" is a
\* decoded 2xx; "refused" an error with no effect; "lost" an error (timeout,
\* broken connection, undecodable body) after the call took effect.
Answer(accepted, reply) ==
    \/ /\ accepted <=> (reply = "ok")
       /\ reply \in {"ok", "refused"}
       /\ UNCHANGED faults
    \/ /\ reply = "refused" \/ (reply = "lost" /\ accepted)
       /\ faults < MaxFaults
       /\ faults' = faults + 1

\* A client method: `if c.dryRun` answers every call without sending it.
Call(o, accepted, reply) ==
    IF job[o].dryRun THEN reply = "ok" /\ UNCHANGED faults
                     ELSE Answer(accepted, reply)

\* Mutant: a client method without its dryRun test.
TakesEffectAlways(o, reply) == reply # "refused"

\* Did the call change the platform?
TakesEffect(o, reply) == ~job[o].dryRun /\ reply # "refused"

Goto(o, label) == pc' = [pc EXCEPT ![o] = label]

-----------------------------------------------------------------------------
(* Commands.                                                               *)

Ended == {"idle", "done", "pushed", "failed"}

Calls == {"GetImageApp", "CreateImageApp", "Build", "Push", "GetApp", "CreateApp",
          "ListIPs", "AllocateIP", "ListMachines", "DestroyMachine",
          "EnsureMachine", "StartMachine", "WaitForHealthy"}

\* The calls that go to the Docker Engine.
Engine == {"Build", "Push"}

Desired(o) == {job[o].regions[k] : k \in DOMAIN job[o].regions}

\* The region of the current iteration of Deploy's ensure loop.
Region(o) == job[o].regions[Len(result[o]) + 1]

\* A fresh process: the locals of the previous command are gone.
Begin(o, j, label) ==
    /\ pc[o] \in Ended
    /\ commands < MaxCommands
    /\ commands' = commands + 1
    /\ job' = [job EXCEPT ![o] = j]
    /\ Goto(o, label)
    /\ seen' = [seen EXCEPT ![o] = [r \in Regions |-> NoId]]
    /\ todo' = [todo EXCEPT ![o] = {}]
    /\ result' = [result EXCEPT ![o] = << >>]
    /\ logged' = [logged EXCEPT ![o] = {}]
    /\ built' = built \ {o}
    /\ UNCHANGED <<app, ips, machines, published, listed, faults>>

\* Deploy's own validation, before its first call.
DeployEntry(j) == IF j.regions = << >> THEN "failed" ELSE "GetApp"

InvokeDeploy(o) ==
    \E j \in Jobs : j.kind = "deploy" /\ Begin(o, j, DeployEntry(j))

InvokeAutodeploy(o) ==
    \E j \in Jobs :
        /\ j.kind = "autodeploy"
        /\ Begin(o, j, IF j.regions = << >> THEN "failed"
                       ELSE IF j.dryRun THEN "GetApp" ELSE "GetImageApp")

InvokeDestroy(o) ==
    \E j \in Jobs : j.kind = "destroy" /\ Begin(o, j, "ListMachines")

\* `turnfly image push`: no app is made for the image.
InvokeImagePush(o) ==
    \E j \in Jobs : j.kind = "image" /\ Begin(o, j, "Build")

-----------------------------------------------------------------------------
(* autodeploy: make the app the image is pushed to, then build and push.   *)

AfterImageApp(o) == IF job[o].skipImage THEN "GetApp" ELSE "Build"

\* ensureImageApp, first call: any error is taken for "not found".
GetImageApp(o) ==
    /\ pc[o] = "GetImageApp"
    /\ \E reply \in Replies :
        /\ Call(o, app, reply)
        /\ Goto(o, IF reply = "ok" THEN AfterImageApp(o) ELSE "CreateImageApp")
    /\ UNCHANGED <<platform, job, listed, seen, todo, result, logged, commands>>

CreateImageApp(o) ==
    /\ pc[o] = "CreateImageApp"
    /\ \E reply \in Replies :
        /\ Call(o, ~app, reply)
        /\ app' = (app \/ TakesEffect(o, reply))
        /\ Goto(o, IF reply = "ok" THEN AfterImageApp(o) ELSE "failed")
    /\ UNCHANGED <<ips, machines, built, published, job, listed, seen, todo, result, logged, commands>>

\* Mutant: a build that broke off is pushed all the same.
BuildUnchecked(o) ==
    /\ pc[o] = "Build"
    /\ \E reply \in Replies :
        /\ Call(o, TRUE, reply)
        /\ built' = IF TakesEffect(o, reply) THEN built \cup {o} ELSE built
        /\ Goto(o, "Push")
    /\ UNCHANGED <<app, ips, machines, published, job, listed, seen, todo, result, logged, commands>>

\* BuildAndPush of an image of registry.fly.io, first half: send the
\* build context, a tar of the directory, to the Docker Engine and read the
\* stream it answers with.  An unreadable
\* file, a status of 400 or more, an error line in the stream and a stream
\* that breaks off all end the command.
Build(o) ==
    /\ pc[o] = "Build"
    /\ \E reply \in Replies :
        /\ Call(o, TRUE, reply)
        /\ built' = IF TakesEffect(o, reply) THEN built \cup {o} ELSE built
        /\ Goto(o, IF reply = "ok" THEN "Push" ELSE "failed")
    /\ UNCHANGED <<app, ips, machines, published, job, listed, seen, todo, result, logged, commands>>

AfterPush(o) == IF job[o].kind = "image" THEN "pushed" ELSE "GetApp"

\* Mutant: copyDockerStream prints error lines like any other.
PushUnchecked(o) ==
    /\ pc[o] = "Push"
    /\ \E reply \in Replies :
        /\ Call(o, app, reply)
        /\ published' = IF TakesEffect(o, reply) /\ o \in built
                        THEN published \cup {job[o].config.image} ELSE published
        /\ Goto(o, AfterPush(o))
    /\ UNCHANGED <<app, ips, machines, built, job, listed, seen, todo, result, logged, commands>>

\* Second half: the engine pushes what bears the tag to the app's registry, and
\* tells how it went in the same way.  That is this command's image only if its
\* build came to an end.
Push(o) ==
    /\ pc[o] = "Push"
    /\ \E reply \in Replies :
        /\ Call(o, app, reply)
        /\ published' = IF TakesEffect(o, reply) /\ o \in built
                        THEN published \cup {job[o].config.image} ELSE published
        /\ Goto(o, IF reply = "ok" THEN AfterPush(o) ELSE "failed")
    /\ UNCHANGED <<app, ips, machines, built, job, listed, seen, todo, result, logged, commands>>

-----------------------------------------------------------------------------
(* Deploy, step 1: ensureApp.                                              *)

GetApp(o) ==
    /\ pc[o] = "GetApp"
    /\ \E reply \in Replies :
        /\ Call(o, app, reply)
        /\ Goto(o, IF reply = "ok" THEN "ListIPs" ELSE "CreateApp")
    /\ UNCHANGED <<platform, job, listed, seen, todo, result, logged, commands>>

CreateApp(o) ==
    /\ pc[o] = "CreateApp"
    /\ \E reply \in Replies :
        /\ Call(o, ~app, reply)
        /\ app' = (app \/ TakesEffect(o, reply))
        /\ Goto(o, IF reply = "ok" THEN "ListIPs" ELSE "failed")
    /\ UNCHANGED <<ips, machines, built, published, job, listed, seen, todo, result, logged, commands>>

-----------------------------------------------------------------------------
(* Deploy, step 2: ensureIPs.                                              *)

NoIPs == ips["v4"] = 0 /\ ips["v6"] = 0

\* Mutant: a failed ListIPs is taken for an empty list.
ListIPsUnchecked(o) ==
    /\ pc[o] = "ListIPs"
    /\ \E reply \in Replies :
        /\ Call(o, app, reply)
        /\ Goto(o, IF reply # "ok" \/ job[o].dryRun \/ NoIPs THEN "AllocateIP"
                   ELSE "ListMachines")
    /\ UNCHANGED <<platform, job, listed, seen, todo, result, logged, commands>>

\* A dry run lists no address, whatever the app holds.
ListIPs(o) ==
    /\ pc[o] = "ListIPs"
    /\ \E reply \in Replies :
        /\ Call(o, app, reply)
        /\ Goto(o, IF reply # "ok" THEN "failed"
                   ELSE IF job[o].dryRun \/ NoIPs THEN "AllocateIP" ELSE "ListMachines")
    /\ UNCHANGED <<platform, job, listed, seen, todo, result, logged, commands>>

AllocateIP(o) ==
    /\ pc[o] = "AllocateIP"
    /\ \E reply \in Replies :
        /\ Call(o, app, reply)
        /\ ips' = IF TakesEffect(o, reply) THEN [ips EXCEPT !["v4"] = @ + 1] ELSE ips
        /\ Goto(o, IF reply = "ok" THEN "ListMachines" ELSE "failed")
    /\ UNCHANGED <<app, machines, built, published, job, listed, seen, todo, result, logged, commands>>

-----------------------------------------------------------------------------
(* Deploy, steps 3 and 4, and Destroy: list, index by region, destroy.     *)

\* Where the loop over the machines to destroy leads when it is over.
AfterDestroys(o) == IF job[o].kind = "destroy" THEN "done" ELSE "EnsureMachine"

\* Mutant: stopped machines are left out of the map.
ByRegionRunning(m) ==
    \A r \in Regions :
        LET up == {i \in InRegion(r) : machines[i].state # "stopped"} IN
        IF up = {} THEN m[r] = NoId ELSE m[r] \in up

\* existingByRegion keeps the machine of a region that comes last in the
\* response; the API promises no order, so any machine of the region may.
ByRegion(m) ==
    \A r \in Regions :
        IF InRegion(r) = {} THEN m[r] = NoId ELSE m[r] \in InRegion(r)

\* Mutant: no nil check on the map's entries.
ToDestroyNil(o, m) ==
    IF job[o].kind = "destroy" THEN Live ELSE {m[r] : r \in Regions \ Desired(o)}

\* Mutant: only running machines are worth destroying.
ToDestroyRunning(o, m) ==
    {i \in IF job[o].kind = "destroy" THEN Live
           ELSE {m[r] : r \in Regions \ Desired(o)} \ {NoId} :
        machines[i].state = "started"}

\* Mutant: Deploy forgets to test desiredRegions.
ToDestroyAll(o, m) ==
    IF job[o].kind = "destroy" THEN Live ELSE {m[r] : r \in Regions} \ {NoId}

\* Destroy walks the whole response; Deploy only what existingByRegion kept,
\* outside the desired regions.
ToDestroy(o, m) ==
    IF job[o].kind = "destroy" THEN Live
    ELSE {m[r] : r \in Regions \ Desired(o)} \ {NoId}

ListMachines(o) ==
    /\ pc[o] = "ListMachines"
    /\ \E reply \in Replies :
        /\ Call(o, app, reply)
        /\ IF reply # "ok"
           THEN Goto(o, "failed") /\ UNCHANGED <<listed, seen, todo>>
           ELSE IF job[o].dryRun
           THEN Goto(o, AfterDestroys(o)) /\ UNCHANGED <<listed, seen, todo>>
           ELSE \E m \in [Regions -> MachineIds \cup {NoId}] :
                    /\ ByRegion(m)
                    /\ seen' = [seen EXCEPT ![o] = m]
                    /\ listed' = [listed EXCEPT ![o] = machines]
                    /\ todo' = [todo EXCEPT ![o] = ToDestroy(o, m)]
                    /\ Goto(o, IF ToDestroy(o, m) = {} THEN AfterDestroys(o)
                               ELSE "DestroyMachine")
    /\ UNCHANGED <<platform, job, result, logged, commands>>

\* One iteration of either loop.  A failure is logged and the loop goes on.
DestroyMachine(o) ==
    /\ pc[o] = "DestroyMachine"
    /\ \E m \in todo[o], reply \in Replies :
        /\ Call(o, m \in Live, reply)
        /\ machines' = IF TakesEffect(o, reply)
                       THEN WithState(m, "destroyed") ELSE machines
        /\ todo' = [todo EXCEPT ![o] = @ \ {m}]
        /\ logged' = IF reply = "ok" THEN logged
                     ELSE [logged EXCEPT ![o] = @ \cup {"destroy"}]
        /\ Goto(o, IF todo[o] = {m} THEN AfterDestroys(o) ELSE "DestroyMachine")
    /\ UNCHANGED <<app, ips, built, published, job, listed, seen, result, commands>>

-----------------------------------------------------------------------------
(* Deploy, step 4, the loop over cfg.Regions: ensureMachine.               *)

\* The end of an iteration: append to result.Machines and go round.
Ensured(o, id) ==
    /\ result' = [result EXCEPT ![o] = Append(@, id)]
    /\ Goto(o, IF Len(result[o]) + 1 < Len(job[o].regions) THEN "EnsureMachine"
               ELSE IF job[o].dryRun THEN "done" ELSE "WaitForHealthy")

\* The early return of Deploy on the first region that fails.
Abort(o) == Goto(o, "failed") /\ UNCHANGED result

\* Mutant: only the image is compared.
MatchesImage(o) ==
    listed[o][seen[o][Region(o)]].config.image = job[o].config.image

\* Mutant: existing machines are always updated.
MatchesNever(o) == FALSE

\* reflect.DeepEqual(existing.Config, desiredConfig)
Matches(o) == listed[o][seen[o][Region(o)]].config = job[o].config

\* The tail of the `existing != nil` branch, with the state the client was
\* told, by the listing or by the reply to the update.
StartIfStopped(o, told) ==
    IF told = "stopped" THEN Goto(o, "StartMachine") /\ UNCHANGED result
                        ELSE Ensured(o, seen[o][Region(o)])

CreateMachine(o) ==
    /\ pc[o] = "EnsureMachine"
    /\ seen[o][Region(o)] = NoId
    /\ \E reply \in Replies :
        /\ Call(o, app /\ Absent # {}, reply)
        /\ IF TakesEffect(o, reply)
           THEN \E m \in Absent :
                    /\ machines' = [machines EXCEPT ![m] =
                            [region |-> Region(o), state |-> "created",
                             config |-> Wire(job[o].config)]]
                    /\ IF reply = "ok" THEN Ensured(o, m) ELSE Abort(o)
           ELSE /\ UNCHANGED machines
                /\ IF reply = "ok" THEN Ensured(o, NoId) ELSE Abort(o)
    /\ UNCHANGED <<app, ips, built, published, job, listed, seen, todo, logged, commands>>

\* The update restarts the machine; the reply tells in which state it is.
UpdateMachine(o) ==
    /\ pc[o] = "EnsureMachine"
    /\ seen[o][Region(o)] # NoId
    /\ ~Matches(o)
    /\ LET id == seen[o][Region(o)] IN
       \E reply \in Replies, told \in {"created", "started", "stopped"} :
        /\ Call(o, id \in Live, reply)
        /\ machines' = IF TakesEffect(o, reply)
                       THEN WithConfig(id, Wire(job[o].config), told) ELSE machines
        /\ IF reply = "ok" THEN StartIfStopped(o, told) ELSE Abort(o)
    /\ UNCHANGED <<app, ips, built, published, job, listed, seen, todo, logged, commands>>

KeepMachine(o) ==
    /\ pc[o] = "EnsureMachine"
    /\ seen[o][Region(o)] # NoId
    /\ Matches(o)
    /\ StartIfStopped(o, listed[o][seen[o][Region(o)]].state)
    /\ UNCHANGED <<platform, job, listed, seen, todo, logged, faults, commands>>

StartMachine(o) ==
    /\ pc[o] = "StartMachine"
    /\ LET id == seen[o][Region(o)] IN
       \E reply \in Replies :
        /\ Call(o, id \in Live, reply)
        /\ machines' = IF TakesEffect(o, reply)
                       THEN WithState(id, "started") ELSE machines
        /\ IF reply = "ok" THEN Ensured(o, id) ELSE Abort(o)
    /\ UNCHANGED <<app, ips, built, published, job, listed, seen, todo, logged, commands>>

-----------------------------------------------------------------------------
(* Deploy, step 5: waitForHealthy, one machine after the other.            *)

\* Mutant: no deadline.
WaitEndsNoDeadline(m, healthy) ==
    \/ healthy /\ machines[m].state = "started"
    \/ ~healthy /\ machines[m].state \in {"error", "destroyed"}

\* The loop polls GetMachine every 10 s.  It returns nil on "started", an
\* error on "error" and "destroyed", and an error at the deadline, which can
\* pass in any state and whatever the polls answer.  Deploy only warns.
WaitEnds(m, healthy) ==
    \/ healthy /\ machines[m].state = "started"
    \/ ~healthy

WaitForHealthy(o) ==
    /\ pc[o] = "WaitForHealthy"
    /\ \E healthy \in BOOLEAN :
        /\ WaitEnds(Head(result[o]), healthy)
        /\ logged' = IF healthy THEN logged
                     ELSE [logged EXCEPT ![o] = @ \cup {"health"}]
    /\ result' = [result EXCEPT ![o] = Tail(@)]
    /\ Goto(o, IF Len(result[o]) = 1 THEN "done" ELSE "WaitForHealthy")
    /\ UNCHANGED <<platform, job, listed, seen, todo, faults, commands>>

-----------------------------------------------------------------------------
(* What happens around the commands.                                       *)

\* The process is killed (Ctrl-C, closed terminal, lost host).
Crash(o) ==
    /\ pc[o] \in Calls
    /\ Goto(o, "failed")
    /\ UNCHANGED <<platform, job, listed, seen, todo, result, logged, faults, commands>>

\* Machines boot, stop and break by themselves.
MachineStep(m) ==
    /\ \/ /\ machines[m].state = "created"
          /\ \E s \in {"started", "error"} : machines' = WithState(m, s)
       \/ /\ machines[m].state = "started"
          /\ \E s \in {"stopped", "error"} : machines' = WithState(m, s)
    /\ UNCHANGED <<app, ips, built, published, control, faults, commands>>

-----------------------------------------------------------------------------
Init ==
    /\ machines \in Inventories
    /\ ips \in InitialIPs
    /\ app \in BOOLEAN
    /\ app \/ (Live = {} /\ NoIPs)
    /\ built = {}
    /\ published = {}
    /\ pc = [o \in Operators |-> "idle"]
    /\ job = [o \in Operators |-> CHOOSE j \in Jobs : TRUE]
    /\ listed = [o \in Operators |-> machines]
    /\ seen = [o \in Operators |-> [r \in Regions |-> NoId]]
    /\ todo = [o \in Operators |-> {}]
    /\ result = [o \in Operators |-> << >>]
    /\ logged = [o \in Operators |-> {}]
    /\ faults = 0
    /\ commands = 0

Invoke(o) ==
    \/ InvokeDeploy(o) \/ InvokeAutodeploy(o) \/ InvokeDestroy(o)
    \/ InvokeImagePush(o)

Step(o) ==
    \/ GetImageApp(o) \/ CreateImageApp(o) \/ Build(o) \/ Push(o)
    \/ GetApp(o) \/ CreateApp(o)
    \/ ListIPs(o) \/ AllocateIP(o)
    \/ ListMachines(o) \/ DestroyMachine(o)
    \/ CreateMachine(o) \/ UpdateMachine(o) \/ KeepMachine(o) \/ StartMachine(o)
    \/ WaitForHealthy(o)

Next ==
    \/ \E o \in Operators : Invoke(o) \/ Step(o) \/ Crash(o)
    \/ \E m \in MachineIds : MachineStep(m)

Spec == Init /\ [][Next]_vars

\* The Fly client gives up on a call after 30 s and waitForHealthy has a
\* deadline, so a command that is not killed keeps taking steps, but for those
\* in which it waits for the Docker Engine: that client has no timeout, and
\* nobody cancels the context that it is given.
FairSpec == Spec /\ \A o \in Operators : WF_vars(pc[o] \notin Engine /\ Step(o))

-----------------------------------------------------------------------------
(* Properties.                                                             *)

\* Type correctness of the platform and of every command's locals; result
\* holds at most one entry per region of the command line.
TypeOK ==
    /\ app \in BOOLEAN
    /\ ips \in [{"v4", "v6"} -> Nat]
    /\ machines \in [MachineIds -> Machine]
    /\ built \subseteq Operators
    /\ published \subseteq Images
    /\ pc \in [Operators -> Ended \cup Calls]
    /\ job \in [Operators -> Jobs]
    /\ listed \in [Operators -> [MachineIds -> Machine]]
    /\ seen \in [Operators -> [Regions -> MachineIds \cup {NoId}]]
    /\ todo \in [Operators -> SUBSET MachineIds]
    /\ result \in [Operators -> Seq(MachineIds \cup {NoId})]
    /\ logged \in [Operators -> SUBSET {"destroy", "health"}]
    /\ faults \in Nat
    /\ commands \in Nat

\* A real command, not a dry run, has returned nil.
Succeeded(o) == pc[o] = "done" /\ ~job[o].dryRun

\* What one operator's deploys promise when each command is given distinct
\* regions and finds at most one machine per region: whatever calls are lost
\* or repeated by a later command, there is never a second machine in a
\* region (ensureMachine updates what the listing showed and creates only
\* where it showed nothing).
OneMachinePerRegion ==
    \A m, n \in Live : machines[m].region = machines[n].region => m = n

\* A Deploy that returned nil has left, in each region it was given, a machine
\* with the configuration it was given, equal as JSON.
Converged ==
    \A o \in Operators : Succeeded(o) /\ job[o].kind # "destroy" =>
        \A r \in Desired(o) : \E m \in InRegion(r) :
            Wire(machines[m].config) = Wire(job[o].config)

\* A Deploy that returned nil and logged no failed DestroyMachine has left no
\* machine in any other region; such a Destroy has left no machine at all.
NoStrays ==
    \A o \in Operators : Succeeded(o) /\ "destroy" \notin logged[o] =>
        \A m \in Live : job[o].kind # "destroy" /\ machines[m].region \in Desired(o)

\* Does o's command build and push an image?
Publishes(o) ==
    /\ job[o].kind \in {"autodeploy", "image"}
    /\ ~job[o].dryRun /\ ~job[o].skipImage

\* Where a command that has not pushed its image yet can be.
Unpublished == {"idle", "failed", "GetImageApp", "CreateImageApp", "Build", "Push"}

\* An autodeploy or an image push that is past BuildAndPush, for all the ways
\* in which a build or a push can break off, has its image in the registry: no
\* machine is pointed at a release that autodeploy never published.
PublishedFirst ==
    \A o \in Operators : Publishes(o) /\ pc[o] \notin Unpublished
        => job[o].config.image \in published

\* ensureIPs never buys a second address of a type that the app holds, even when
\* the reply to an earlier AllocateIP was lost or a command was killed between
\* the two calls.  That it ends up with an address of each type, as the
\* function's comment has it, is not said: it does not.
AllocatesOnce == [][\A t \in {"v4", "v6"} : ips'[t] > ips[t] => ips[t] = 0]_vars

\* UpdateMachine is called only on a machine whose configuration is not yet
\* what the update would make it: `Uses idempotent convergence: existing
\* machines are left alone if they match the desired state.`
MatchingLeftAlone ==
    [][\A o \in Operators : UpdateMachine(o) =>
            machines[seen[o][Region(o)]].config # Wire(job[o].config)]_vars

\* However many commands overlap, a machine goes away only at the hands of a
\* Destroy or of a Deploy that was not given its region, and never in a dry run.
KeepsDesired ==
    [][\A m \in Live : machines'[m].state = "destroyed" =>
            \E o \in Operators :
                /\ pc[o] = "DestroyMachine"
                /\ ~job[o].dryRun
                /\ job[o].kind # "destroy" => machines[m].region \notin Desired(o)]_vars

\* Two deploys that both listed an empty region both create a machine there,
\* and nothing takes the second one away.  That is the worst of it: however
\* often the operators deploy, destroy and are interrupted, a region never
\* holds more machines than there are operators.
AtMostOneEach ==
    \A r \in Regions : Cardinality(InRegion(r)) <= Cardinality(Operators)

\* A dry run changes nothing on the platform: every change of the app, the
\* addresses, the published images or the set and configuration of the
\* machines happens while some real command is running.
DryRunPure ==
    [][ \/ \E o \in Operators : pc[o] \in Calls /\ ~job[o].dryRun
        \/ /\ app' = app /\ ips' = ips /\ published' = published /\ Live' = Live
           /\ \A m \in Live : machines'[m].config = machines[m].config ]_vars

\* Every command ends, unless the Docker Engine keeps it waiting for ever:
\* waitForHealthy has a deadline, each loop is over a listing or a region list
\* that was fixed before it, and no call is retried.
Termination ==
    \A o \in Operators :
        (pc[o] \in Calls) ~> (pc[o] \in Ended \/ [](pc[o] \in Engine))

-----------------------------------------------------------------------------
(* The strengthenings that make the properties inductive.                  *)

\* Where a command can be, given its kind and what it has collected so far:
\* Destroy makes two kinds of calls and so does an image push, result.Machines
\* is filled by the ensure loop, one entry per region, and emptied by the wait
\* loop.
ControlInv ==
    \A o \in Operators :
        /\ pc[o] \in Calls /\ job[o].kind = "destroy"
              => pc[o] \in {"ListMachines", "DestroyMachine"}
        /\ pc[o] \in Calls /\ job[o].kind = "image" => pc[o] \in {"Build", "Push"}
        /\ pc[o] \in Calls /\ job[o].kind \notin {"destroy", "image"}
              => job[o].regions # << >>
        /\ pc[o] \in Calls \ {"EnsureMachine", "StartMachine", "WaitForHealthy"}
              => result[o] = << >>
        /\ pc[o] \in {"EnsureMachine", "StartMachine"}
              => Len(result[o]) < Len(job[o].regions)
        /\ pc[o] = "StartMachine" => seen[o][Region(o)] # NoId
        /\ pc[o] = "WaitForHealthy" => result[o] # << >>

\* What a running destroy loop holds: machines that were live, and, in Deploy,
\* outside the desired regions.
TodoInv ==
    \A o \in Operators : \A m \in todo[o] :
        pc[o] = "DestroyMachine" =>
            /\ machines[m].state # "absent"
            /\ ~job[o].dryRun
            /\ job[o].kind # "destroy" => machines[m].region \notin Desired(o)

\* With one operator, the address list ListIPs saw is still the truth.
AddressInv ==
    \A o \in Operators : pc[o] = "AllocateIP" /\ ~job[o].dryRun => NoIPs

\* What is pushed is what the command has built.
BuiltInv ==
    \A o \in Operators : pc[o] = "Push" /\ ~job[o].dryRun => o \in built

\* A dry run is shown no machine, so it finds none to update.
DryRunInv ==
    \A o \in Operators : pc[o] \in Calls /\ job[o].dryRun
        => seen[o] = [r \in Regions |-> NoId]

\* The regions Deploy is through with.
Processed(o) == {job[o].regions[k] : k \in 1 .. Len(result[o])}

\* Region r has a machine with the configuration o's command was given.
Serves(o, r) == \E m \in InRegion(r) : Wire(machines[m].config) = Wire(job[o].config)

\* With one operator, what Deploy knows while it works is still true: it has
\* seen every machine but those it made itself, no seen machine of a desired
\* region is gone, and a machine it has not touched is as it was listed.
Snapshot(o) ==
    (/\ pc[o] \in {"DestroyMachine", "EnsureMachine", "StartMachine"}
     /\ job[o].kind # "destroy"
     /\ ~job[o].dryRun) =>
        /\ \A r \in Regions :
              seen[o][r] = NoId /\ r \notin Processed(o) => InRegion(r) = {}
        /\ \A r \in Desired(o) : seen[o][r] # NoId => seen[o][r] \in InRegion(r)
        /\ \A r \in Desired(o) :
              /\ seen[o][r] # NoId
              /\ r \notin Processed(o)
              /\ pc[o] = "StartMachine" => r # Region(o)
              => listed[o][seen[o][r]].config = machines[seen[o][r]].config
        /\ \A r \in Processed(o) : Serves(o, r)
        /\ pc[o] = "StartMachine" => Serves(o, Region(o))

\* Converged and NoStrays, from the moment each becomes true.
Outcome(o) ==
    ~job[o].dryRun =>
        /\ pc[o] \in {"WaitForHealthy", "done"} /\ job[o].kind # "destroy" =>
              \A r \in Desired(o) : Serves(o, r)
        /\ "destroy" \notin logged[o] =>
              /\ (/\ pc[o] \in {"DestroyMachine", "EnsureMachine", "StartMachine",
                                "WaitForHealthy", "done"}
                  /\ job[o].kind # "destroy") =>
                    \A m \in Live :
                        \/ machines[m].region \in Desired(o)
                        \/ pc[o] = "DestroyMachine" /\ m \in todo[o]
              /\ pc[o] = "DestroyMachine" /\ job[o].kind = "destroy" => Live \subseteq todo[o]
              /\ pc[o] = "done" /\ job[o].kind = "destroy" => Live = {}

\* The operators who may yet create a machine in region r: they listed none
\* there and have not come to r.
Armed(r) ==
    {o \in Operators :
        /\ pc[o] \in {"DestroyMachine", "EnsureMachine", "StartMachine"}
        /\ job[o].kind # "destroy" /\ ~job[o].dryRun
        /\ r \in Desired(o) \ Processed(o)
        /\ seen[o][r] = NoId}

\* Every machine in a region has cost some operator its right to create one.
CrowdInv ==
    \A r \in Regions :
        Cardinality(InRegion(r)) + Cardinality(Armed(r)) <= Cardinality(Operators)

ConvergenceInv ==
    /\ OneMachinePerRegion
    /\ \A o \in Operators : Snapshot(o) /\ Outcome(o)

\* The conditions under which a deployment converges: nobody else is at work
\* on the app, no command line names a region twice, and no region holds two
\* machines to begin with.
SingleOperator == \A a, b \in Operators : a = b

DistinctRegions ==
    \A j \in Jobs : \A k, l \in DOMAIN j.regions : j.regions[k] = j.regions[l] => k = l

\* Every command line sets some variable, as autodeploy always does: without
\* one, `deploy` asks for the empty map and never finds it on a machine.
GivenEnvs == \A j \in Jobs : j.config.env # EmptyEnv

DistinctInventories ==
    \A f \in Inventories : \A m, n \in MachineIds :
        (/\ f[m].state \notin {"absent", "destroyed"}
         /\ f[n].state \notin {"absent", "destroyed"}
         /\ f[m].region = f[n].region) => m = n
=============================================================================
