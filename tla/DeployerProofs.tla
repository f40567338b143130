--------------------------- MODULE DeployerProofs ---------------------------
(***************************************************************************)
(* Proofs about Deployer, for any sets of operators, regions, machines and *)
(* command lines and any number of commands and faults.                    *)
(***************************************************************************)
EXTENDS Deployer, SequenceTheorems, FiniteSetTheorems, TLAPS

\* A client call leaves a number of faults.
LEMMA CallType ==
    ASSUME faults \in Nat, NEW o, NEW accepted, NEW reply, Call(o, accepted, reply)
    PROVE  faults' \in Nat
  BY DEF Call, Answer

\* The command line an operator runs is well formed: its region list has the
\* usual domain and every entry of it is a region.
LEMMA JobShape ==
    ASSUME TypeOK, NEW o \in Operators
    PROVE  /\ job[o] \in Job
           /\ job[o].regions \in Seq(Regions)
           /\ job[o].config \in Config
           /\ Len(job[o].regions) \in Nat
           /\ DOMAIN job[o].regions = 1 .. Len(job[o].regions)
           /\ \A k \in 1 .. Len(job[o].regions) : job[o].regions[k] \in Regions
  <1>1. job[o] \in Job
    BY ConstantsAssumption DEF TypeOK
  <1>2. job[o].regions \in Seq(Regions) /\ job[o].config \in Config
    BY <1>1 DEF Job
  <1>3. QED
    BY <1>1, <1>2

\* In the ensure loop the current region is a region of the command line.
LEMMA RegionInRange ==
    ASSUME TypeOK, ControlInv, NEW o \in Operators,
           pc[o] \in {"EnsureMachine", "StartMachine"}
    PROVE  /\ Len(result[o]) \in Nat
           /\ Len(result[o]) + 1 \in 1 .. Len(job[o].regions)
           /\ Region(o) \in Regions
           /\ Region(o) \in Desired(o)
           /\ seen[o][Region(o)] \in MachineIds \cup {NoId}
  <1>1. Len(result[o]) \in Nat
    BY DEF TypeOK
  <1>2. Len(result[o]) + 1 \in 1 .. Len(job[o].regions)
    BY <1>1, JobShape DEF ControlInv
  <1>3. Region(o) \in Regions /\ Region(o) \in Desired(o)
    BY <1>2, JobShape DEF Region, Desired
  <1>4. QED
    BY <1>1, <1>2, <1>3 DEF TypeOK

\* A configuration stays a configuration when it is encoded.
LEMMA WireType ==
    ASSUME NEW c \in Config
    PROVE  Wire(c) \in Config /\ Wire(Wire(c)) = Wire(c)
  BY ConstantsAssumption DEF Config, Wire

\* A machine changes its state.
LEMMA SetState ==
    ASSUME TypeOK, NEW m \in MachineIds, NEW s \in MachineStates
    PROVE  /\ WithState(m, s) \in [MachineIds -> Machine]
           /\ WithState(m, s)[m].state = s
           /\ WithState(m, s)[m].region = machines[m].region
           /\ WithState(m, s)[m].config = machines[m].config
           /\ \A n \in MachineIds : n # m => WithState(m, s)[n] = machines[n]
  <1>1. machines \in [MachineIds -> Machine]
    BY DEF TypeOK
  <1>2. QED
    BY <1>1 DEF Machine, WithState

\* A machine is given a new configuration and restarted.
LEMMA SetConfig ==
    ASSUME TypeOK, NEW m \in MachineIds, NEW s \in MachineStates, NEW c \in Config
    PROVE  /\ WithConfig(m, c, s) \in [MachineIds -> Machine]
           /\ WithConfig(m, c, s)[m].state = s
           /\ WithConfig(m, c, s)[m].region = machines[m].region
           /\ WithConfig(m, c, s)[m].config = c
           /\ \A n \in MachineIds : n # m => WithConfig(m, c, s)[n] = machines[n]
  <1>1. machines \in [MachineIds -> Machine]
    BY DEF TypeOK
  <1>2. QED
    BY <1>1 DEF Machine, WithConfig

\* Starting a command.
LEMMA BeginType ==
    ASSUME TypeOK, ControlInv, NEW o \in Operators, NEW j \in Jobs,
           NEW label \in Ended \cup Calls, Begin(o, j, label),
           label \in Calls => (IF j.kind = "destroy" THEN label = "ListMachines"
                               ELSE IF j.kind = "image" THEN label = "Build"
                               ELSE j.regions # << >>
                                    /\ label \in {"GetApp", "GetImageApp"})
    PROVE  TypeOK' /\ ControlInv'
  <1>1. TypeOK'
    <2>1. job' \in [Operators -> Jobs] /\ pc' \in [Operators -> Ended \cup Calls]
      BY DEF TypeOK, Begin, Goto
    <2>2. seen' \in [Operators -> [Regions -> MachineIds \cup {NoId}]]
      BY DEF TypeOK, Begin
    <2>3. todo' \in [Operators -> SUBSET MachineIds]
      BY DEF TypeOK, Begin
    <2>4. result' \in [Operators -> Seq(MachineIds \cup {NoId})]
      BY DEF TypeOK, Begin
    <2>5. logged' \in [Operators -> SUBSET {"destroy", "health"}]
      BY DEF TypeOK, Begin
    <2>6. commands' \in Nat
      BY DEF TypeOK, Begin
    <2>7. QED
      BY <2>1, <2>2, <2>3, <2>4, <2>5, <2>6 DEF TypeOK, Begin, platform
  <1>2. ControlInv'
    BY DEF TypeOK, ControlInv, Begin, Goto, Ended, Calls, Region
  <1>3. QED
    BY <1>1, <1>2

\* The end of an iteration of the ensure loop, whichever branch it took.
LEMMA EnsuredType ==
    ASSUME TypeOK, ControlInv, NEW o \in Operators, NEW id \in MachineIds \cup {NoId},
           pc[o] \in {"EnsureMachine", "StartMachine"}, Ensured(o, id),
           UNCHANGED <<job, seen>>
    PROVE  /\ pc' \in [Operators -> Ended \cup Calls]
           /\ result' \in [Operators -> Seq(MachineIds \cup {NoId})]
           /\ ControlInv'
  <1>1. pc' \in [Operators -> Ended \cup Calls]
    BY DEF TypeOK, Ensured, Goto, Ended, Calls
  <1>2. result' = [result EXCEPT ![o] = Append(result[o], id)]
    BY DEF Ensured
  <1>3. /\ result[o] \in Seq(MachineIds \cup {NoId})
        /\ Append(result[o], id) \in Seq(MachineIds \cup {NoId})
        /\ Append(result[o], id) # << >>
        /\ Len(Append(result[o], id)) = Len(result[o]) + 1
    <2>1. result[o] \in Seq(MachineIds \cup {NoId})
      BY DEF TypeOK
    <2>2. QED
      BY <2>1, AppendProperties
  <1>4. result' \in [Operators -> Seq(MachineIds \cup {NoId})]
    <2>1. result \in [Operators -> Seq(MachineIds \cup {NoId})]
      BY DEF TypeOK
    <2>2. QED
      BY <1>2, <1>3, <2>1
  <1>5. /\ Len(result'[o]) = Len(result[o]) + 1
        /\ result'[o] # << >>
    BY <1>2, <1>3 DEF TypeOK
  <1>6. job[o].kind # "destroy"
    BY DEF ControlInv, Calls
  <1>7. ASSUME NEW q \in Operators, q # o
        PROVE  pc'[q] = pc[q] /\ result'[q] = result[q]
    BY <1>2, <1>7 DEF TypeOK, Ensured, Goto
  <1>8. /\ pc'[o] \in {"EnsureMachine", "WaitForHealthy", "done"}
        /\ pc'[o] = "EnsureMachine" => Len(result[o]) + 1 < Len(job[o].regions)
    BY DEF TypeOK, Ensured, Goto
  <1>9. ControlInv'
    BY <1>5, <1>6, <1>7, <1>8 DEF ControlInv, Calls, Region
  <1>10. QED
    BY <1>1, <1>4, <1>9

\* The early return of Deploy keeps every operator's control state.
LEMMA AbortType ==
    ASSUME TypeOK, ControlInv, NEW o \in Operators, Abort(o), UNCHANGED <<job, seen>>
    PROVE  /\ pc' \in [Operators -> Ended \cup Calls]
           /\ result' \in [Operators -> Seq(MachineIds \cup {NoId})]
           /\ ControlInv'
  BY DEF TypeOK, ControlInv, Abort, Goto, Ended, Calls, Region

\* The branch for an existing machine ends in StartMachine or in the next
\* iteration.
LEMMA StartIfStoppedType ==
    ASSUME TypeOK, ControlInv, NEW o \in Operators, NEW told,
           pc[o] = "EnsureMachine", seen[o][Region(o)] # NoId,
           StartIfStopped(o, told), UNCHANGED <<job, seen>>
    PROVE  /\ pc' \in [Operators -> Ended \cup Calls]
           /\ result' \in [Operators -> Seq(MachineIds \cup {NoId})]
           /\ ControlInv'
  <1>1. CASE told = "stopped"
    BY <1>1 DEF TypeOK, ControlInv, StartIfStopped, Goto, Ended, Calls, Region
  <1>2. CASE told # "stopped"
    <2>1. Ensured(o, seen[o][Region(o)])
      BY <1>2 DEF StartIfStopped
    <2>2. QED
      BY <2>1, EnsuredType, RegionInRange
  <1>3. QED
    BY <1>1, <1>2

\* Every step of every operator, and of the platform, keeps the types and the
\* control state right.
LEMMA TypeStep ==
    ASSUME TypeOK, ControlInv, [Next]_vars
    PROVE  TypeOK' /\ ControlInv'
  <1>1. ASSUME NEW o \in Operators, Invoke(o)
        PROVE  TypeOK' /\ ControlInv'
    <2>1. CASE InvokeDeploy(o)
      BY <2>1, BeginType DEF InvokeDeploy, DeployEntry, Ended, Calls
    <2>2. CASE InvokeAutodeploy(o)
      BY <2>2, BeginType DEF InvokeAutodeploy, Ended, Calls
    <2>3. CASE InvokeDestroy(o)
      BY <2>3, BeginType DEF InvokeDestroy, Ended, Calls
    <2>4. CASE InvokeImagePush(o)
      BY <2>4, BeginType DEF InvokeImagePush, Ended, Calls
    <2>5. QED
      BY <1>1, <2>1, <2>2, <2>3, <2>4 DEF Invoke
  <1>2. ASSUME NEW o \in Operators,
               GetImageApp(o) \/ CreateImageApp(o) \/ Build(o) \/ Push(o)
               \/ GetApp(o) \/ CreateApp(o)
        PROVE  TypeOK' /\ ControlInv'
    <2>1. faults' \in Nat
      BY <1>2, CallType DEF TypeOK, GetImageApp, CreateImageApp, Build, Push, GetApp, CreateApp
    <2>2. PICK label \in {"Build", "Push", "CreateImageApp", "GetApp", "CreateApp",
                          "ListIPs", "pushed", "failed"} :
              /\ Goto(o, label)
              /\ job[o].kind = "image" => label \in {"Push", "pushed", "failed"}
      BY <1>2 DEF GetImageApp, CreateImageApp, Build, Push, GetApp, CreateApp, AfterImageApp,
                  AfterPush, ControlInv, Calls
    <2>3. /\ UNCHANGED <<ips, machines, job, listed, seen, todo, result, logged, commands>>
          /\ app' \in BOOLEAN
          /\ pc[o] \in {"GetImageApp", "CreateImageApp", "Build", "Push", "GetApp", "CreateApp"}
      BY <1>2 DEF TypeOK, GetImageApp, CreateImageApp, Build, Push, GetApp, CreateApp, platform
    <2>4. built' \subseteq Operators /\ published' \subseteq Images
      <3>1. CASE Build(o)
        BY <3>1 DEF TypeOK, Build
      <3>2. CASE Push(o)
        <4>1. job[o].config.image \in Images
          BY JobShape DEF Config
        <4>2. QED
          BY <3>2, <4>1 DEF TypeOK, Push
      <3>3. QED
        BY <1>2, <3>1, <3>2 DEF TypeOK, GetImageApp, CreateImageApp, GetApp, CreateApp, platform
    <2>5. TypeOK'
      BY <2>1, <2>2, <2>3, <2>4 DEF TypeOK, Goto, Ended, Calls
    <2>6. ControlInv'
      BY <2>2, <2>3 DEF TypeOK, ControlInv, Goto, Ended, Calls, Region
    <2>7. QED
      BY <2>5, <2>6
  <1>3. ASSUME NEW o \in Operators, ListIPs(o) \/ AllocateIP(o)
        PROVE  TypeOK' /\ ControlInv'
    <2>1. faults' \in Nat
      BY <1>3, CallType DEF TypeOK, ListIPs, AllocateIP
    <2>2. PICK label \in {"AllocateIP", "ListMachines", "failed"} : Goto(o, label)
      BY <1>3 DEF ListIPs, AllocateIP
    <2>3. /\ UNCHANGED <<app, machines, built, published, job, listed, seen, todo, result, logged, commands>>
          /\ ips' \in [{"v4", "v6"} -> Nat]
          /\ pc[o] \in {"ListIPs", "AllocateIP"}
      BY <1>3 DEF TypeOK, ListIPs, AllocateIP, platform
    <2>4. TypeOK'
      BY <2>1, <2>2, <2>3 DEF TypeOK, Goto, Ended, Calls
    <2>5. ControlInv'
      BY <2>2, <2>3 DEF TypeOK, ControlInv, Goto, Ended, Calls, Region
    <2>6. QED
      BY <2>4, <2>5
  <1>4. ASSUME NEW o \in Operators, ListMachines(o)
        PROVE  TypeOK' /\ ControlInv'
    <2>1. faults' \in Nat
      BY <1>4, CallType DEF TypeOK, ListMachines
    <2>2. /\ UNCHANGED <<app, ips, machines, built, published, job, result, logged, commands>>
          /\ pc[o] = "ListMachines"
      BY <1>4 DEF ListMachines, platform
    <2>3. PICK label \in {"failed", "done", "EnsureMachine", "DestroyMachine"} :
              /\ Goto(o, label)
              /\ label = "done" => job[o].kind = "destroy"
              /\ label = "EnsureMachine" => job[o].kind # "destroy"
      BY <1>4 DEF ListMachines, AfterDestroys
    <2>4. /\ listed' \in [Operators -> [MachineIds -> Machine]]
          /\ seen' \in [Operators -> [Regions -> MachineIds \cup {NoId}]]
          /\ todo' \in [Operators -> SUBSET MachineIds]
      <3>1. /\ machines \in [MachineIds -> Machine]
            /\ listed \in [Operators -> [MachineIds -> Machine]]
            /\ seen \in [Operators -> [Regions -> MachineIds \cup {NoId}]]
            /\ todo \in [Operators -> SUBSET MachineIds]
        BY DEF TypeOK
      <3>2. CASE UNCHANGED <<listed, seen, todo>>
        BY <3>1, <3>2
      <3>3. ASSUME NEW m \in [Regions -> MachineIds \cup {NoId}],
                   seen' = [seen EXCEPT ![o] = m],
                   listed' = [listed EXCEPT ![o] = machines],
                   todo' = [todo EXCEPT ![o] = ToDestroy(o, m)]
            PROVE  /\ listed' \in [Operators -> [MachineIds -> Machine]]
                   /\ seen' \in [Operators -> [Regions -> MachineIds \cup {NoId}]]
                   /\ todo' \in [Operators -> SUBSET MachineIds]
        <4>1. ToDestroy(o, m) \in SUBSET MachineIds
          BY DEF ToDestroy, Live
        <4>2. QED
          BY <3>1, <3>3, <4>1
      <3>4. QED
        BY <1>4, <3>2, <3>3 DEF ListMachines
    <2>5. \A q \in Operators : q # o => seen'[q] = seen[q]
      BY <1>4 DEF TypeOK, ListMachines
    <2>6. TypeOK'
      BY <2>1, <2>2, <2>3, <2>4 DEF TypeOK, Goto, Ended, Calls
    <2>7. ControlInv'
      <3>1. job[o].kind # "destroy" => Len(result[o]) < Len(job[o].regions)
        BY <2>2, JobShape DEF ControlInv, Calls
      <3>2. QED
        BY <2>2, <2>3, <2>5, <3>1 DEF TypeOK, ControlInv, Goto, Ended, Calls, Region
    <2>8. QED
      BY <2>6, <2>7
  <1>5. ASSUME NEW o \in Operators, DestroyMachine(o)
        PROVE  TypeOK' /\ ControlInv'
    <2>1. faults' \in Nat
      BY <1>5, CallType DEF TypeOK, DestroyMachine
    <2>2. /\ UNCHANGED <<app, ips, built, published, job, listed, seen, result, commands>>
          /\ pc[o] = "DestroyMachine"
      BY <1>5 DEF DestroyMachine
    <2>3. PICK label \in {"done", "EnsureMachine", "DestroyMachine"} :
              /\ Goto(o, label)
              /\ label = "done" => job[o].kind = "destroy"
              /\ label = "EnsureMachine" => job[o].kind # "destroy"
      BY <1>5 DEF DestroyMachine, AfterDestroys
    <2>4. machines' \in [MachineIds -> Machine]
      BY <1>5, SetState DEF TypeOK, DestroyMachine, MachineStates
    <2>5. /\ todo' \in [Operators -> SUBSET MachineIds]
          /\ logged' \in [Operators -> SUBSET {"destroy", "health"}]
      BY <1>5 DEF TypeOK, DestroyMachine
    <2>6. TypeOK'
      BY <2>1, <2>2, <2>3, <2>4, <2>5 DEF TypeOK, Goto, Ended, Calls
    <2>7. ControlInv'
      <3>1. job[o].kind # "destroy" => Len(result[o]) < Len(job[o].regions)
        BY <2>2, JobShape DEF ControlInv, Calls
      <3>2. QED
        BY <2>2, <2>3, <3>1 DEF TypeOK, ControlInv, Goto, Ended, Calls, Region
    <2>8. QED
      BY <2>6, <2>7
  <1>6. ASSUME NEW o \in Operators, CreateMachine(o)
        PROVE  TypeOK' /\ ControlInv'
    <2>1. faults' \in Nat
      BY <1>6, CallType DEF TypeOK, CreateMachine
    <2>2. /\ UNCHANGED <<app, ips, built, published, job, listed, seen, todo, logged, commands>>
          /\ pc[o] = "EnsureMachine"
      BY <1>6 DEF CreateMachine
    <2>3. machines' \in [MachineIds -> Machine]
      <3>1. [region |-> Region(o), state |-> "created", config |-> Wire(job[o].config)]
                \in Machine
        BY <2>2, RegionInRange, JobShape, WireType DEF Machine, MachineStates
      <3>2. QED
        BY <1>6, <3>1 DEF TypeOK, CreateMachine
    <2>4. Abort(o) \/ \E id \in MachineIds \cup {NoId} : Ensured(o, id)
      BY <1>6 DEF CreateMachine, Absent
    <2>5. /\ pc' \in [Operators -> Ended \cup Calls]
          /\ result' \in [Operators -> Seq(MachineIds \cup {NoId})]
          /\ ControlInv'
      BY <2>2, <2>4, EnsuredType, AbortType
    <2>6. QED
      BY <2>1, <2>2, <2>3, <2>5 DEF TypeOK
  <1>7. ASSUME NEW o \in Operators, UpdateMachine(o)
        PROVE  TypeOK' /\ ControlInv'
    <2>1. faults' \in Nat
      BY <1>7, CallType DEF TypeOK, UpdateMachine
    <2>2. /\ UNCHANGED <<app, ips, built, published, job, listed, seen, todo, logged, commands>>
          /\ pc[o] = "EnsureMachine"
          /\ seen[o][Region(o)] # NoId
      BY <1>7 DEF UpdateMachine
    <2>3. machines' \in [MachineIds -> Machine]
      <3>1. Wire(job[o].config) \in Config
        BY JobShape, WireType
      <3>2. QED
        BY <1>7, <2>2, <3>1, RegionInRange, SetConfig DEF TypeOK, UpdateMachine, MachineStates
    <2>4. Abort(o) \/ \E told : StartIfStopped(o, told)
      BY <1>7 DEF UpdateMachine
    <2>5. /\ pc' \in [Operators -> Ended \cup Calls]
          /\ result' \in [Operators -> Seq(MachineIds \cup {NoId})]
          /\ ControlInv'
      BY <2>2, <2>4, StartIfStoppedType, AbortType
    <2>6. QED
      BY <2>1, <2>2, <2>3, <2>5 DEF TypeOK
  <1>8. ASSUME NEW o \in Operators, KeepMachine(o)
        PROVE  TypeOK' /\ ControlInv'
    <2>1. /\ UNCHANGED <<app, ips, machines, built, published, job, listed, seen, todo, logged, faults, commands>>
          /\ pc[o] = "EnsureMachine"
          /\ seen[o][Region(o)] # NoId
      BY <1>8 DEF KeepMachine, platform
    <2>2. StartIfStopped(o, listed[o][seen[o][Region(o)]].state)
      BY <1>8 DEF KeepMachine
    <2>3. QED
      BY <2>1, <2>2, StartIfStoppedType DEF TypeOK
  <1>9. ASSUME NEW o \in Operators, StartMachine(o)
        PROVE  TypeOK' /\ ControlInv'
    <2>1. faults' \in Nat
      BY <1>9, CallType DEF TypeOK, StartMachine
    <2>2. /\ UNCHANGED <<app, ips, built, published, job, listed, seen, todo, logged, commands>>
          /\ pc[o] = "StartMachine"
      BY <1>9 DEF StartMachine
    <2>3. machines' \in [MachineIds -> Machine]
      <3>1. seen[o][Region(o)] \in MachineIds
        BY <2>2, RegionInRange DEF ControlInv
      <3>2. QED
        BY <1>9, <3>1, SetState DEF TypeOK, StartMachine, MachineStates
    <2>4. Abort(o) \/ Ensured(o, seen[o][Region(o)])
      BY <1>9 DEF StartMachine
    <2>5. /\ pc' \in [Operators -> Ended \cup Calls]
          /\ result' \in [Operators -> Seq(MachineIds \cup {NoId})]
          /\ ControlInv'
      BY <2>2, <2>4, EnsuredType, AbortType, RegionInRange
    <2>6. QED
      BY <2>1, <2>2, <2>3, <2>5 DEF TypeOK
  <1>10. ASSUME NEW o \in Operators, WaitForHealthy(o)
         PROVE  TypeOK' /\ ControlInv'
    <2>1. /\ UNCHANGED <<app, ips, machines, built, published, job, listed, seen, todo, faults, commands>>
          /\ pc[o] = "WaitForHealthy"
          /\ result' = [result EXCEPT ![o] = Tail(result[o])]
          /\ pc' = [pc EXCEPT ![o] = IF Len(result[o]) = 1 THEN "done" ELSE "WaitForHealthy"]
      BY <1>10 DEF WaitForHealthy, Goto, platform
    <2>2. result[o] \in Seq(MachineIds \cup {NoId}) /\ result[o] # << >>
      BY <2>1 DEF TypeOK, ControlInv
    <2>3. /\ Tail(result[o]) \in Seq(MachineIds \cup {NoId})
          /\ Len(result[o]) # 1 => Tail(result[o]) # << >>
      <3>1. /\ Tail(result[o]) \in Seq(MachineIds \cup {NoId})
            /\ Len(Tail(result[o])) = Len(result[o]) - 1
        BY <2>2, HeadTailProperties
      <3>2. Len(result[o]) \in Nat \ {0}
        BY <2>2
      <3>3. Len(result[o]) # 1 => Len(Tail(result[o])) # 0
        BY <3>1, <3>2
      <3>4. Len(<< >>) = 0
        OBVIOUS
      <3>5. ASSUME Len(result[o]) # 1, Tail(result[o]) = << >> PROVE FALSE
        <4>1. Len(Tail(result[o])) = 0
          BY <3>4, <3>5, Zenon
        <4>2. QED
          BY <3>3, <3>5, <4>1
      <3>6. QED
        BY <3>1, <3>5
    <2>4. logged' \in [Operators -> SUBSET {"destroy", "health"}]
      BY <1>10 DEF TypeOK, WaitForHealthy
    <2>5. TypeOK'
      BY <2>1, <2>3, <2>4 DEF TypeOK, Ended, Calls
    <2>6. ControlInv'
      BY <2>1, <2>3 DEF TypeOK, ControlInv, Ended, Calls, Region
    <2>7. QED
      BY <2>5, <2>6
  <1>11. ASSUME NEW o \in Operators, Crash(o)
         PROVE  TypeOK' /\ ControlInv'
    BY <1>11 DEF TypeOK, ControlInv, Crash, Goto, Ended, Calls, Region, platform
  <1>12. ASSUME NEW m \in MachineIds, MachineStep(m)
         PROVE  TypeOK' /\ ControlInv'
    <2>1. UNCHANGED <<app, ips, built, published, pc, job, listed, seen, todo, result, logged, faults, commands>>
      BY <1>12 DEF MachineStep, control
    <2>2. \E s \in {"started", "stopped", "error"} :
              machines' = WithState(m, s)
      BY <1>12 DEF MachineStep
    <2>3. machines' \in [MachineIds -> Machine]
      BY <2>2, SetState DEF TypeOK, MachineStates
    <2>4. QED
      BY <2>1, <2>3 DEF TypeOK, ControlInv, Region
  <1>13. CASE UNCHANGED vars
    BY <1>13 DEF TypeOK, ControlInv, vars, platform, control, Region
  <1>14. QED
    BY <1>1, <1>2, <1>3, <1>4, <1>5, <1>6, <1>7, <1>8, <1>9, <1>10, <1>11, <1>12, <1>13
    DEF Next, Step

\* The initial state: no command has run.
LEMMA TypeInit == Init => TypeOK /\ ControlInv
  <1>1. Jobs # {} => (CHOOSE j \in Jobs : TRUE) \in Jobs
    OBVIOUS
  <1>2. QED
    BY <1>1, ConstantsAssumption DEF Init, TypeOK, ControlInv, Ended, Calls

\* Type correctness of every reachable state, and with it that the ensure loop
\* never runs past the region list and the wait loop never waits for nothing.
THEOREM TypeCorrect == Spec => [](TypeOK /\ ControlInv)
  <1>1. TypeOK /\ ControlInv /\ [Next]_vars => (TypeOK /\ ControlInv)'
    BY TypeStep
  <1>2. QED
    BY <1>1, TypeInit, PTL DEF Spec

-----------------------------------------------------------------------------
(* Destroying only what is not desired, and touching nothing in a dry run. *)

\* How a step of an operator may change the machines: it makes a new one in
\* its current region, or updates, starts or destroys one.  A dry run, and any
\* call but these four, changes none.
LEMMA FleetStep ==
    ASSUME TypeOK, ControlInv, NEW o \in Operators, Invoke(o) \/ Step(o) \/ Crash(o)
    PROVE  \/ machines' = machines
           \/ /\ ~job[o].dryRun /\ pc[o] = "EnsureMachine" /\ seen[o][Region(o)] = NoId
              /\ \E m \in Absent :
                    machines' = [machines EXCEPT ![m] =
                        [region |-> Region(o), state |-> "created",
                         config |-> Wire(job[o].config)]]
           \/ /\ ~job[o].dryRun /\ pc[o] = "EnsureMachine" /\ seen[o][Region(o)] \in Live
              /\ \E told \in {"created", "started", "stopped"} :
                    machines' = WithConfig(seen[o][Region(o)], Wire(job[o].config), told)
           \/ /\ ~job[o].dryRun /\ pc[o] = "StartMachine" /\ seen[o][Region(o)] \in Live
              /\ machines' = WithState(seen[o][Region(o)], "started")
           \/ /\ ~job[o].dryRun /\ pc[o] = "DestroyMachine"
              /\ \E m \in todo[o] : m \in Live /\ machines' = WithState(m, "destroyed")
  <1>1. CASE Invoke(o) \/ Crash(o)
    BY <1>1 DEF Invoke, InvokeDeploy, InvokeAutodeploy, InvokeDestroy, InvokeImagePush, Begin, Crash, platform
  <1>2. CASE \/ GetImageApp(o) \/ CreateImageApp(o) \/ Build(o) \/ Push(o) \/ GetApp(o)
             \/ CreateApp(o) \/ ListIPs(o) \/ AllocateIP(o) \/ ListMachines(o)
             \/ KeepMachine(o) \/ WaitForHealthy(o)
    BY <1>2 DEF GetImageApp, CreateImageApp, Build, Push, GetApp, CreateApp, ListIPs,
                AllocateIP, ListMachines, KeepMachine, WaitForHealthy, platform
  <1>4. CASE CreateMachine(o)
    <2>1. PICK reply \in Replies :
              /\ Call(o, app /\ Absent # {}, reply)
              /\ IF TakesEffect(o, reply)
                 THEN \E m \in Absent :
                        machines' = [machines EXCEPT ![m] =
                            [region |-> Region(o), state |-> "created",
                             config |-> Wire(job[o].config)]]
                 ELSE machines' = machines
      BY <1>4 DEF CreateMachine
    <2>2. QED
      BY <1>4, <2>1 DEF CreateMachine, TakesEffect
  <1>5. CASE UpdateMachine(o)
    <2>1. PICK reply \in Replies, told \in {"created", "started", "stopped"} :
              /\ Call(o, seen[o][Region(o)] \in Live, reply)
              /\ machines' = IF TakesEffect(o, reply)
                             THEN WithConfig(seen[o][Region(o)], Wire(job[o].config), told)
                             ELSE machines
      BY <1>5 DEF UpdateMachine
    <2>2. TakesEffect(o, reply) => seen[o][Region(o)] \in Live /\ ~job[o].dryRun
      BY <2>1 DEF Call, Answer, TakesEffect
    <2>3. QED
      BY <1>5, <2>1, <2>2 DEF UpdateMachine
  <1>6. CASE StartMachine(o)
    <2>1. PICK reply \in Replies :
              /\ Call(o, seen[o][Region(o)] \in Live, reply)
              /\ machines' = IF TakesEffect(o, reply)
                             THEN WithState(seen[o][Region(o)], "started") ELSE machines
      BY <1>6 DEF StartMachine
    <2>2. TakesEffect(o, reply) => seen[o][Region(o)] \in Live /\ ~job[o].dryRun
      BY <2>1 DEF Call, Answer, TakesEffect
    <2>3. QED
      BY <1>6, <2>1, <2>2 DEF StartMachine
  <1>7. CASE DestroyMachine(o)
    <2>1. PICK m \in todo[o], reply \in Replies :
              /\ Call(o, m \in Live, reply)
              /\ machines' = IF TakesEffect(o, reply)
                             THEN WithState(m, "destroyed") ELSE machines
      BY <1>7 DEF DestroyMachine
    <2>2. TakesEffect(o, reply) => m \in Live /\ ~job[o].dryRun
      BY <2>1 DEF Call, Answer, TakesEffect
    <2>3. QED
      BY <1>7, <2>1, <2>2 DEF DestroyMachine
  <1>8. QED
    BY <1>1, <1>2, <1>4, <1>5, <1>6, <1>7 DEF Step

\* A machine that exists stays in its region and its id is never handed out
\* again.
LEMMA FleetKept ==
    ASSUME TypeOK, ControlInv, [Next]_vars, NEW m \in MachineIds,
           machines[m].state # "absent"
    PROVE  machines'[m].state # "absent" /\ machines'[m].region = machines[m].region
  <1>1. ASSUME NEW o \in Operators, Invoke(o) \/ Step(o) \/ Crash(o)
        PROVE  machines'[m].state # "absent" /\ machines'[m].region = machines[m].region
    <2>1. CASE machines' = machines
      BY <2>1
    <2>2. ASSUME NEW n \in Absent, NEW v, machines' = [machines EXCEPT ![n] = v]
          PROVE  machines'[m].state # "absent" /\ machines'[m].region = machines[m].region
      BY <2>2 DEF TypeOK, Absent
    <2>3. ASSUME NEW n \in Live, NEW told \in {"created", "started", "stopped"},
                 machines' = WithConfig(n, Wire(job[o].config), told)
          PROVE  machines'[m].state # "absent" /\ machines'[m].region = machines[m].region
      <3>1. Wire(job[o].config) \in Config
        BY JobShape, WireType
      <3>2. QED
        BY <2>3, <3>1, SetConfig DEF Live, MachineStates
    <2>4. ASSUME NEW n \in Live, NEW s \in {"started", "destroyed"},
                 machines' = WithState(n, s)
          PROVE  machines'[m].state # "absent" /\ machines'[m].region = machines[m].region
      BY <2>4, SetState DEF Live, MachineStates
    <2>5. QED
      BY <1>1, FleetStep, <2>1, <2>2, <2>3, <2>4
  <1>2. ASSUME NEW n \in MachineIds, MachineStep(n)
        PROVE  machines'[m].state # "absent" /\ machines'[m].region = machines[m].region
    <2>1. PICK s \in {"started", "stopped", "error"} : machines' = WithState(n, s)
      BY <1>2 DEF MachineStep
    <2>2. QED
      BY <2>1, SetState DEF MachineStates
  <1>3. CASE UNCHANGED vars
    BY <1>3 DEF vars, platform
  <1>4. QED
    BY <1>1, <1>2, <1>3 DEF Next

\* The set of machines a command goes through when it destroys is fixed by its
\* listing, and what it may contain stays true whatever happens meanwhile.
LEMMA TodoStep ==
    ASSUME TypeOK, ControlInv, TodoInv, [Next]_vars
    PROVE  TodoInv'
  <1> SUFFICES ASSUME NEW q \in Operators, NEW m \in todo'[q], pc'[q] = "DestroyMachine"
               PROVE  /\ machines'[m].state # "absent"
                      /\ ~job'[q].dryRun
                      /\ job'[q].kind # "destroy" => machines'[m].region \notin Desired(q)'
    BY DEF TodoInv
  <1>1. todo'[q] \subseteq MachineIds
    BY TypeStep DEF TypeOK
  <1>2. CASE /\ pc[q] = "DestroyMachine" /\ m \in todo[q] /\ job'[q] = job[q]
    BY <1>1, <1>2, FleetKept DEF TodoInv, Desired
  <1>3. CASE ListMachines(q)
    <2>1. /\ machines' = machines /\ job' = job
          /\ pc' # [pc EXCEPT ![q] = "failed"]
          /\ pc' # [pc EXCEPT ![q] = AfterDestroys(q)]
      BY <1>3 DEF ListMachines, TypeOK, AfterDestroys, platform
    <2>2. ~job[q].dryRun
      BY <1>3, <2>1 DEF ListMachines, Goto
    <2>3. PICK f \in [Regions -> MachineIds \cup {NoId}] :
              ByRegion(f) /\ todo' = [todo EXCEPT ![q] = ToDestroy(q, f)]
      BY <1>3, <2>1 DEF ListMachines, Goto
    <2>4. m \in ToDestroy(q, f)
      BY <2>3 DEF TypeOK
    <2>5. m \in Live /\ (job[q].kind # "destroy" => machines[m].region \notin Desired(q))
      <3>1. CASE job[q].kind = "destroy"
        BY <2>4, <3>1 DEF ToDestroy
      <3>2. CASE job[q].kind # "destroy"
        <4>1. PICK r \in Regions \ Desired(q) : m = f[r] /\ f[r] # NoId
          BY <2>4, <3>2 DEF ToDestroy
        <4>2. m \in InRegion(r)
          BY <4>1, <2>3 DEF ByRegion
        <4>3. QED
          BY <4>1, <4>2 DEF InRegion
      <3>3. QED
        BY <3>1, <3>2
    <2>6. QED
      BY <2>1, <2>2, <2>5 DEF Live, Desired
  <1>4. ASSUME NEW o \in Operators, Invoke(o) \/ Step(o) \/ Crash(o), ~ListMachines(o)
        PROVE  pc[q] = "DestroyMachine" /\ m \in todo[q] /\ job'[q] = job[q]
    <2>1. CASE Invoke(o)
      <3>1. PICK j \in Jobs, label \in {"failed", "GetApp", "GetImageApp", "ListMachines", "Build"} :
                Begin(o, j, label)
        BY <2>1 DEF Invoke, InvokeDeploy, InvokeAutodeploy, InvokeDestroy, InvokeImagePush, DeployEntry
      <3>2. q # o
        BY <3>1 DEF Begin, Goto, TypeOK
      <3>3. QED
        BY <3>1, <3>2 DEF Begin, Goto, TypeOK
    <2>2. CASE DestroyMachine(o)
      BY <2>2 DEF DestroyMachine, Goto, TypeOK
    <2>3. CASE Crash(o)
      BY <2>3 DEF Crash, Goto, TypeOK
    <2>4. CASE \/ GetImageApp(o) \/ CreateImageApp(o) \/ Build(o) \/ Push(o) \/ GetApp(o)
               \/ CreateApp(o) \/ ListIPs(o) \/ AllocateIP(o)
      BY <2>4 DEF GetImageApp, CreateImageApp, Build, Push, GetApp, CreateApp, ListIPs,
                  AllocateIP, AfterImageApp, AfterPush, Goto, TypeOK
    <2>5. CASE \/ CreateMachine(o) \/ UpdateMachine(o) \/ KeepMachine(o) \/ StartMachine(o)
      <3>1. UNCHANGED <<job, todo>>
        BY <2>5 DEF CreateMachine, UpdateMachine, KeepMachine, StartMachine
      <3>2. \E label \in {"EnsureMachine", "StartMachine", "WaitForHealthy", "done", "failed"} :
                Goto(o, label)
        BY <2>5 DEF CreateMachine, UpdateMachine, KeepMachine, StartMachine,
                    StartIfStopped, Ensured, Abort
      <3>3. QED
        BY <3>1, <3>2 DEF Goto, TypeOK
    <2>6. CASE WaitForHealthy(o)
      BY <2>6 DEF WaitForHealthy, Goto, TypeOK
    <2>7. QED
      BY <1>4, <2>1, <2>2, <2>3, <2>4, <2>5, <2>6 DEF Step
  <1>5. ASSUME NEW o \in Operators, ListMachines(o), o # q
        PROVE  pc[q] = "DestroyMachine" /\ m \in todo[q] /\ job'[q] = job[q]
    BY <1>5 DEF ListMachines, Goto, TypeOK
  <1>6. ASSUME NEW n \in MachineIds, MachineStep(n)
        PROVE  pc[q] = "DestroyMachine" /\ m \in todo[q] /\ job'[q] = job[q]
    BY <1>6 DEF MachineStep, control
  <1>7. CASE UNCHANGED vars
    BY <1>2, <1>7 DEF vars, control
  <1>8. QED
    BY <1>2, <1>3, <1>4, <1>5, <1>6, <1>7 DEF Next

\* One step destroys a machine only in the way KeepsDesired allows.
LEMMA DestroyStep ==
    ASSUME TypeOK, ControlInv, TodoInv, [Next]_vars,
           NEW m \in Live, machines'[m].state = "destroyed"
    PROVE  \E o \in Operators :
               /\ pc[o] = "DestroyMachine"
               /\ ~job[o].dryRun
               /\ job[o].kind # "destroy" => machines[m].region \notin Desired(o)
  <1>1. m \in MachineIds /\ machines[m].state # "destroyed" /\ machines'[m] # machines[m]
    BY DEF Live
  <1>2. ASSUME NEW n \in MachineIds, MachineStep(n)
        PROVE  FALSE
    <2>1. PICK s \in {"started", "stopped", "error"} : machines' = WithState(n, s)
      BY <1>2 DEF MachineStep
    <2>2. QED
      BY <2>1, <1>1, SetState DEF MachineStates
  <1>3. PICK o \in Operators : Invoke(o) \/ Step(o) \/ Crash(o)
    BY <1>1, <1>2 DEF Next, vars, platform
  <1>4. ASSUME NEW n \in Absent, NEW v, machines' = [machines EXCEPT ![n] = v]
        PROVE  FALSE
    BY <1>1, <1>4 DEF TypeOK, Absent, Live
  <1>5. ASSUME NEW n \in Live, NEW told \in {"created", "started", "stopped"},
               machines' = WithConfig(n, Wire(job[o].config), told)
        PROVE  FALSE
    <2>1. Wire(job[o].config) \in Config
      BY JobShape, WireType
    <2>2. n \in MachineIds /\ told \in MachineStates
      BY DEF Live, MachineStates
    <2>3. machines'[n].state = told /\ (m # n => machines'[m] = machines[m])
      BY <1>1, <1>5, <2>1, <2>2, SetConfig
    <2>4. QED
      BY <1>1, <2>3
  <1>6. ASSUME NEW n \in Live, machines' = WithState(n, "started")
        PROVE  FALSE
    BY <1>1, <1>6, SetState DEF Live, MachineStates
  <1>7. /\ ~job[o].dryRun /\ pc[o] = "DestroyMachine"
        /\ \E n \in todo[o] : n \in Live /\ machines' = WithState(n, "destroyed")
    BY <1>1, <1>3, <1>4, <1>5, <1>6, FleetStep
  <1>8. m \in todo[o]
    BY <1>1, <1>7, SetState DEF Live, MachineStates
  <1>9. QED
    BY <1>7, <1>8 DEF TodoInv

\* For any number of overlapping commands: no machine is destroyed but by a
\* Destroy, or by a Deploy that was not given its region, and never by a dry
\* run.
THEOREM DesiredKept == Spec => KeepsDesired
  <1> DEFINE Kept ==
        \A m \in Live : machines'[m].state = "destroyed" =>
            \E o \in Operators :
                /\ pc[o] = "DestroyMachine"
                /\ ~job[o].dryRun
                /\ job[o].kind # "destroy" => machines[m].region \notin Desired(o)
  <1>1. Init => TodoInv
    BY DEF Init, TodoInv
  <1>2. TypeOK /\ ControlInv /\ TodoInv /\ [Next]_vars => TodoInv'
    BY TodoStep
  <1>3. TypeOK /\ ControlInv /\ TodoInv /\ [Next]_vars => [Kept]_vars
    BY DestroyStep
  <1>4. QED
    BY <1>1, <1>2, <1>3, TypeCorrect, PTL DEF Spec, KeepsDesired

-----------------------------------------------------------------------------
(* Dry runs and addresses.                                                 *)

\* No real command is running: the step leaves the platform as it is, but for
\* machines that boot, stop or break by themselves.
LEMMA QuietStep ==
    ASSUME TypeOK, ControlInv, [Next]_vars,
           \A o \in Operators : ~(pc[o] \in Calls /\ ~job[o].dryRun)
    PROVE  /\ app' = app /\ ips' = ips /\ published' = published /\ Live' = Live
           /\ \A m \in Live : machines'[m].config = machines[m].config
  <1>1. ASSUME NEW o \in Operators, Invoke(o) \/ Step(o) \/ Crash(o)
        PROVE  app' = app /\ ips' = ips /\ published' = published /\ machines' = machines
    <2>1. machines' = machines
      BY <1>1, FleetStep DEF Calls
    <2>2. CASE Invoke(o) \/ Crash(o)
      BY <2>1, <2>2 DEF Invoke, InvokeDeploy, InvokeAutodeploy, InvokeDestroy, InvokeImagePush, Begin, Crash, platform
    <2>3. CASE CreateImageApp(o) \/ Push(o) \/ CreateApp(o) \/ AllocateIP(o)
      <3>1. pc[o] \in Calls
        BY <2>3 DEF CreateImageApp, Push, CreateApp, AllocateIP, Calls
      <3>2. \A reply : ~TakesEffect(o, reply)
        BY <3>1 DEF TakesEffect
      <3>3. QED
        BY <2>1, <2>3, <3>2 DEF TypeOK, CreateImageApp, Push, CreateApp, AllocateIP
    <2>4. CASE \/ GetImageApp(o) \/ Build(o) \/ GetApp(o) \/ ListIPs(o)
               \/ ListMachines(o) \/ DestroyMachine(o) \/ CreateMachine(o)
               \/ UpdateMachine(o) \/ KeepMachine(o) \/ StartMachine(o) \/ WaitForHealthy(o)
      BY <2>1, <2>4 DEF GetImageApp, Build, GetApp, ListIPs, ListMachines,
            DestroyMachine, CreateMachine, UpdateMachine, KeepMachine, StartMachine,
            WaitForHealthy, platform
    <2>5. QED
      BY <1>1, <2>2, <2>3, <2>4 DEF Step, platform
  <1>2. ASSUME NEW n \in MachineIds, MachineStep(n)
        PROVE  /\ app' = app /\ ips' = ips /\ published' = published /\ Live' = Live
               /\ \A m \in Live : machines'[m].config = machines[m].config
    <2>1. PICK s \in {"started", "stopped", "error"} : machines' = WithState(n, s)
      BY <1>2 DEF MachineStep
    <2>2. n \in Live
      BY <1>2 DEF MachineStep, Live
    <2>3. /\ machines'[n].state = s
          /\ machines'[n].config = machines[n].config
          /\ \A m \in MachineIds : m # n => machines'[m] = machines[m]
      BY <2>1, SetState DEF MachineStates
    <2>4. Live' = Live
      BY <2>2, <2>3 DEF Live
    <2>5. QED
      BY <1>2, <2>3, <2>4 DEF MachineStep, Live
  <1>3. CASE UNCHANGED vars
    BY <1>3 DEF vars, platform, Live
  <1>4. QED
    BY <1>1, <1>2, <1>3 DEF Next, Live

\* Any number of dry runs, alone or beside one another, change nothing.
THEOREM DryRunsArePure == Spec => DryRunPure
  <1> DEFINE Pure ==
        \/ \E o \in Operators : pc[o] \in Calls /\ ~job[o].dryRun
        \/ /\ app' = app /\ ips' = ips /\ published' = published /\ Live' = Live
           /\ \A m \in Live : machines'[m].config = machines[m].config
  <1>1. TypeOK /\ ControlInv /\ [Next]_vars => [Pure]_vars
    BY QuietStep
  <1>2. QED
    BY <1>1, TypeCorrect, PTL DEF Spec, DryRunPure

\* With one operator at work the answer of ListIPs is still right when
\* AllocateIP is called, and no other call changes the addresses.
LEMMA AddressStep ==
    ASSUME SingleOperator, TypeOK, AddressInv, [Next]_vars
    PROVE  AddressInv' /\ (ips' # ips => NoIPs)
  <1>1. ASSUME NEW o \in Operators, ListIPs(o)
        PROVE  AddressInv' /\ ips' = ips
    BY <1>1 DEF SingleOperator, TypeOK, AddressInv, ListIPs, Goto, NoIPs, platform
  <1>2. ASSUME NEW o \in Operators, AllocateIP(o)
        PROVE  AddressInv' /\ (ips' # ips => NoIPs)
    <2>1. pc'[o] # "AllocateIP"
      BY <1>2 DEF TypeOK, AllocateIP, Goto
    <2>2. AddressInv'
      BY <2>1 DEF SingleOperator, AddressInv
    <2>3. ips' # ips => ~job[o].dryRun
      BY <1>2 DEF AllocateIP, TakesEffect
    <2>4. QED
      BY <1>2, <2>2, <2>3 DEF AllocateIP, AddressInv
  <1>3. ASSUME NEW o \in Operators,
               Invoke(o) \/ Step(o) \/ Crash(o), ~ListIPs(o), ~AllocateIP(o)
        PROVE  AddressInv' /\ ips' = ips
    <2>1. ips' = ips /\ pc'[o] # "AllocateIP"
      <3>1. CASE Invoke(o) \/ Crash(o)
        BY <3>1 DEF Invoke, InvokeDeploy, InvokeAutodeploy, InvokeDestroy, InvokeImagePush,
                    DeployEntry, Begin,
                    Crash, Goto, TypeOK, platform
      <3>2. CASE GetImageApp(o) \/ CreateImageApp(o) \/ Build(o) \/ Push(o) \/ GetApp(o) \/ CreateApp(o)
        BY <3>2 DEF GetImageApp, CreateImageApp, Build, Push, GetApp, CreateApp, AfterImageApp,
                    AfterPush, Goto, TypeOK, platform
      <3>3. CASE ListMachines(o) \/ DestroyMachine(o)
        BY <3>3 DEF ListMachines, DestroyMachine, AfterDestroys, Goto, TypeOK, platform
      <3>4. CASE CreateMachine(o) \/ UpdateMachine(o) \/ KeepMachine(o) \/ StartMachine(o)
        <4>1. ips' = ips
          BY <3>4 DEF CreateMachine, UpdateMachine, KeepMachine, StartMachine, platform
        <4>2. \E label \in {"EnsureMachine", "StartMachine", "WaitForHealthy", "done", "failed"} :
                Goto(o, label)
          BY <3>4 DEF CreateMachine, UpdateMachine, KeepMachine, StartMachine,
                      StartIfStopped, Ensured, Abort
        <4>3. QED
          BY <4>1, <4>2 DEF Goto, TypeOK
      <3>5. CASE WaitForHealthy(o)
        BY <3>5 DEF WaitForHealthy, Goto, TypeOK, platform
      <3>6. QED
        BY <1>3, <3>1, <3>2, <3>3, <3>4, <3>5 DEF Step
    <2>2. QED
      BY <2>1 DEF SingleOperator, AddressInv
  <1>4. ASSUME NEW m \in MachineIds, MachineStep(m)
        PROVE  AddressInv' /\ ips' = ips
    BY <1>4 DEF MachineStep, AddressInv, NoIPs, control
  <1>5. CASE UNCHANGED vars
    BY <1>5 DEF vars, platform, control, AddressInv, NoIPs
  <1>6. QED
    BY <1>1, <1>2, <1>3, <1>4, <1>5 DEF Next

\* One operator never pays for a second address of a type, whatever replies were
\* lost.
THEOREM AddressesAllocatedOnce ==
    ASSUME SingleOperator
    PROVE  Spec => AllocatesOnce
  <1> DEFINE Once == \A t \in {"v4", "v6"} : ips'[t] > ips[t] => ips[t] = 0
  <1>1. Init => AddressInv
    BY DEF Init, AddressInv
  <1>2. TypeOK /\ AddressInv /\ [Next]_vars => AddressInv' /\ [Once]_vars
    BY AddressStep DEF TypeOK, NoIPs
  <1>3. QED
    BY <1>1, <1>2, TypeCorrect, PTL DEF Spec, AllocatesOnce

-----------------------------------------------------------------------------
(* Releases are published before they are rolled out.                      *)

\* A step of o that does not take it past its push.
LEMMA PublishFrame ==
    ASSUME TypeOK, PublishedFirst, NEW o \in Operators,
           published \subseteq published', job' = job,
           NEW label, Goto(o, label),
           \/ label \in Unpublished
           \/ pc[o] \notin Unpublished
           \/ ~Publishes(o)
    PROVE  PublishedFirst'
  <1> SUFFICES ASSUME NEW q \in Operators, Publishes(q), pc'[q] \notin Unpublished
               PROVE  job[q].config.image \in published'
    BY DEF PublishedFirst, Publishes, Unpublished
  <1>1. pc[q] \notin Unpublished
    BY DEF TypeOK, Goto
  <1>2. QED
    BY <1>1 DEF PublishedFirst

\* A command comes to its push only with its build in the engine.
LEMMA BuiltStep ==
    ASSUME TypeOK, BuiltInv, [Next]_vars
    PROVE  BuiltInv'
  <1>1. ASSUME NEW o \in Operators, Invoke(o)
        PROVE  BuiltInv'
    <2>1. PICK j \in Jobs, label \in {"failed", "GetApp", "GetImageApp", "ListMachines", "Build"} :
            Begin(o, j, label)
      BY <1>1 DEF Invoke, InvokeDeploy, InvokeAutodeploy, InvokeDestroy, InvokeImagePush, DeployEntry
    <2>2. /\ pc'[o] = label
          /\ \A q \in Operators : q # o => job'[q] = job[q] /\ pc'[q] = pc[q]
          /\ built' = built \ {o}
      BY <2>1 DEF Begin, Goto, TypeOK
    <2>3. QED
      BY <2>2 DEF BuiltInv
  <1>2. ASSUME NEW o \in Operators, Build(o)
        PROVE  BuiltInv'
    <2>1. PICK reply \in Replies :
              /\ built' = IF TakesEffect(o, reply) THEN built \cup {o} ELSE built
              /\ Goto(o, IF reply = "ok" THEN "Push" ELSE "failed")
      BY <1>2 DEF Build
    <2>2. job' = job
      BY <1>2 DEF Build
    <2>3. pc'[o] = "Push" /\ ~job[o].dryRun => o \in built'
      BY <2>1 DEF Goto, TypeOK, TakesEffect
    <2>4. \A q \in Operators : q # o => pc'[q] = pc[q]
      BY <2>1 DEF Goto, TypeOK
    <2>5. built \subseteq built'
      BY <2>1
    <2>6. QED
      BY <2>2, <2>3, <2>4, <2>5 DEF BuiltInv
  <1>3. ASSUME NEW o \in Operators, Step(o) \/ Crash(o), ~Build(o)
        PROVE  BuiltInv'
    <2>1. built' = built /\ job' = job
      BY <1>3 DEF Step, Crash, GetImageApp, CreateImageApp, Push, GetApp, CreateApp, ListIPs,
                  AllocateIP, ListMachines, DestroyMachine, CreateMachine, UpdateMachine,
                  KeepMachine, StartMachine, WaitForHealthy, platform
    <2>2. PICK label \in (Ended \cup Calls) \ {"Push"} : Goto(o, label)
      BY <1>3 DEF Step, Crash, GetImageApp, CreateImageApp, Push, GetApp, CreateApp, ListIPs,
                  AllocateIP, ListMachines, DestroyMachine, CreateMachine, UpdateMachine,
                  KeepMachine, StartMachine, WaitForHealthy, AfterImageApp, AfterPush,
                  AfterDestroys, StartIfStopped, Ensured, Abort, Ended, Calls
    <2>3. QED
      BY <2>1, <2>2 DEF BuiltInv, Goto, TypeOK
  <1>4. CASE UNCHANGED <<built, control>>
    BY <1>4 DEF BuiltInv, control
  <1>5. QED
    BY <1>1, <1>2, <1>3, <1>4 DEF Next, MachineStep, vars, platform

\* Every step keeps the released images published.
LEMMA PublishStep ==
    ASSUME TypeOK, ControlInv, BuiltInv, PublishedFirst, [Next]_vars
    PROVE  PublishedFirst'
  <1>1. ASSUME NEW o \in Operators, NEW j \in Jobs, NEW label, Begin(o, j, label),
               \/ label \in Unpublished
               \/ j.kind \in {"deploy", "destroy"}
               \/ j.dryRun
        PROVE  PublishedFirst'
    <2>1. UNCHANGED published
      BY <1>1 DEF Begin, platform
    <2>2. /\ job'[o] = j /\ pc'[o] = label
          /\ \A q \in Operators : q # o => job'[q] = job[q] /\ pc'[q] = pc[q]
      BY <1>1 DEF Begin, Goto, TypeOK
    <2>3. QED
      BY <1>1, <2>1, <2>2 DEF PublishedFirst, Publishes, Unpublished
  <1>2. ASSUME NEW o \in Operators, Invoke(o)
        PROVE  PublishedFirst'
    <2>1. CASE InvokeDeploy(o) \/ InvokeDestroy(o)
      BY <1>1, <2>1 DEF InvokeDeploy, InvokeDestroy
    <2>2. CASE InvokeAutodeploy(o)
      BY <1>1, <2>2 DEF InvokeAutodeploy, Unpublished
    <2>3. CASE InvokeImagePush(o)
      BY <1>1, <2>3 DEF InvokeImagePush, Unpublished
    <2>4. QED
      BY <1>2, <2>1, <2>2, <2>3 DEF Invoke
  <1>3. ASSUME NEW o \in Operators, GetImageApp(o) \/ CreateImageApp(o) \/ Build(o) \/ Crash(o)
        PROVE  PublishedFirst'
    <2>1. published' = published /\ job' = job
      BY <1>3 DEF GetImageApp, CreateImageApp, Build, Crash, platform
    <2>2. PICK label : Goto(o, label) /\ (label \in Unpublished \/ ~Publishes(o))
      BY <1>3 DEF GetImageApp, CreateImageApp, Build, Crash, AfterImageApp, Unpublished, Publishes
    <2>3. QED
      BY <2>1, <2>2, PublishFrame
  <1>4. ASSUME NEW o \in Operators, Push(o)
        PROVE  PublishedFirst'
    <2>1. PICK reply \in Replies :
              /\ published' = IF TakesEffect(o, reply) /\ o \in built
                              THEN published \cup {job[o].config.image} ELSE published
              /\ Goto(o, IF reply = "ok" THEN AfterPush(o) ELSE "failed")
      BY <1>4 DEF Push
    <2>2. job' = job
      BY <1>4 DEF Push
    <2>3. CASE reply # "ok"
      BY <2>1, <2>2, <2>3, PublishFrame DEF Unpublished
    <2>4. CASE reply = "ok"
      <3>1. Publishes(o) => job[o].config.image \in published'
        BY <1>4, <2>1, <2>4 DEF Push, BuiltInv, TakesEffect, Publishes
      <3>2. \A q \in Operators : q # o => pc'[q] = pc[q]
        BY <2>1 DEF Goto, TypeOK
      <3>3. QED
        BY <2>1, <2>2, <3>1, <3>2 DEF PublishedFirst, Publishes, Unpublished
    <2>5. QED
      BY <2>3, <2>4
  <1>5. ASSUME NEW o \in Operators,
               \/ GetApp(o) \/ CreateApp(o) \/ ListIPs(o) \/ AllocateIP(o)
               \/ ListMachines(o) \/ DestroyMachine(o) \/ CreateMachine(o)
               \/ UpdateMachine(o) \/ KeepMachine(o) \/ StartMachine(o) \/ WaitForHealthy(o)
        PROVE  PublishedFirst'
    <2>1. /\ published' = published /\ job' = job
          /\ pc[o] \notin Unpublished
      BY <1>5 DEF GetApp, CreateApp, ListIPs, AllocateIP, ListMachines, DestroyMachine,
                  CreateMachine, UpdateMachine, KeepMachine, StartMachine, WaitForHealthy,
                  platform, Unpublished
    <2>2. \E label : Goto(o, label)
      BY <1>5 DEF GetApp, CreateApp, ListIPs, AllocateIP, ListMachines, DestroyMachine,
                  CreateMachine, UpdateMachine, KeepMachine, StartMachine, WaitForHealthy,
                  StartIfStopped, Ensured, Abort
    <2>3. QED
      BY <2>1, <2>2, PublishFrame
  <1>6. CASE UNCHANGED <<published, control>>
    BY <1>6 DEF PublishedFirst, Publishes, control
  <1>7. QED
    BY <1>2, <1>3, <1>4, <1>5, <1>6 DEF Next, Step, MachineStep, vars, platform

\* A command that publishes is never past its push without its image in the
\* registry, however builds, pushes and replies fail.
THEOREM ReleasesPublished == Spec => []PublishedFirst
  <1>1. Init => BuiltInv /\ PublishedFirst
    BY DEF Init, BuiltInv, PublishedFirst, Unpublished
  <1>2. TypeOK /\ ControlInv /\ BuiltInv /\ PublishedFirst /\ [Next]_vars
            => BuiltInv' /\ PublishedFirst'
    BY BuiltStep, PublishStep
  <1>3. QED
    BY <1>1, <1>2, TypeCorrect, PTL DEF Spec

-----------------------------------------------------------------------------
(* One operator: the fleet converges.                                      *)

\* Machines of the fleet change state, or take the operator's configuration,
\* and none comes or goes: every region is served as well as before.
LEMMA FleetUpgraded ==
    ASSUME NEW o \in Operators, Live' = Live, job' = job,
           \A m \in Live : /\ machines'[m].region = machines[m].region
                           /\ \/ machines'[m].config = machines[m].config
                              \/ Wire(machines'[m].config) = Wire(job[o].config)
    PROVE  /\ \A r : InRegion(r)' = InRegion(r)
           /\ \A r : Serves(o, r) => Serves(o, r)'
           /\ OneMachinePerRegion => OneMachinePerRegion'
  <1>1. \A r : InRegion(r)' = InRegion(r)
    BY DEF InRegion
  <1>2. ASSUME NEW r, Serves(o, r)
        PROVE  Serves(o, r)'
    <2>1. PICK m \in InRegion(r) : Wire(machines[m].config) = Wire(job[o].config)
      BY <1>2 DEF Serves
    <2>2. m \in InRegion(r)' /\ m \in Live
      BY <1>1, <2>1 DEF InRegion
    <2>3. Wire(machines'[m].config) = Wire(job'[o].config)
      BY <2>1, <2>2
    <2>4. QED
      BY <2>2, <2>3 DEF Serves, Wire
  <1>3. OneMachinePerRegion => OneMachinePerRegion'
    BY DEF OneMachinePerRegion
  <1>4. QED
    BY <1>1, <1>2, <1>3

\* With distinct regions, the current one has not been done before.
LEMMA CurrentIsNew ==
    ASSUME TypeOK, ControlInv, DistinctRegions, NEW o \in Operators,
           pc[o] \in {"EnsureMachine", "StartMachine"}
    PROVE  Region(o) \notin Processed(o)
  <1> DEFINE n == Len(result[o])
  <1>1. /\ n \in Nat /\ n + 1 \in 1 .. Len(job[o].regions)
        /\ DOMAIN job[o].regions = 1 .. Len(job[o].regions)
        /\ Len(job[o].regions) \in Nat
    BY RegionInRange, JobShape
  <1>2. \A k, l \in 1 .. Len(job[o].regions) :
            job[o].regions[k] = job[o].regions[l] => k = l
    BY <1>1 DEF DistinctRegions, TypeOK
  <1>3. \A k \in 1 .. n : k \in 1 .. Len(job[o].regions) /\ k # n + 1
    BY <1>1
  <1>4. QED
    BY <1>1, <1>2, <1>3 DEF Processed, Region

\* An iteration of the ensure loop adds its region, a new one, to those that
\* are done; after the last one they are all done.
LEMMA ProcessedStep ==
    ASSUME TypeOK, ControlInv, DistinctRegions, NEW o \in Operators,
           NEW id \in MachineIds \cup {NoId},
           pc[o] \in {"EnsureMachine", "StartMachine"}, Ensured(o, id), job' = job
    PROVE  /\ Processed(o)' = Processed(o) \cup {Region(o)}
           /\ Region(o) \notin Processed(o)
           /\ Processed(o)' \subseteq Desired(o)
           /\ pc'[o] \in {"EnsureMachine", "WaitForHealthy", "done"}
           /\ pc'[o] = "done" => job[o].dryRun
           /\ pc'[o] # "EnsureMachine" => Desired(o) = Processed(o)'
  <1> DEFINE n == Len(result[o])
  <1>1. /\ n \in Nat /\ n + 1 \in 1 .. Len(job[o].regions)
        /\ DOMAIN job[o].regions = 1 .. Len(job[o].regions)
        /\ Len(job[o].regions) \in Nat
    BY RegionInRange, JobShape
  <1>2. Len(result'[o]) = n + 1
    <2>1. result[o] \in Seq(MachineIds \cup {NoId})
      BY DEF TypeOK
    <2>2. Len(Append(result[o], id)) = n + 1
      BY <2>1, AppendProperties
    <2>3. QED
      BY <2>2 DEF Ensured, TypeOK
  <1>3. Processed(o)' = {job[o].regions[k] : k \in 1 .. (n + 1)}
    BY <1>2 DEF Processed
  <1>4. Processed(o)' = Processed(o) \cup {Region(o)}
    <2>1. 1 .. (n + 1) = (1 .. n) \cup {n + 1}
      BY <1>1
    <2>2. QED
      BY <1>3, <2>1 DEF Processed, Region
  <1>5. Region(o) \notin Processed(o)
    BY CurrentIsNew
  <1>6. Processed(o)' \subseteq Desired(o)
    <2>1. 1 .. (n + 1) \subseteq 1 .. Len(job[o].regions)
      BY <1>1
    <2>2. QED
      BY <1>1, <1>3, <2>1 DEF Desired
  <1>7. /\ pc'[o] \in {"EnsureMachine", "WaitForHealthy", "done"}
        /\ pc'[o] = "done" => job[o].dryRun
        /\ pc'[o] # "EnsureMachine" => ~(n + 1 < Len(job[o].regions))
    BY DEF Ensured, Goto, TypeOK
  <1>8. ASSUME pc'[o] # "EnsureMachine"
        PROVE  Desired(o) = Processed(o)'
    <2>1. Len(job[o].regions) = n + 1
      BY <1>1, <1>7, <1>8
    <2>2. QED
      BY <1>1, <1>3, <2>1 DEF Desired
  <1>9. QED
    BY <1>4, <1>5, <1>6, <1>7, <1>8

\* The regions that are done are regions of the command line.
LEMMA ProcessedDesired ==
    ASSUME TypeOK, ControlInv, NEW o \in Operators,
           pc[o] \in {"EnsureMachine", "StartMachine"}
    PROVE  Processed(o) \subseteq Desired(o)
  <1>1. 1 .. Len(result[o]) \subseteq 1 .. Len(job[o].regions)
    BY RegionInRange, JobShape
  <1>2. QED
    BY <1>1, JobShape DEF Processed, Desired

\* A step after which the operator is neither converging nor done keeps the
\* invariant if it leaves the machines alone.
LEMMA OutsideStep ==
    ASSUME SingleOperator, ConvergenceInv, NEW o \in Operators, machines' = machines,
           pc'[o] \notin {"DestroyMachine", "EnsureMachine", "StartMachine",
                          "WaitForHealthy", "done"}
    PROVE  ConvergenceInv'
  <1>1. OneMachinePerRegion'
    BY DEF ConvergenceInv, OneMachinePerRegion, Live
  <1>2. Snapshot(o)' /\ Outcome(o)'
    BY DEF Snapshot, Outcome
  <1>3. QED
    BY <1>1, <1>2 DEF ConvergenceInv, SingleOperator

\* What a listing shows is the fleet.
LEMMA ConvergeList ==
    ASSUME SingleOperator, TypeOK, ControlInv, ConvergenceInv,
           NEW o \in Operators, ListMachines(o)
    PROVE  ConvergenceInv'
  <1>1. machines' = machines /\ job' = job /\ result' = result /\ pc[o] = "ListMachines"
    BY DEF ListMachines, platform
  <1>2. OneMachinePerRegion'
    BY <1>1 DEF ConvergenceInv, OneMachinePerRegion, Live
  <1>3. CASE job[o].dryRun
    BY <1>1, <1>2, <1>3 DEF ConvergenceInv, SingleOperator, Snapshot, Outcome
  <1>4. CASE pc'[o] = "failed"
    BY <1>1, <1>4, OutsideStep
  <1>5. CASE ~job[o].dryRun /\ pc'[o] # "failed"
    <2>1. PICK f \in [Regions -> MachineIds \cup {NoId}] :
              /\ ByRegion(f)
              /\ seen'[o] = f
              /\ listed'[o] = machines
              /\ todo'[o] = ToDestroy(o, f)
              /\ pc'[o] = IF ToDestroy(o, f) = {} THEN AfterDestroys(o) ELSE "DestroyMachine"
      BY <1>5 DEF ListMachines, Goto, TypeOK
    <2>2. /\ Live' = Live
          /\ \A r : InRegion(r)' = InRegion(r)
          /\ Desired(o)' = Desired(o)
      BY <1>1 DEF Live, InRegion, Desired
    <2>3. \A r \in Regions : /\ f[r] = NoId => InRegion(r) = {}
                             /\ f[r] # NoId => f[r] \in InRegion(r)
      BY <2>1, ConstantsAssumption DEF ByRegion, InRegion, Live
    <2>4. Desired(o) \subseteq Regions
      BY JobShape DEF Desired
    <2>5. Processed(o)' = {}
      BY <1>1 DEF Processed, ControlInv, Calls
    <2>6. pc'[o] # "StartMachine" /\ pc'[o] # "WaitForHealthy"
          /\ (pc'[o] = "done" => job[o].kind = "destroy")
      BY <2>1 DEF AfterDestroys
    <2>7. Snapshot(o)'
      BY <1>1, <2>1, <2>2, <2>3, <2>4, <2>5, <2>6 DEF Snapshot
    <2>8. job[o].kind # "destroy" =>
              \A m \in Live : machines[m].region \in Desired(o) \/ m \in ToDestroy(o, f)
      <3> SUFFICES ASSUME job[o].kind # "destroy", NEW m \in Live,
                          machines[m].region \notin Desired(o)
                   PROVE  m \in ToDestroy(o, f)
        OBVIOUS
      <3>1. machines[m].region \in Regions /\ m \in InRegion(machines[m].region)
        BY DEF TypeOK, Live, Machine, InRegion
      <3>2. f[machines[m].region] = m
        BY <2>3, <3>1 DEF ConvergenceInv, OneMachinePerRegion, InRegion
      <3>3. m # NoId
        BY ConstantsAssumption DEF Live
      <3>4. QED
        BY <3>1, <3>2, <3>3 DEF ToDestroy
    <2>9. job[o].kind = "destroy" => ToDestroy(o, f) = Live
      BY DEF ToDestroy
    <2>10. Outcome(o)'
      BY <1>1, <2>1, <2>2, <2>6, <2>8, <2>9 DEF Outcome, AfterDestroys
    <2>11. QED
      BY <1>2, <2>7, <2>10 DEF ConvergenceInv, SingleOperator
  <1>6. QED
    BY <1>3, <1>4, <1>5

\* Destroying a machine takes nothing from the desired regions; if it fails
\* without effect, that is logged.
LEMMA ConvergeDestroy ==
    ASSUME SingleOperator, TypeOK, ControlInv, TodoInv, ConvergenceInv,
           NEW o \in Operators, DestroyMachine(o)
    PROVE  ConvergenceInv'
  <1>1. PICK m \in todo[o], reply \in Replies :
            /\ Call(o, m \in Live, reply)
            /\ machines' = IF TakesEffect(o, reply) THEN WithState(m, "destroyed") ELSE machines
            /\ todo' = [todo EXCEPT ![o] = @ \ {m}]
            /\ logged' = IF reply = "ok" THEN logged
                         ELSE [logged EXCEPT ![o] = @ \cup {"destroy"}]
            /\ Goto(o, IF todo[o] = {m} THEN AfterDestroys(o) ELSE "DestroyMachine")
    BY DEF DestroyMachine
  <1>2. /\ job' = job /\ seen' = seen /\ listed' = listed /\ result' = result
        /\ pc[o] = "DestroyMachine"
    BY DEF DestroyMachine
  <1>3. /\ m \in MachineIds /\ ~job[o].dryRun
        /\ job[o].kind # "destroy" => machines[m].region \notin Desired(o)
    BY <1>2 DEF TypeOK, TodoInv
  <1>4. /\ Live' \subseteq Live
        /\ Live \ {m} \subseteq Live'
        /\ "destroy" \notin logged'[o] => m \notin Live'
        /\ \A n \in Live' : n \in Live /\ machines'[n] = machines[n]
    <2>1. CASE TakesEffect(o, reply)
      <3>1. /\ machines'[m].state = "destroyed"
            /\ \A n \in MachineIds : n # m => machines'[n] = machines[n]
        BY <1>1, <1>3, <2>1, SetState DEF MachineStates
      <3>2. QED
        BY <3>1 DEF Live
    <2>2. CASE ~TakesEffect(o, reply)
      <3>1. machines' = machines /\ reply = "refused"
        BY <1>1, <1>3, <2>2 DEF TakesEffect
      <3>2. "destroy" \in logged'[o]
        BY <1>1, <3>1 DEF TypeOK
      <3>3. QED
        BY <3>1, <3>2 DEF Live
    <2>3. QED
      BY <2>1, <2>2
  <1>5. OneMachinePerRegion'
    BY <1>4 DEF ConvergenceInv, OneMachinePerRegion
  <1>6. /\ \A r : InRegion(r)' \subseteq InRegion(r)
        /\ job[o].kind # "destroy" =>
              \A r \in Desired(o) : InRegion(r)' = InRegion(r)
    BY <1>3, <1>4 DEF InRegion
  <1>7. /\ todo'[o] = todo[o] \ {m}
        /\ pc'[o] = IF todo[o] = {m} THEN AfterDestroys(o) ELSE "DestroyMachine"
        /\ "destroy" \notin logged'[o] => "destroy" \notin logged[o]
    BY <1>1 DEF TypeOK, Goto
  <1>8. Desired(o)' = Desired(o) /\ Processed(o)' = {} /\ Processed(o) = {}
    BY <1>2 DEF Desired, Processed, ControlInv, Calls
  <1>9. Snapshot(o)'
    <2>1. CASE job[o].kind = "destroy"
      BY <1>2, <2>1 DEF Snapshot
    <2>2. CASE job[o].kind # "destroy"
      <3>1. /\ \A r \in Regions : seen[o][r] = NoId => InRegion(r) = {}
            /\ \A r \in Desired(o) : seen[o][r] # NoId => seen[o][r] \in InRegion(r)
            /\ \A r \in Desired(o) : seen[o][r] # NoId =>
                  listed[o][seen[o][r]].config = machines[seen[o][r]].config
        BY <1>2, <1>3, <1>8, <2>2 DEF ConvergenceInv, Snapshot
      <3>2. \A r \in Desired(o) : seen[o][r] # NoId =>
                  listed[o][seen[o][r]].config = machines'[seen[o][r]].config
        BY <1>4, <1>6, <2>2, <3>1 DEF InRegion
      <3>3. pc'[o] \in {"DestroyMachine", "EnsureMachine"}
        BY <1>7, <2>2 DEF AfterDestroys
      <3>4. QED
        BY <1>2, <1>6, <1>8, <2>2, <3>1, <3>2, <3>3 DEF Snapshot
    <2>3. QED
      BY <2>1, <2>2
  <1>10. Outcome(o)'
    <2>1. CASE job[o].kind = "destroy"
      <3>1. "destroy" \notin logged'[o] => Live' \subseteq todo[o] \ {m}
        BY <1>2, <1>3, <1>4, <1>7, <2>1 DEF ConvergenceInv, Outcome
      <3>2. QED
        BY <1>2, <1>7, <2>1, <3>1 DEF Outcome
    <2>2. CASE job[o].kind # "destroy"
      <3>1. "destroy" \notin logged'[o] =>
                \A n \in Live' : machines'[n].region \in Desired(o) \/ n \in todo[o] \ {m}
        BY <1>2, <1>3, <1>4, <1>7, <2>2 DEF ConvergenceInv, Outcome
      <3>2. pc'[o] \in {"DestroyMachine", "EnsureMachine"}
        BY <1>7, <2>2 DEF AfterDestroys
      <3>3. QED
        BY <1>2, <1>7, <1>8, <2>2, <3>1, <3>2 DEF Outcome
    <2>3. QED
      BY <2>1, <2>2
  <1>11. QED
    BY <1>5, <1>9, <1>10 DEF ConvergenceInv, SingleOperator

\* The end of an iteration of a real Deploy, given what the iteration did to
\* the fleet.
LEMMA ConvergeEnsured ==
    ASSUME TypeOK, ControlInv, DistinctRegions, NEW o \in Operators,
           NEW id \in MachineIds \cup {NoId},
           pc[o] \in {"EnsureMachine", "StartMachine"}, Ensured(o, id),
           UNCHANGED <<job, seen, listed, logged>>, ~job[o].dryRun,
           \A r \in Regions : seen[o][r] = NoId /\ r \notin Processed(o)' => InRegion(r)' = {},
           \A r \in Desired(o) : seen[o][r] # NoId => seen[o][r] \in InRegion(r)',
           \A r \in Desired(o) : seen[o][r] # NoId /\ r \notin Processed(o)' =>
                listed[o][seen[o][r]].config = machines'[seen[o][r]].config,
           \A r \in Processed(o)' : Serves(o, r)',
           "destroy" \notin logged[o] =>
                \A m \in Live' : machines'[m].region \in Desired(o)
    PROVE  Snapshot(o)' /\ Outcome(o)'
  <1>1. Desired(o)' = Desired(o)
    BY DEF Desired
  <1>2. job[o].kind # "destroy"
    BY DEF ControlInv, Calls
  <1>3. /\ pc'[o] \in {"EnsureMachine", "WaitForHealthy"}
        /\ pc'[o] # "EnsureMachine" => Desired(o) = Processed(o)'
    BY ProcessedStep
  <1>4. Snapshot(o)'
    BY <1>1, <1>3 DEF Snapshot
  <1>5. Outcome(o)'
    BY <1>1, <1>2, <1>3 DEF Outcome
  <1>6. QED
    BY <1>4, <1>5

\* What the ensure loop relies on in a real Deploy.
LEMMA InEnsure ==
    ASSUME TypeOK, ControlInv, ConvergenceInv, NEW o \in Operators,
           pc[o] \in {"EnsureMachine", "StartMachine"}, ~job[o].dryRun
    PROVE  /\ \A r \in Regions :
                 seen[o][r] = NoId /\ r \notin Processed(o) => InRegion(r) = {}
           /\ \A r \in Desired(o) : seen[o][r] # NoId => seen[o][r] \in InRegion(r)
           /\ \A r \in Desired(o) :
                 seen[o][r] # NoId /\ r \notin Processed(o) /\ (pc[o] = "StartMachine" => r # Region(o))
                 => listed[o][seen[o][r]].config = machines[seen[o][r]].config
           /\ \A r \in Processed(o) : Serves(o, r)
           /\ pc[o] = "StartMachine" => Serves(o, Region(o))
           /\ "destroy" \notin logged[o] =>
                 \A m \in Live : machines[m].region \in Desired(o)
  <1>1. job[o].kind # "destroy"
    BY DEF ControlInv, Calls
  <1>2. Snapshot(o) /\ Outcome(o)
    BY DEF ConvergenceInv
  <1>3. QED
    BY <1>1, <1>2 DEF Snapshot, Outcome

\* A machine is created only where there is none.
LEMMA ConvergeCreate ==
    ASSUME SingleOperator, DistinctRegions, TypeOK, ControlInv, ConvergenceInv,
           NEW o \in Operators, CreateMachine(o)
    PROVE  ConvergenceInv'
  <1>1. /\ UNCHANGED <<job, seen, listed, logged>>
        /\ pc[o] = "EnsureMachine" /\ seen[o][Region(o)] = NoId
    BY DEF CreateMachine
  <1>2. PICK r0 \in Regions : r0 = Region(o) /\ r0 \in Desired(o)
    BY <1>1, RegionInRange
  <1>3. CASE machines' = machines
    <2>1. OneMachinePerRegion'
      BY <1>3 DEF ConvergenceInv, OneMachinePerRegion, Live
    <2>2. job[o].dryRun \/ pc'[o] = "failed"
      <3>1. PICK reply \in Replies : /\ Call(o, app /\ Absent # {}, reply)
                                     /\ reply # "ok" => Abort(o)
                                     /\ TakesEffect(o, reply) =>
                                          \E m \in Absent :
                                             machines' = [machines EXCEPT ![m] =
                                                [region |-> Region(o), state |-> "created",
                                                 config |-> Wire(job[o].config)]]
        BY DEF CreateMachine
      <3>2. ~TakesEffect(o, reply)
        <4>1. ASSUME NEW m \in Absent, NEW v, machines' = [machines EXCEPT ![m] = v],
                     v.state = "created"
              PROVE  FALSE
          BY <1>3, <4>1 DEF TypeOK, Absent
        <4>2. QED
          BY <3>1, <4>1
      <3>3. job[o].dryRun \/ reply # "ok"
        BY <3>2 DEF TakesEffect
      <3>4. QED
        BY <3>1, <3>3 DEF Abort, Goto, TypeOK
    <2>3. Snapshot(o)' /\ Outcome(o)'
      BY <1>1, <2>2 DEF Snapshot, Outcome
    <2>4. QED
      BY <2>1, <2>3 DEF ConvergenceInv, SingleOperator
  <1>4. ASSUME NEW m \in Absent, ~job[o].dryRun,
               machines' = [machines EXCEPT ![m] =
                   [region |-> r0, state |-> "created", config |-> Wire(job[o].config)]],
               Abort(o) \/ Ensured(o, m)
        PROVE  ConvergenceInv'
    <2>1. /\ m \in MachineIds /\ m \notin Live
          /\ machines'[m].region = r0
          /\ machines'[m].state = "created"
          /\ machines'[m].config = Wire(job[o].config)
          /\ \A n \in MachineIds : n # m => machines'[n] = machines[n]
      BY <1>4 DEF TypeOK, Absent, Live
    <2>2. Live' = Live \cup {m}
      BY <2>1 DEF Live
    <2>3. /\ \A r : r # r0 => InRegion(r)' = InRegion(r)
          /\ InRegion(r0)' = InRegion(r0) \cup {m}
      BY <2>1, <2>2 DEF InRegion, Live
    <2>4. r0 \notin Processed(o) /\ Processed(o) \subseteq Desired(o)
      BY <1>1, <1>2, CurrentIsNew, ProcessedDesired
    <2>5. InRegion(r0) = {}
      BY <1>1, <1>2, <1>4, <2>4, InEnsure
    <2>6. OneMachinePerRegion'
      <3>1. \A n \in Live : machines'[n] = machines[n] /\ machines[n].region # r0
        BY <2>1, <2>5 DEF InRegion, Live
      <3>2. QED
        BY <2>1, <2>2, <3>1 DEF ConvergenceInv, OneMachinePerRegion
    <2>7. CASE Abort(o)
      <3>1. pc'[o] = "failed"
        BY <2>7 DEF Abort, Goto, TypeOK
      <3>2. Snapshot(o)' /\ Outcome(o)'
        BY <3>1 DEF Snapshot, Outcome
      <3>3. QED
        BY <2>6, <3>2 DEF ConvergenceInv, SingleOperator
    <2>8. CASE Ensured(o, m)
      <3>1. Processed(o)' = Processed(o) \cup {r0}
        BY <1>1, <1>2, <2>1, <2>8, ProcessedStep
      <3>2. \A r \in Regions : seen[o][r] = NoId /\ r \notin Processed(o)' => InRegion(r)' = {}
        BY <1>1, <1>4, <2>3, <3>1, InEnsure
      <3>3. \A r \in Desired(o) : seen[o][r] # NoId => seen[o][r] \in InRegion(r)'
        BY <1>1, <1>4, <2>3, InEnsure
      <3>4. \A r \in Desired(o) : seen[o][r] # NoId /\ r \notin Processed(o)' =>
                listed[o][seen[o][r]].config = machines'[seen[o][r]].config
        <4>1. \A r \in Desired(o) : seen[o][r] # NoId =>
                  machines'[seen[o][r]] = machines[seen[o][r]]
          BY <1>1, <1>4, <2>1, InEnsure DEF InRegion, Live
        <4>2. QED
          BY <1>1, <1>4, <3>1, <4>1, InEnsure
      <3>5. \A r \in Processed(o)' : Serves(o, r)'
        <4>1. ASSUME NEW r \in Processed(o) PROVE Serves(o, r)'
          <5>1. PICK n \in InRegion(r) : Wire(machines[n].config) = Wire(job[o].config)
            BY <1>1, <1>4, InEnsure DEF Serves
          <5>2. machines'[n] = machines[n] /\ n \in InRegion(r)'
            BY <2>1, <2>3, <5>1 DEF InRegion, Live
          <5>3. Wire(machines'[n].config) = Wire(job'[o].config)
            BY <1>1, <5>1, <5>2
          <5>4. QED
            BY <5>2, <5>3 DEF Serves, Wire
        <4>2. Serves(o, r0)'
          <5>1. Wire(machines'[m].config) = Wire(job'[o].config)
            BY <1>1, <2>1, JobShape, WireType
          <5>2. m \in InRegion(r0)'
            BY <2>3
          <5>3. QED
            BY <5>1, <5>2 DEF Serves, Wire
        <4>3. QED
          BY <3>1, <4>1, <4>2
      <3>6. "destroy" \notin logged[o] => \A n \in Live' : machines'[n].region \in Desired(o)
        <4>1. \A n \in Live : machines'[n] = machines[n]
          BY <2>1 DEF Live
        <4>2. QED
          BY <1>1, <1>2, <1>4, <2>1, <2>2, <4>1, InEnsure
      <3>7. Snapshot(o)' /\ Outcome(o)'
        BY <1>1, <1>4, <2>1, <2>8, <3>2, <3>3, <3>4, <3>5, <3>6, ConvergeEnsured
      <3>8. QED
        BY <2>6, <3>7 DEF ConvergenceInv, SingleOperator
    <2>9. QED
      BY <1>4, <2>7, <2>8
  <1>5. QED
    <2>1. \/ machines' = machines
          \/ \E m \in Absent :
                /\ ~job[o].dryRun
                /\ machines' = [machines EXCEPT ![m] =
                        [region |-> r0, state |-> "created", config |-> Wire(job[o].config)]]
                /\ Abort(o) \/ Ensured(o, m)
      BY <1>2 DEF CreateMachine, TakesEffect
    <2>2. QED
      BY <1>3, <1>4, <2>1

\* The end of the branch for an existing machine, given that no machine came
\* or went and that the current region is now served.
LEMMA ConvergeExisting ==
    ASSUME TypeOK, ControlInv, ConvergenceInv, DistinctRegions, NEW o \in Operators,
           UNCHANGED <<job, seen, listed, logged>>, ~job[o].dryRun,
           NEW r0 \in Regions, r0 = Region(o), r0 \in Desired(o), seen[o][r0] # NoId,
           \/ pc[o] \in {"EnsureMachine", "StartMachine"} /\ Ensured(o, seen[o][r0])
           \/ pc[o] = "EnsureMachine" /\ Goto(o, "StartMachine") /\ UNCHANGED result,
           Live' = Live,
           \A r : InRegion(r)' = InRegion(r),
           \A m \in Live : machines'[m].region = machines[m].region,
           \A r : Serves(o, r) => Serves(o, r)',
           Serves(o, r0)',
           \A r \in Desired(o) : r # r0 /\ seen[o][r] # NoId =>
                machines'[seen[o][r]].config = machines[seen[o][r]].config
    PROVE  Snapshot(o)' /\ Outcome(o)'
  <1>1. pc[o] \in {"EnsureMachine", "StartMachine"}
    OBVIOUS
  <1>2. /\ \A r \in Regions : seen[o][r] = NoId /\ r \notin Processed(o) => InRegion(r)' = {}
        /\ \A r \in Desired(o) : seen[o][r] # NoId => seen[o][r] \in InRegion(r)'
        /\ \A r \in Desired(o) : seen[o][r] # NoId /\ r \notin Processed(o) /\ r # r0 =>
                listed[o][seen[o][r]].config = machines'[seen[o][r]].config
        /\ \A r \in Processed(o) : Serves(o, r)'
        /\ "destroy" \notin logged[o] => \A m \in Live' : machines'[m].region \in Desired(o)
    BY <1>1, InEnsure
  <1>3. CASE Ensured(o, seen[o][r0])
    <2>1. seen[o][r0] \in MachineIds \cup {NoId}
      BY DEF TypeOK
    <2>2. Processed(o)' = Processed(o) \cup {r0}
      BY <1>1, <1>3, <2>1, ProcessedStep
    <2>3. /\ \A r \in Regions : seen[o][r] = NoId /\ r \notin Processed(o)' => InRegion(r)' = {}
          /\ \A r \in Desired(o) : seen[o][r] # NoId /\ r \notin Processed(o)' =>
                listed[o][seen[o][r]].config = machines'[seen[o][r]].config
          /\ \A r \in Processed(o)' : Serves(o, r)'
      BY <1>2, <2>2
    <2>4. QED
      BY <1>1, <1>2, <1>3, <2>1, <2>3, ConvergeEnsured
  <1>4. CASE Goto(o, "StartMachine") /\ UNCHANGED result
    <2>1. /\ pc'[o] = "StartMachine"
          /\ Processed(o)' = Processed(o)
          /\ Region(o)' = r0
          /\ Desired(o)' = Desired(o)
      BY <1>4 DEF TypeOK, Goto, Processed, Region, Desired
    <2>2. job[o].kind # "destroy"
      BY <1>1 DEF ControlInv, Calls
    <2>3. Snapshot(o)'
      <3>1. Serves(o, Region(o))'
        BY <2>1 DEF Serves, InRegion, Region, Wire
      <3>2. QED
        BY <1>2, <2>1, <3>1 DEF Snapshot
    <2>4. Outcome(o)'
      BY <1>2, <2>1, <2>2 DEF Outcome
    <2>5. QED
      BY <2>3, <2>4
  <1>5. QED
    BY <1>3, <1>4

\* An update gives the one machine of the region the desired configuration.
LEMMA ConvergeUpdate ==
    ASSUME SingleOperator, DistinctRegions, TypeOK, ControlInv, ConvergenceInv,
           NEW o \in Operators, UpdateMachine(o)
    PROVE  ConvergenceInv'
  <1>1. /\ UNCHANGED <<job, seen, listed, logged>>
        /\ pc[o] = "EnsureMachine" /\ seen[o][Region(o)] # NoId
    BY DEF UpdateMachine
  <1>2. PICK r0 \in Regions : r0 = Region(o) /\ r0 \in Desired(o)
    BY <1>1, RegionInRange
  <1>3. PICK id \in MachineIds : id = seen[o][r0]
    BY <1>1, <1>2, RegionInRange
  <1>4. PICK reply \in Replies, told \in {"created", "started", "stopped"} :
            /\ Call(o, id \in Live, reply)
            /\ machines' = IF TakesEffect(o, reply)
                           THEN WithConfig(id, Wire(job[o].config), told) ELSE machines
            /\ IF reply = "ok" THEN StartIfStopped(o, told) ELSE Abort(o)
    BY <1>2, <1>3 DEF UpdateMachine
  <1>5. Wire(job[o].config) \in Config /\ Wire(Wire(job[o].config)) = Wire(job[o].config)
    BY JobShape, WireType
  <1>6. /\ Live' = Live
        /\ \A m \in MachineIds : m # id => machines'[m] = machines[m]
        /\ \A m \in Live : /\ machines'[m].region = machines[m].region
                           /\ \/ machines'[m].config = machines[m].config
                              \/ Wire(machines'[m].config) = Wire(job[o].config)
        /\ TakesEffect(o, reply) => machines'[id].config = Wire(job[o].config)
    <2>1. CASE ~TakesEffect(o, reply)
      BY <1>4, <2>1 DEF Live
    <2>2. CASE TakesEffect(o, reply)
      <3>1. id \in Live
        BY <1>4, <2>2 DEF TakesEffect, Call, Answer
      <3>2. told \in MachineStates
        BY DEF MachineStates
      <3>3. /\ machines'[id].state = told
            /\ machines'[id].region = machines[id].region
            /\ machines'[id].config = Wire(job[o].config)
            /\ \A m \in MachineIds : m # id => machines'[m] = machines[m]
        BY <1>4, <1>5, <2>2, <3>2, SetConfig
      <3>4. Live' = Live
        BY <3>1, <3>3 DEF Live
      <3>5. \A m \in Live : m \in MachineIds
        BY DEF Live
      <3>6. QED
        BY <1>5, <2>2, <3>3, <3>4, <3>5
    <2>3. QED
      BY <2>1, <2>2
  <1>7. /\ \A r : InRegion(r)' = InRegion(r)
        /\ \A r : Serves(o, r) => Serves(o, r)'
        /\ OneMachinePerRegion'
    BY <1>1, <1>6, FleetUpgraded DEF ConvergenceInv
  <1>8. CASE job[o].dryRun \/ reply # "ok"
    <2>1. job'[o].dryRun \/ pc'[o] = "failed"
      BY <1>1, <1>4, <1>8 DEF Abort, Goto, TypeOK
    <2>2. Snapshot(o)' /\ Outcome(o)'
      BY <2>1 DEF Snapshot, Outcome
    <2>3. QED
      BY <1>7, <2>2 DEF ConvergenceInv, SingleOperator
  <1>9. CASE ~job[o].dryRun /\ reply = "ok"
    <2>1. id \in InRegion(r0)
      BY <1>1, <1>2, <1>3, <1>9, InEnsure
    <2>2. Serves(o, r0)'
      <3>1. Wire(machines'[id].config) = Wire(job'[o].config)
        BY <1>1, <1>5, <1>6, <1>9 DEF TakesEffect
      <3>2. id \in InRegion(r0)'
        BY <1>7, <2>1
      <3>3. QED
        BY <3>1, <3>2 DEF Serves, Wire
    <2>3. \A r \in Desired(o) : r # r0 /\ seen[o][r] # NoId =>
              machines'[seen[o][r]].config = machines[seen[o][r]].config
      <3>1. \A r \in Desired(o) : r # r0 /\ seen[o][r] # NoId =>
                seen[o][r] \in MachineIds /\ seen[o][r] # id
        BY <1>1, <1>9, <2>1, InEnsure DEF InRegion, Live
      <3>2. QED
        BY <1>6, <3>1
    <2>4. \/ Ensured(o, seen[o][r0])
          \/ Goto(o, "StartMachine") /\ UNCHANGED result
      BY <1>2, <1>4, <1>9 DEF StartIfStopped
    <2>5. Snapshot(o)' /\ Outcome(o)'
      BY <1>1, <1>2, <1>6, <1>7, <1>9, <2>2, <2>3, <2>4, ConvergeExisting
    <2>6. QED
      BY <1>7, <2>5 DEF ConvergenceInv, SingleOperator
  <1>10. QED
    BY <1>8, <1>9

\* A machine that is left alone still has the configuration it was listed with.
LEMMA ConvergeKeep ==
    ASSUME SingleOperator, DistinctRegions, TypeOK, ControlInv, ConvergenceInv,
           NEW o \in Operators, KeepMachine(o)
    PROVE  ConvergenceInv'
  <1>1. /\ UNCHANGED <<job, seen, listed, logged, machines>>
        /\ pc[o] = "EnsureMachine" /\ seen[o][Region(o)] # NoId /\ Matches(o)
    BY DEF KeepMachine, platform
  <1>2. PICK r0 \in Regions : r0 = Region(o) /\ r0 \in Desired(o)
    BY <1>1, RegionInRange
  <1>3. Live' = Live
    BY <1>1 DEF Live
  <1>4. /\ \A r : InRegion(r)' = InRegion(r)
        /\ \A r : Serves(o, r) => Serves(o, r)'
        /\ OneMachinePerRegion'
    BY <1>1, <1>3, FleetUpgraded DEF ConvergenceInv
  <1>5. CASE job[o].dryRun
    BY <1>1, <1>4, <1>5 DEF Snapshot, Outcome, ConvergenceInv, SingleOperator
  <1>6. CASE ~job[o].dryRun
    <2>1. /\ seen[o][r0] \in InRegion(r0)
          /\ listed[o][seen[o][r0]].config = machines[seen[o][r0]].config
      BY <1>1, <1>2, <1>6, InEnsure, CurrentIsNew
    <2>2. Serves(o, r0)
      <3>1. machines[seen[o][r0]].config = job[o].config
        BY <1>1, <1>2, <2>1 DEF Matches
      <3>2. QED
        BY <2>1, <3>1 DEF Serves
    <2>3. \/ Ensured(o, seen[o][r0])
          \/ Goto(o, "StartMachine") /\ UNCHANGED result
      BY <1>2 DEF KeepMachine, StartIfStopped
    <2>4. Snapshot(o)' /\ Outcome(o)'
      BY <1>1, <1>2, <1>3, <1>4, <1>6, <2>2, <2>3, ConvergeExisting
    <2>5. QED
      BY <1>4, <2>4 DEF ConvergenceInv, SingleOperator
  <1>7. QED
    BY <1>5, <1>6

\* Starting a machine changes its state only.
LEMMA ConvergeStart ==
    ASSUME SingleOperator, DistinctRegions, TypeOK, ControlInv, ConvergenceInv,
           NEW o \in Operators, StartMachine(o)
    PROVE  ConvergenceInv'
  <1>1. /\ UNCHANGED <<job, seen, listed, logged>>
        /\ pc[o] = "StartMachine" /\ seen[o][Region(o)] # NoId
    BY DEF StartMachine, ControlInv
  <1>2. PICK r0 \in Regions : r0 = Region(o) /\ r0 \in Desired(o)
    BY <1>1, RegionInRange
  <1>3. PICK id \in MachineIds : id = seen[o][r0]
    BY <1>1, <1>2, RegionInRange
  <1>4. PICK reply \in Replies :
            /\ Call(o, id \in Live, reply)
            /\ machines' = IF TakesEffect(o, reply) THEN WithState(id, "started") ELSE machines
            /\ IF reply = "ok" THEN Ensured(o, id) ELSE Abort(o)
    BY <1>2, <1>3 DEF StartMachine
  <1>5. /\ Live' = Live
        /\ \A m \in Live : /\ machines'[m].region = machines[m].region
                           /\ machines'[m].config = machines[m].config
    <2>1. CASE ~TakesEffect(o, reply)
      BY <1>4, <2>1 DEF Live
    <2>2. CASE TakesEffect(o, reply)
      <3>1. id \in Live
        BY <1>4, <2>2 DEF TakesEffect, Call, Answer
      <3>2. /\ machines'[id].state = "started"
            /\ machines'[id].region = machines[id].region
            /\ machines'[id].config = machines[id].config
            /\ \A m \in MachineIds : m # id => machines'[m] = machines[m]
        BY <1>4, <2>2, SetState DEF MachineStates
      <3>3. QED
        BY <3>1, <3>2 DEF Live
    <2>3. QED
      BY <2>1, <2>2
  <1>6. /\ \A r : InRegion(r)' = InRegion(r)
        /\ \A r : Serves(o, r) => Serves(o, r)'
        /\ OneMachinePerRegion'
    BY <1>1, <1>5, FleetUpgraded DEF ConvergenceInv
  <1>7. CASE job[o].dryRun \/ reply # "ok"
    <2>1. job'[o].dryRun \/ pc'[o] = "failed"
      BY <1>1, <1>4, <1>7 DEF Abort, Goto, TypeOK
    <2>2. Snapshot(o)' /\ Outcome(o)'
      BY <2>1 DEF Snapshot, Outcome
    <2>3. QED
      BY <1>6, <2>2 DEF ConvergenceInv, SingleOperator
  <1>8. CASE ~job[o].dryRun /\ reply = "ok"
    <2>1. Serves(o, r0)'
      BY <1>1, <1>2, <1>6, <1>8, InEnsure
    <2>2. \A r \in Desired(o) : r # r0 /\ seen[o][r] # NoId =>
              machines'[seen[o][r]].config = machines[seen[o][r]].config
      BY <1>1, <1>5, <1>8, InEnsure DEF InRegion
    <2>3. Snapshot(o)' /\ Outcome(o)'
      BY <1>1, <1>2, <1>3, <1>4, <1>5, <1>6, <1>8, <2>1, <2>2, ConvergeExisting
    <2>4. QED
      BY <1>6, <2>3 DEF ConvergenceInv, SingleOperator
  <1>9. QED
    BY <1>7, <1>8

\* Waiting changes nothing, and its warnings are not failed destroys.
LEMMA ConvergeWait ==
    ASSUME SingleOperator, TypeOK, ControlInv, ConvergenceInv,
           NEW o \in Operators, WaitForHealthy(o)
    PROVE  ConvergenceInv'
  <1>1. /\ UNCHANGED <<machines, job>>
        /\ pc[o] = "WaitForHealthy"
        /\ pc'[o] \in {"WaitForHealthy", "done"}
        /\ "destroy" \notin logged'[o] => "destroy" \notin logged[o]
    BY DEF WaitForHealthy, Goto, TypeOK, platform
  <1>2. job[o].kind # "destroy"
    BY <1>1 DEF ControlInv, Calls
  <1>3. Live' = Live
    BY <1>1 DEF Live
  <1>4. /\ \A r : Serves(o, r) => Serves(o, r)'
        /\ OneMachinePerRegion'
    BY <1>1, <1>3, FleetUpgraded DEF ConvergenceInv
  <1>5. Desired(o)' = Desired(o)
    BY <1>1 DEF Desired
  <1>6. Snapshot(o)'
    BY <1>1 DEF Snapshot
  <1>7. Outcome(o)'
    <2>1. Outcome(o)
      BY DEF ConvergenceInv
    <2>2. QED
      BY <1>1, <1>2, <1>3, <1>4, <1>5, <2>1 DEF Outcome
  <1>8. QED
    BY <1>4, <1>6, <1>7 DEF ConvergenceInv, SingleOperator

\* A machine that boots, stops or breaks keeps its region and configuration.
LEMMA ConvergeMachine ==
    ASSUME TypeOK, ControlInv, ConvergenceInv, UNCHANGED control, Live' = Live,
           \A m \in Live : /\ machines'[m].region = machines[m].region
                           /\ machines'[m].config = machines[m].config
    PROVE  ConvergenceInv'
  <1>1. UNCHANGED <<pc, job, listed, seen, todo, result, logged>>
    BY DEF control
  <1>2. ASSUME NEW o \in Operators
        PROVE  Snapshot(o)' /\ Outcome(o)' /\ OneMachinePerRegion'
    <2>1. /\ \A r : InRegion(r)' = InRegion(r)
          /\ \A r : Serves(o, r) => Serves(o, r)'
          /\ OneMachinePerRegion'
      BY <1>1, FleetUpgraded DEF ConvergenceInv
    <2>2. /\ Desired(o)' = Desired(o)
          /\ Processed(o)' = Processed(o)
          /\ Region(o)' = Region(o)
      BY <1>1 DEF Desired, Processed, Region
    <2>3. Snapshot(o)'
      <3>1. Snapshot(o)
        BY DEF ConvergenceInv
      <3>2. SUFFICES ASSUME pc[o] \in {"DestroyMachine", "EnsureMachine", "StartMachine"},
                            job[o].kind # "destroy", ~job[o].dryRun
                     PROVE  Snapshot(o)'
        BY <1>1 DEF Snapshot
      <3>3. \A r \in Desired(o) : seen[o][r] # NoId => seen[o][r] \in Live
        BY <3>1, <3>2 DEF Snapshot, InRegion
      <3>4. ASSUME pc[o] = "StartMachine"
            PROVE  Serves(o, Region(o))'
        <4>1. PICK r : r = Region(o) /\ r = Region(o)'
          BY <2>2
        <4>2. Serves(o, r)'
          BY <2>1, <3>1, <3>2, <3>4, <4>1 DEF Snapshot
        <4>3. QED
          BY <4>1, <4>2 DEF Serves, InRegion
      <3>5. \A r \in Desired(o) :
               (/\ seen[o][r] # NoId
                /\ r \notin Processed(o)
                /\ pc[o] = "StartMachine" => r # Region(o))
               => listed[o][seen[o][r]].config = machines'[seen[o][r]].config
        BY <3>1, <3>2, <3>3 DEF Snapshot
      <3>6. /\ \A r \in Regions :
                  seen[o][r] = NoId /\ r \notin Processed(o) => InRegion(r)' = {}
            /\ \A r \in Desired(o) : seen[o][r] # NoId => seen[o][r] \in InRegion(r)'
            /\ \A r \in Processed(o) : Serves(o, r)'
        BY <2>1, <3>1, <3>2 DEF Snapshot
      <3>7. QED
        BY <1>1, <2>2, <3>4, <3>5, <3>6 DEF Snapshot
    <2>4. Outcome(o)'
      <3>1. Outcome(o)
        BY DEF ConvergenceInv
      <3>2. QED
        BY <1>1, <2>1, <2>2, <3>1 DEF Outcome
    <2>5. QED
      BY <2>1, <2>3, <2>4
  <1>3. OneMachinePerRegion'
    BY DEF ConvergenceInv, OneMachinePerRegion
  <1>4. QED
    BY <1>2, <1>3 DEF ConvergenceInv

\* Every step keeps the convergence invariant.
LEMMA ConvergeStep ==
    ASSUME SingleOperator, DistinctRegions, TypeOK, ControlInv, TodoInv, ConvergenceInv,
           [Next]_vars
    PROVE  ConvergenceInv'
  <1>1. ASSUME NEW o \in Operators, Invoke(o) \/ Crash(o)
        PROVE  ConvergenceInv'
    <2>1. machines' = machines
      BY <1>1 DEF Invoke, InvokeDeploy, InvokeAutodeploy, InvokeDestroy, InvokeImagePush, Begin, Crash, platform
    <2>2. pc'[o] \in {"failed", "GetApp", "GetImageApp", "ListMachines", "Build"}
      BY <1>1 DEF Invoke, InvokeDeploy, InvokeAutodeploy, InvokeDestroy, InvokeImagePush,
                    DeployEntry, Begin,
                  Crash, Goto, TypeOK
    <2>3. QED
      BY <2>1, <2>2, OutsideStep
  <1>2. ASSUME NEW o \in Operators,
               \/ GetImageApp(o) \/ CreateImageApp(o) \/ Build(o) \/ Push(o) \/ GetApp(o)
               \/ CreateApp(o) \/ ListIPs(o) \/ AllocateIP(o)
        PROVE  ConvergenceInv'
    <2>1. machines' = machines
      BY <1>2 DEF GetImageApp, CreateImageApp, Build, Push, GetApp, CreateApp, ListIPs,
                  AllocateIP, platform
    <2>2. pc'[o] \in {"CreateImageApp", "Build", "Push", "pushed", "GetApp", "CreateApp", "ListIPs",
                      "AllocateIP", "ListMachines", "failed"}
      BY <1>2 DEF GetImageApp, CreateImageApp, Build, Push, GetApp, CreateApp, ListIPs,
                  AllocateIP, AfterImageApp, AfterPush, Goto, TypeOK
    <2>3. QED
      BY <2>1, <2>2, OutsideStep
  <1>3. ASSUME NEW m \in MachineIds, MachineStep(m)
        PROVE  ConvergenceInv'
    <2>1. PICK s \in {"started", "stopped", "error"} : machines' = WithState(m, s)
      BY <1>3 DEF MachineStep
    <2>2. m \in Live /\ UNCHANGED control
      BY <1>3 DEF MachineStep, Live
    <2>3. /\ machines'[m].state = s
          /\ machines'[m].region = machines[m].region
          /\ machines'[m].config = machines[m].config
          /\ \A n \in MachineIds : n # m => machines'[n] = machines[n]
      BY <2>1, SetState DEF MachineStates
    <2>4. /\ Live' = Live
          /\ \A n \in Live : /\ machines'[n].region = machines[n].region
                             /\ machines'[n].config = machines[n].config
      BY <2>2, <2>3 DEF Live
    <2>5. QED
      BY <2>2, <2>4, ConvergeMachine
  <1>4. CASE UNCHANGED vars
    <2>1. UNCHANGED control /\ machines' = machines
      BY <1>4 DEF vars, platform
    <2>2. QED
      BY <2>1, ConvergeMachine DEF Live
  <1>5. QED
    BY <1>1, <1>2, <1>3, <1>4, ConvergeList, ConvergeDestroy, ConvergeCreate, ConvergeUpdate,
       ConvergeKeep, ConvergeStart, ConvergeWait DEF Next, Step

\* At first no command has seen anything.
LEMMA ConvergenceInit ==
    ASSUME DistinctInventories
    PROVE  Init => TodoInv /\ ConvergenceInv
  <1>1. Init => TodoInv
    BY DEF Init, TodoInv
  <1>2. Init => OneMachinePerRegion
    BY DEF Init, OneMachinePerRegion, Live, DistinctInventories
  <1>3. Init => \A o \in Operators : Snapshot(o) /\ Outcome(o)
    BY DEF Init, Snapshot, Outcome
  <1>4. QED
    BY <1>1, <1>2, <1>3 DEF ConvergenceInv

\* Repeated deploys converge safely: one operator, whose command lines name no
\* region twice, on an app that starts with at most one machine per region,
\* never has two machines in a region, and a Deploy that returns nil leaves the
\* fleet it was asked for.  Calls may fail, replies may be lost, commands may be
\* killed anywhere, and machines may boot, stop and break at any time.
THEOREM Convergence ==
    ASSUME SingleOperator, DistinctRegions, DistinctInventories
    PROVE  Spec => [](OneMachinePerRegion /\ Converged /\ NoStrays)
  <1>1. Init => TodoInv /\ ConvergenceInv
    BY ConvergenceInit
  <1>2. TypeOK /\ ControlInv /\ TodoInv /\ [Next]_vars => TodoInv'
    BY TodoStep
  <1>3. TypeOK /\ ControlInv /\ TodoInv /\ ConvergenceInv /\ [Next]_vars => ConvergenceInv'
    BY ConvergeStep
  <1>4. ConvergenceInv => OneMachinePerRegion /\ Converged /\ NoStrays
    <2>1. ConvergenceInv => Converged
      BY DEF ConvergenceInv, Outcome, Converged, Succeeded, Serves
    <2>2. ConvergenceInv => NoStrays
      BY DEF ConvergenceInv, Outcome, NoStrays, Succeeded
    <2>3. QED
      BY <2>1, <2>2 DEF ConvergenceInv
  <1>5. QED
    BY <1>1, <1>2, <1>3, <1>4, TypeCorrect, PTL DEF Spec

-----------------------------------------------------------------------------
(* Machines that match are left alone.                                     *)

\* Every step keeps dry runs in the dark.
LEMMA DryRunStep ==
    ASSUME TypeOK, DryRunInv, [Next]_vars
    PROVE  DryRunInv'
  <1>1. ASSUME NEW o \in Operators, NEW j, NEW label, Begin(o, j, label)
        PROVE  DryRunInv'
    <2>1. /\ seen'[o] = [r \in Regions |-> NoId]
          /\ \A q \in Operators : q # o =>
                seen'[q] = seen[q] /\ job'[q] = job[q] /\ pc'[q] = pc[q]
      BY <1>1 DEF Begin, Goto, TypeOK
    <2>2. QED
      BY <2>1 DEF DryRunInv
  <1>2. ASSUME NEW o \in Operators, Invoke(o)
        PROVE  DryRunInv'
    BY <1>1, <1>2 DEF Invoke, InvokeDeploy, InvokeAutodeploy, InvokeDestroy, InvokeImagePush
  <1>3. ASSUME NEW o \in Operators, pc[o] \in Calls, NEW label, Goto(o, label), job' = job,
               \A q \in Operators : q # o \/ job[q].dryRun => seen'[q] = seen[q]
        PROVE  DryRunInv'
    <2>1. \A q \in Operators : q # o => pc'[q] = pc[q]
      BY <1>3 DEF Goto, TypeOK
    <2>2. QED
      BY <1>3, <2>1 DEF DryRunInv
  <1>4. ASSUME NEW o \in Operators, ListMachines(o)
        PROVE  DryRunInv'
    <2>1. /\ pc[o] \in Calls /\ job' = job
          /\ \E label : Goto(o, label)
          /\ seen' = seen \/ (~job[o].dryRun /\ \E m : seen' = [seen EXCEPT ![o] = m])
      BY <1>4 DEF ListMachines, Calls
    <2>2. \A q \in Operators : q # o \/ job[q].dryRun => seen'[q] = seen[q]
      BY <2>1 DEF TypeOK
    <2>3. QED
      BY <1>3, <2>1, <2>2
  <1>5. ASSUME NEW o \in Operators,
               \/ GetImageApp(o) \/ CreateImageApp(o) \/ Build(o) \/ Push(o)
               \/ GetApp(o) \/ CreateApp(o) \/ ListIPs(o) \/ AllocateIP(o)
               \/ DestroyMachine(o) \/ CreateMachine(o) \/ UpdateMachine(o)
               \/ KeepMachine(o) \/ StartMachine(o) \/ WaitForHealthy(o) \/ Crash(o)
        PROVE  DryRunInv'
    <2>1. pc[o] \in Calls /\ job' = job /\ seen' = seen
      BY <1>5 DEF GetImageApp, CreateImageApp, Build, Push, GetApp, CreateApp, ListIPs,
                  AllocateIP, DestroyMachine, CreateMachine, UpdateMachine, KeepMachine,
                  StartMachine, WaitForHealthy, Crash, Calls
    <2>2. \E label : Goto(o, label)
      BY <1>5 DEF GetImageApp, CreateImageApp, Build, Push, GetApp, CreateApp, ListIPs,
                  AllocateIP, DestroyMachine, CreateMachine, UpdateMachine, KeepMachine,
                  StartMachine, WaitForHealthy, Crash, StartIfStopped, Ensured, Abort
    <2>3. QED
      BY <1>3, <2>1, <2>2
  <1>6. CASE UNCHANGED control
    BY <1>6 DEF DryRunInv, control
  <1>7. QED
    BY <1>2, <1>4, <1>5, <1>6 DEF Next, Step, MachineStep, vars

\* An update that matches would have been seen: the listing still tells the
\* truth about the machine when its turn comes.
LEMMA UpdateIsNeeded ==
    ASSUME DistinctRegions, GivenEnvs, TypeOK, ControlInv, ConvergenceInv, DryRunInv,
           NEW o \in Operators, UpdateMachine(o)
    PROVE  machines[seen[o][Region(o)]].config # Wire(job[o].config)
  <1>1. pc[o] = "EnsureMachine" /\ seen[o][Region(o)] # NoId /\ ~Matches(o)
    BY DEF UpdateMachine
  <1>2. Region(o) \in Regions /\ Region(o) \in Desired(o) /\ Region(o) \notin Processed(o)
    BY <1>1, RegionInRange, CurrentIsNew
  <1>3. ~job[o].dryRun
    BY <1>1, <1>2 DEF DryRunInv, Calls
  <1>4. listed[o][seen[o][Region(o)]].config = machines[seen[o][Region(o)]].config
    BY <1>1, <1>2, <1>3, InEnsure
  <1>5. Wire(job[o].config) = job[o].config
    BY DEF GivenEnvs, TypeOK, Wire
  <1>6. QED
    BY <1>1, <1>4, <1>5 DEF Matches

\* One operator's deploys, each given some environment, update a machine only
\* if that changes its configuration, though the comparison is with a listing
\* that may be many calls old and calls, replies and commands may be lost.
THEOREM UpdatesChangeSomething ==
    ASSUME SingleOperator, DistinctRegions, DistinctInventories, GivenEnvs
    PROVE  Spec => MatchingLeftAlone
  <1>1. Init => TodoInv /\ ConvergenceInv /\ DryRunInv
    BY ConvergenceInit DEF Init, DryRunInv, Calls
  <1>2. TypeOK /\ ControlInv /\ TodoInv /\ [Next]_vars => TodoInv'
    BY TodoStep
  <1>3. TypeOK /\ ControlInv /\ TodoInv /\ ConvergenceInv /\ [Next]_vars => ConvergenceInv'
    BY ConvergeStep
  <1>4. TypeOK /\ DryRunInv /\ [Next]_vars => DryRunInv'
    BY DryRunStep
  <1>5. TypeOK /\ ControlInv /\ ConvergenceInv /\ DryRunInv /\ [Next]_vars =>
          [\A o \in Operators : UpdateMachine(o) =>
              machines[seen[o][Region(o)]].config # Wire(job[o].config)]_vars
    BY UpdateIsNeeded
  <1>6. QED
    BY <1>1, <1>2, <1>3, <1>4, <1>5, TypeCorrect, PTL DEF Spec, MatchingLeftAlone

-----------------------------------------------------------------------------
(* Several operators: a region never holds more machines than operators.   *)

\* What the counting needs of a step, in terms of a region's machines and
\* armed operators before (A, B) and after it (C, D).
LEMMA CrowdCount ==
    ASSUME IsFiniteSet(Operators), NEW A, NEW B, NEW C, NEW D,
           IsFiniteSet(A), B \subseteq Operators, D \subseteq Operators,
           Cardinality(A) + Cardinality(B) <= Cardinality(Operators),
           \/ C \subseteq A /\ D \subseteq B
           \/ C = {}
           \/ \E m, o : C \subseteq A \cup {m} /\ o \in B /\ D \subseteq B \ {o}
    PROVE  Cardinality(C) + Cardinality(D) <= Cardinality(Operators)
  <1>1. /\ IsFiniteSet(B) /\ IsFiniteSet(D)
        /\ Cardinality(D) <= Cardinality(Operators)
    BY FS_Subset
  <1>2. /\ Cardinality(A) \in Nat /\ Cardinality(B) \in Nat
        /\ Cardinality(D) \in Nat /\ Cardinality(Operators) \in Nat
    BY <1>1, FS_CardinalityType
  <1>3. CASE C \subseteq A /\ D \subseteq B
    <2>1. /\ IsFiniteSet(C) /\ Cardinality(C) <= Cardinality(A)
          /\ Cardinality(D) <= Cardinality(B)
      BY <1>1, <1>3, FS_Subset
    <2>2. QED
      BY <1>2, <2>1, FS_CardinalityType
  <1>4. CASE C = {}
    BY <1>1, <1>2, <1>4, FS_EmptySet
  <1>5. ASSUME NEW m, NEW o, C \subseteq A \cup {m}, o \in B, D \subseteq B \ {o}
        PROVE  Cardinality(C) + Cardinality(D) <= Cardinality(Operators)
    <2>1. IsFiniteSet(A \cup {m}) /\ Cardinality(A \cup {m}) <= Cardinality(A) + 1
      BY <1>2, FS_AddElement
    <2>2. IsFiniteSet(C) /\ Cardinality(C) <= Cardinality(A \cup {m})
      BY <1>5, <2>1, FS_Subset
    <2>3. IsFiniteSet(B \ {o}) /\ Cardinality(B \ {o}) = Cardinality(B) - 1
      BY <1>1, <1>5, FS_RemoveElement
    <2>4. Cardinality(D) <= Cardinality(B \ {o})
      BY <1>5, <2>3, FS_Subset
    <2>5. Cardinality(C) \in Nat /\ Cardinality(A \cup {m}) \in Nat
      BY <2>1, <2>2, FS_CardinalityType
    <2>6. QED
      BY <1>2, <2>1, <2>2, <2>3, <2>4, <2>5
  <1>6. QED
    BY <1>3, <1>4, <1>5

\* No machine enters a region but by CreateMachine.
LEMMA CrowdRegions ==
    ASSUME TypeOK, ControlInv, NEW o \in Operators,
           Invoke(o) \/ Step(o) \/ Crash(o), ~CreateMachine(o), NEW r
    PROVE  InRegion(r)' \subseteq InRegion(r)
  <1>1. CASE machines' = machines
    BY <1>1 DEF InRegion, Live
  <1>2. CASE pc[o] = "EnsureMachine" /\ seen[o][Region(o)] = NoId
    <2>1. machines' = machines
      BY <1>2 DEF Invoke, InvokeDeploy, InvokeAutodeploy, InvokeDestroy, InvokeImagePush,
                  Begin, Ended, Crash, platform, Step, GetImageApp, CreateImageApp, Build,
                  Push, GetApp, CreateApp, ListIPs, AllocateIP, ListMachines, DestroyMachine,
                  UpdateMachine, KeepMachine, StartMachine, WaitForHealthy
    <2>2. QED
      BY <1>1, <2>1
  <1>3. ASSUME NEW n \in Live, NEW told \in {"created", "started", "stopped"},
               machines' = WithConfig(n, Wire(job[o].config), told)
        PROVE  InRegion(r)' \subseteq InRegion(r)
    <2>1. Wire(job[o].config) \in Config
      BY JobShape, WireType
    <2>2. /\ machines'[n].region = machines[n].region
          /\ \A m \in MachineIds : m # n => machines'[m] = machines[m]
      BY <1>3, <2>1, SetConfig DEF Live, MachineStates
    <2>3. QED
      BY <2>2 DEF InRegion, Live
  <1>4. ASSUME NEW n \in Live, NEW s \in {"started", "destroyed"},
               machines' = WithState(n, s)
        PROVE  InRegion(r)' \subseteq InRegion(r)
    <2>1. /\ machines'[n].region = machines[n].region
          /\ \A m \in MachineIds : m # n => machines'[m] = machines[m]
      BY <1>4, SetState DEF Live, MachineStates
    <2>2. QED
      BY <2>1 DEF InRegion, Live
  <1>5. QED
    BY <1>1, <1>2, <1>3, <1>4, FleetStep

\* No operator becomes armed but by ListMachines.
LEMMA CrowdArmed ==
    ASSUME TypeOK, ControlInv, DistinctRegions, NEW o \in Operators,
           Invoke(o) \/ Step(o) \/ Crash(o), ~ListMachines(o), NEW r
    PROVE  Armed(r)' \subseteq Armed(r)
  <1> DEFINE Converging == {"DestroyMachine", "EnsureMachine", "StartMachine"}
  <1>1. ASSUME job' = job, seen' = seen,
               \A q \in Operators : q # o => pc'[q] = pc[q] /\ result'[q] = result[q],
               \/ pc'[o] \notin Converging
               \/ pc[o] \in Converging /\ Processed(o) \subseteq Processed(o)'
        PROVE  Armed(r)' \subseteq Armed(r)
    <2> SUFFICES ASSUME NEW q \in Armed(r)' PROVE q \in Armed(r)
      OBVIOUS
    <2>1. CASE q = o
      BY <1>1, <2>1 DEF Armed, Desired
    <2>2. CASE q # o
      <3>1. q \in Operators
        BY DEF Armed
      <3>2. pc'[q] = pc[q] /\ result'[q] = result[q]
        BY <1>1, <2>2, <3>1
      <3>3. Processed(q)' = Processed(q)
        BY <1>1, <3>2 DEF Processed
      <3>4. QED
        BY <1>1, <3>1, <3>2, <3>3 DEF Armed, Desired
    <2>3. QED
      BY <2>1, <2>2
  <1>2. CASE Invoke(o)
    <2>1. PICK j \in Jobs, label \in {"failed", "GetApp", "GetImageApp", "ListMachines", "Build"} :
              Begin(o, j, label)
      BY <1>2 DEF Invoke, InvokeDeploy, InvokeAutodeploy, InvokeDestroy, InvokeImagePush,
                  DeployEntry
    <2>2. o \notin Armed(r)'
      BY <2>1 DEF Begin, Goto, TypeOK, Armed
    <2>3. ASSUME NEW q \in Operators, q # o
          PROVE  q \in Armed(r)' <=> q \in Armed(r)
      <3>1. /\ pc'[q] = pc[q] /\ job'[q] = job[q]
            /\ seen'[q] = seen[q] /\ result'[q] = result[q]
        BY <2>1, <2>3 DEF Begin, Goto, TypeOK
      <3>2. Processed(q)' = Processed(q) /\ Desired(q)' = Desired(q)
        BY <3>1 DEF Processed, Desired
      <3>3. QED
        BY <3>1, <3>2 DEF Armed
    <2>4. QED
      BY <2>2, <2>3 DEF Armed
  <1>3. CASE \/ GetImageApp(o) \/ CreateImageApp(o) \/ Build(o) \/ Push(o) \/ GetApp(o)
             \/ CreateApp(o) \/ ListIPs(o) \/ AllocateIP(o) \/ Crash(o)
    <2>1. /\ job' = job /\ seen' = seen /\ result' = result
          /\ pc'[o] \notin Converging
          /\ \A q \in Operators : q # o => pc'[q] = pc[q]
      BY <1>3 DEF GetImageApp, CreateImageApp, Build, Push, GetApp, CreateApp, ListIPs,
                  AllocateIP, Crash, AfterImageApp, AfterPush, Goto, TypeOK
    <2>2. QED
      BY <1>1, <2>1
  <1>4. CASE DestroyMachine(o)
    <2>1. /\ job' = job /\ seen' = seen /\ result' = result /\ pc[o] = "DestroyMachine"
          /\ \A q \in Operators : q # o => pc'[q] = pc[q]
      BY <1>4 DEF DestroyMachine, Goto, TypeOK
    <2>2. Processed(o)' = Processed(o)
      BY <2>1 DEF Processed
    <2>3. QED
      BY <1>1, <2>1, <2>2
  <1>5. CASE WaitForHealthy(o)
    <2>1. /\ job' = job /\ seen' = seen
          /\ pc'[o] \notin Converging
          /\ \A q \in Operators : q # o => pc'[q] = pc[q] /\ result'[q] = result[q]
      BY <1>5 DEF WaitForHealthy, Goto, TypeOK
    <2>2. QED
      BY <1>1, <2>1
  <1>6. ASSUME NEW id \in MachineIds \cup {NoId}, Ensured(o, id), job' = job, seen' = seen,
               pc[o] \in {"EnsureMachine", "StartMachine"}
        PROVE  Armed(r)' \subseteq Armed(r)
    <2>1. Processed(o) \subseteq Processed(o)'
      BY <1>6, ProcessedStep
    <2>2. \A q \in Operators : q # o => pc'[q] = pc[q] /\ result'[q] = result[q]
      BY <1>6 DEF Ensured, Goto, TypeOK
    <2>3. QED
      BY <1>1, <1>6, <2>1, <2>2
  <1>7. ASSUME Abort(o), job' = job, seen' = seen
        PROVE  Armed(r)' \subseteq Armed(r)
    BY <1>1, <1>7 DEF Abort, Goto, TypeOK
  <1>8. ASSUME Goto(o, "StartMachine"), job' = job, seen' = seen, result' = result,
               pc[o] = "EnsureMachine"
        PROVE  Armed(r)' \subseteq Armed(r)
    <2>1. Processed(o)' = Processed(o)
      BY <1>8 DEF Processed
    <2>2. \A q \in Operators : q # o => pc'[q] = pc[q]
      BY <1>8 DEF Goto, TypeOK
    <2>3. QED
      BY <1>1, <1>8, <2>1, <2>2
  <1>9. CASE CreateMachine(o) \/ UpdateMachine(o) \/ KeepMachine(o) \/ StartMachine(o)
    <2>1. /\ job' = job /\ seen' = seen
          /\ pc[o] \in {"EnsureMachine", "StartMachine"}
      BY <1>9 DEF CreateMachine, UpdateMachine, KeepMachine, StartMachine
    <2>2. seen[o][Region(o)] \in MachineIds \cup {NoId}
      BY <2>1, RegionInRange
    <2>3. \/ Abort(o)
          \/ \E id \in MachineIds \cup {NoId} : Ensured(o, id)
          \/ pc[o] = "EnsureMachine" /\ Goto(o, "StartMachine") /\ result' = result
      BY <1>9, <2>2 DEF CreateMachine, UpdateMachine, KeepMachine, StartMachine,
                        StartIfStopped, Absent
    <2>4. QED
      BY <1>6, <1>7, <1>8, <2>1, <2>3
  <1>10. QED
    BY <1>2, <1>3, <1>4, <1>5, <1>9 DEF Step

\* A listing arms its operator only for regions that are empty.
LEMMA CrowdList ==
    ASSUME TypeOK, ControlInv, NEW o \in Operators, ListMachines(o), NEW r \in Regions
    PROVE  /\ InRegion(r)' = InRegion(r)
           /\ Armed(r)' \subseteq Armed(r) \/ InRegion(r) = {}
  <1>1. UNCHANGED <<machines, job, result>>
    BY DEF ListMachines, platform
  <1>2. ASSUME NEW q \in Operators, q # o
        PROVE  q \in Armed(r)' <=> q \in Armed(r)
    <2>1. pc'[q] = pc[q] /\ seen'[q] = seen[q]
      BY <1>2 DEF ListMachines, Goto, TypeOK
    <2>2. Processed(q)' = Processed(q) /\ Desired(q)' = Desired(q)
      BY <1>1 DEF Processed, Desired
    <2>3. QED
      BY <1>1, <2>1, <2>2 DEF Armed
  <1>3. ASSUME o \in Armed(r)', InRegion(r) # {}
        PROVE  FALSE
    <2>1. ~job[o].dryRun /\ pc'[o] # "failed" /\ seen'[o][r] = NoId
      BY <1>1, <1>3 DEF Armed
    <2>2. PICK m \in [Regions -> MachineIds \cup {NoId}] :
              ByRegion(m) /\ seen' = [seen EXCEPT ![o] = m]
      BY <2>1 DEF ListMachines, Goto, TypeOK
    <2>3. m[r] \in InRegion(r) /\ seen'[o] = m
      BY <1>3, <2>2 DEF ByRegion, TypeOK
    <2>4. QED
      BY <2>1, <2>3, ConstantsAssumption DEF InRegion, Live
  <1>4. InRegion(r)' = InRegion(r)
    BY <1>1 DEF InRegion, Live
  <1>5. QED
    BY <1>2, <1>3, <1>4 DEF Armed

\* Creating a machine uses up the operator's right to.
LEMMA CrowdCreate ==
    ASSUME TypeOK, ControlInv, DistinctRegions, NEW o \in Operators, CreateMachine(o),
           NEW r \in Regions
    PROVE  \/ InRegion(r)' \subseteq InRegion(r)
           \/ /\ \E m : InRegion(r)' \subseteq InRegion(r) \cup {m}
              /\ o \in Armed(r) /\ o \notin Armed(r)'
  <1>1. /\ job' = job /\ seen' = seen
        /\ pc[o] = "EnsureMachine" /\ seen[o][Region(o)] = NoId
    BY DEF CreateMachine
  <1>2. PICK reply \in Replies :
            /\ \/ Abort(o) \/ \E id \in MachineIds \cup {NoId} : Ensured(o, id)
            /\ IF TakesEffect(o, reply)
               THEN \E m \in Absent :
                      machines' = [machines EXCEPT ![m] =
                          [region |-> Region(o), state |-> "created",
                           config |-> Wire(job[o].config)]]
               ELSE machines' = machines
    BY DEF CreateMachine, Absent
  <1>3. CASE ~TakesEffect(o, reply)
    BY <1>2, <1>3 DEF InRegion, Live
  <1>4. CASE TakesEffect(o, reply)
    <2>1. PICK m \in Absent :
              machines' = [machines EXCEPT ![m] =
                  [region |-> Region(o), state |-> "created",
                   config |-> Wire(job[o].config)]]
      BY <1>2, <1>4
    <2>2. /\ machines'[m].region = Region(o)
          /\ \A n \in MachineIds : n # m => machines'[n] = machines[n]
      BY <2>1 DEF Absent, TypeOK
    <2>3. CASE r # Region(o)
      BY <2>2, <2>3 DEF InRegion, Live
    <2>4. CASE r = Region(o)
      <3>1. InRegion(r)' \subseteq InRegion(r) \cup {m}
        BY <2>2 DEF InRegion, Live
      <3>2. o \in Armed(r)
        <4>1. job[o].kind # "destroy"
          BY <1>1 DEF ControlInv, Calls
        <4>2. r \in Desired(o) /\ r \notin Processed(o)
          BY <1>1, <2>4, RegionInRange, CurrentIsNew
        <4>3. QED
          BY <1>1, <1>4, <2>4, <4>1, <4>2 DEF Armed, TakesEffect
      <3>3. CASE Abort(o)
        <4>1. pc'[o] = "failed"
          BY <3>3 DEF Abort, Goto, TypeOK
        <4>2. QED
          BY <3>1, <3>2, <4>1 DEF Armed
      <3>4. ASSUME NEW id \in MachineIds \cup {NoId}, Ensured(o, id)
            PROVE  o \notin Armed(r)'
        <4>1. Processed(o)' = Processed(o) \cup {Region(o)}
          BY <1>1, <3>4, ProcessedStep
        <4>2. QED
          BY <2>4, <4>1 DEF Armed
      <3>5. QED
        BY <1>2, <3>1, <3>2, <3>3, <3>4
    <2>5. QED
      BY <2>3, <2>4
  <1>5. QED
    BY <1>3, <1>4

\* Every step keeps the count.
LEMMA CrowdStep ==
    ASSUME IsFiniteSet(Operators), IsFiniteSet(MachineIds), DistinctRegions,
           TypeOK, ControlInv, CrowdInv, [Next]_vars
    PROVE  CrowdInv'
  <1> SUFFICES ASSUME NEW r \in Regions
               PROVE  Cardinality(InRegion(r)') + Cardinality(Armed(r)')
                         <= Cardinality(Operators)
    BY DEF CrowdInv
  <1>1. /\ IsFiniteSet(InRegion(r))
        /\ Armed(r) \subseteq Operators /\ Armed(r)' \subseteq Operators
        /\ Cardinality(InRegion(r)) + Cardinality(Armed(r)) <= Cardinality(Operators)
    <2>1. InRegion(r) \in SUBSET MachineIds
      BY DEF InRegion, Live
    <2>2. IsFiniteSet(InRegion(r))
      BY <2>1, FS_Subset
    <2>3. QED
      BY <2>2 DEF CrowdInv, Armed
  <1>2. \/ InRegion(r)' \subseteq InRegion(r) /\ Armed(r)' \subseteq Armed(r)
        \/ InRegion(r)' = {}
        \/ \E m, o : /\ InRegion(r)' \subseteq InRegion(r) \cup {m}
                     /\ o \in Armed(r) /\ Armed(r)' \subseteq Armed(r) \ {o}
    <2>1. ASSUME NEW o \in Operators, Invoke(o) \/ Step(o) \/ Crash(o),
                 ~CreateMachine(o), ~ListMachines(o)
          PROVE  InRegion(r)' \subseteq InRegion(r) /\ Armed(r)' \subseteq Armed(r)
      BY <2>1, CrowdRegions, CrowdArmed
    <2>2. ASSUME NEW o \in Operators, ListMachines(o)
          PROVE  \/ InRegion(r)' \subseteq InRegion(r) /\ Armed(r)' \subseteq Armed(r)
                 \/ InRegion(r)' = {}
      BY <2>2, CrowdList
    <2>3. ASSUME NEW o \in Operators, CreateMachine(o)
          PROVE  \/ InRegion(r)' \subseteq InRegion(r) /\ Armed(r)' \subseteq Armed(r)
                 \/ \E m : /\ InRegion(r)' \subseteq InRegion(r) \cup {m}
                           /\ o \in Armed(r) /\ Armed(r)' \subseteq Armed(r) \ {o}
      <3>1. ~ListMachines(o) /\ Step(o)
        BY <2>3 DEF CreateMachine, ListMachines, Step
      <3>2. Armed(r)' \subseteq Armed(r)
        BY <3>1, CrowdArmed
      <3>3. QED
        BY <2>3, <3>2, CrowdCreate
    <2>4. ASSUME NEW m \in MachineIds, MachineStep(m)
          PROVE  InRegion(r)' \subseteq InRegion(r) /\ Armed(r)' \subseteq Armed(r)
      <3>1. PICK s \in {"started", "stopped", "error"} : machines' = WithState(m, s)
        BY <2>4 DEF MachineStep
      <3>2. m \in Live /\ UNCHANGED control
        BY <2>4 DEF MachineStep, Live
      <3>3. /\ machines'[m].region = machines[m].region
            /\ \A n \in MachineIds : n # m => machines'[n] = machines[n]
        BY <3>1, SetState DEF MachineStates
      <3>4. InRegion(r)' \subseteq InRegion(r)
        BY <3>2, <3>3 DEF InRegion, Live
      <3>5. QED
        BY <3>2, <3>4 DEF Armed, Desired, Processed, control
    <2>5. CASE UNCHANGED vars
      BY <2>5 DEF vars, platform, control, InRegion, Live, Armed, Desired, Processed
    <2>6. QED
      BY <2>1, <2>2, <2>3, <2>4, <2>5 DEF Next, Step
  <1>3. ASSUME NEW A, NEW B, NEW C, NEW D,
               A = InRegion(r), B = Armed(r), C = InRegion(r)', D = Armed(r)'
        PROVE  Cardinality(C) + Cardinality(D) <= Cardinality(Operators)
    <2>1. /\ IsFiniteSet(A) /\ B \subseteq Operators /\ D \subseteq Operators
          /\ Cardinality(A) + Cardinality(B) <= Cardinality(Operators)
      BY <1>1, <1>3
    <2>2. \/ C \subseteq A /\ D \subseteq B
          \/ C = {}
          \/ \E m, o : C \subseteq A \cup {m} /\ o \in B /\ D \subseteq B \ {o}
      BY <1>2, <1>3
    <2>3. QED
      BY <2>1, <2>2, CrowdCount
  <1>4. QED
    BY <1>3

\* However many operators deploy and destroy at once, fail and are killed, no
\* region ever holds more machines than there are operators, provided that no
\* command line names a region twice and no region held two to begin with.
THEOREM AtMostOnePerOperator ==
    ASSUME IsFiniteSet(Operators), Operators # {}, IsFiniteSet(MachineIds),
           DistinctRegions, DistinctInventories
    PROVE  Spec => []AtMostOneEach
  <1>1. Init => CrowdInv
    <2> SUFFICES ASSUME Init, NEW r \in Regions
                 PROVE  Cardinality(InRegion(r)) + Cardinality(Armed(r))
                           <= Cardinality(Operators)
      BY DEF CrowdInv
    <2>1. Armed(r) = {}
      BY DEF Init, Armed
    <2>2. InRegion(r) = {} \/ \E m : InRegion(r) = {m}
      BY DEF Init, InRegion, Live, DistinctInventories
    <2>3. Cardinality(InRegion(r)) \in {0, 1}
      BY <2>2, FS_EmptySet, FS_Singleton
    <2>4. Cardinality(Operators) \in Nat /\ Cardinality(Operators) # 0
      BY FS_CardinalityType, FS_EmptySet
    <2>5. QED
      BY <2>1, <2>3, <2>4, FS_EmptySet
  <1>2. TypeOK /\ ControlInv /\ CrowdInv /\ [Next]_vars => CrowdInv'
    BY CrowdStep
  <1>3. CrowdInv => AtMostOneEach
    <2> SUFFICES ASSUME CrowdInv, NEW r \in Regions
                 PROVE  Cardinality(InRegion(r)) <= Cardinality(Operators)
      BY DEF AtMostOneEach
    <2>1. /\ InRegion(r) \in SUBSET MachineIds /\ Armed(r) \in SUBSET Operators
          /\ Cardinality(InRegion(r)) + Cardinality(Armed(r)) <= Cardinality(Operators)
      BY DEF CrowdInv, InRegion, Live, Armed
    <2>2. IsFiniteSet(InRegion(r)) /\ IsFiniteSet(Armed(r))
      BY <2>1, FS_Subset
    <2>3. /\ Cardinality(InRegion(r)) \in Nat /\ Cardinality(Armed(r)) \in Nat
          /\ Cardinality(Operators) \in Nat
      BY <2>2, FS_CardinalityType
    <2>4. QED
      BY <2>1, <2>3
  <1>4. QED
    BY <1>1, <1>2, <1>3, TypeCorrect, PTL DEF Spec
=============================================================================
