SPECIFICATION Spec
CONSTANTS
    Operators = {alice}
    Regions <- MCRegions
    Images <- MCImages
    Envs <- MCEnvs
    EmptyEnv = emptyEnv
    NilEnv = nilEnv
    MachineIds <- MCMachineIds
    NoId = noId
    Jobs <- NoEnvJobs
    Inventories <- NoMachines
    InitialIPs <- NoAddresses
    MaxCommands = 2
    MaxFaults = 0
    r1 = r1
    r2 = r2
    m1 = m1
    m2 = m2
    m3 = m3
    v1 = v1
    v2 = v2
    secret1 = secret1
    secret2 = secret2
PROPERTIES
    MatchingLeftAlone
CHECK_DEADLOCK FALSE
