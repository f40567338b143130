SPECIFICATION FairSpec
CONSTANTS
    Requests = {r1, r2}
    Atoi <- MCAtoi
    Environments <- MCEnvironments
    CommandFlags <- MCCommandFlags
    ExtraEnvs <- MCExtraEnvs
INVARIANTS
    NoOpenSockets
    ReportsCause
    OpensOnlyValid
    StartsAsDeployed
PROPERTIES
    Stops
CHECK_DEADLOCK FALSE
