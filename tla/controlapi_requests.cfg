SPECIFICATION APISpec
CONSTANTS
    UserIDs <- MCUserIDs
    Requested = {0, 3, 8}
    DefaultValidity = 4
    Second = 3
    HalfRange = 5
    SharedSecret <- MCSharedSecret
    Realm = "realm"
    MaxNow = 12
    MaxIssued = 1
    Requests = {r1, r2}
    Codes = {"iad"}
    Hosts = {"host"}
    NoHost = ""
    OtherChecks = {"turn"}
    Findings = {"healthy", "unhealthy"}
    MaxChanges = 2
SYMMETRY MCRequests
INVARIANTS
    HonestTTL
    ExpiresOnTime
    FreshStatus
