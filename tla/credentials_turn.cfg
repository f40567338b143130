SPECIFICATION Spec
CONSTANTS
    UserIDs <- MCUserIDs
    Requested <- MCRequested
    DefaultValidity = 6
    Second = 3
    HalfRange = 10
    SharedSecret <- MCSharedSecret
    Realm = "realm"
    MaxNow = 15
    MaxIssued = 2
INVARIANT AcceptedByTurn
