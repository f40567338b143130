SPECIFICATION Spec
CONSTANTS
    Keys = {k1, k2}
    Rate = 1
    Cost = 2
    Burst = 2
    CleanupInterval = 2
    Slip = 1
    MaxNow = 6
    MaxAdmits = 4
INVARIANTS
    TypeOK
    RateAndBurst
PROPERTIES
    ImplementsTokenBucket
