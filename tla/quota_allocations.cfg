SPECIFICATION Spec
CONSTANTS
    Users <- MCUsers
    Addresses <- MCAddresses
    Slots = {s1, s2, s3, s4}
    MaxPerUser = 3
    MaxPerIP = 2
    u1 = u1
    u2 = u2
    i1 = i1
    i2 = i2
INVARIANTS
    TypeOK
    NoLostShare
    Exact
PROPERTIES
    ImplementsPool
