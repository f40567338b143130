SPECIFICATION FairSpec
CONSTANTS
    Forwarders = {f1}
    IDs = {s1, s2}
    Nil = nil
    Lengths = {3, 4}
    Incoming <- MCIncoming
    EnableDatagrams = TRUE
    HeaderSize = 2
    MaxPayloadSize = 3
    LengthRange = 4
    Timeout = 1
    Slip = 1
    MaxDatagrams = 2
    MaxForwards = 2
INVARIANTS
    InOnce
    RecordsRegistered
    RoundTrip
    NoOpenTunnel
PROPERTIES
    GCSpares
    Stops
    Forgotten
CHECK_DEADLOCK FALSE
