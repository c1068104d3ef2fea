CONSTANTS
    None = None
    Id = {i1}
    Secret = {k1}
    Registration = {g1}
    Receiver = {r1}
    Sender = {s1, s2}
    TTL = 1
    MaxTime = 2
SPECIFICATION FairSpec
CHECK_DEADLOCK FALSE
PROPERTIES
    ExpiredSessionEnds
    CancelledBridgeEnds
INVARIANTS
    OneSenderAtATime
    SecondSenderIsDoomed
