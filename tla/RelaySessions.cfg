CONSTANTS
    None = None
    Id = {i1}
    Secret = {k1, k2}
    Registration = {g1, g2}
    Receiver = {r1, r2}
    Sender = {s1}
    TTL = 1
    MaxTime = 2
SPECIFICATION Spec
SYMMETRY Symmetric
CHECK_DEADLOCK FALSE
INVARIANTS
    LiveBridgeIsReachable
PROPERTY
    KeptUntilExpiry
