CONSTANTS
    None = None
    Id = {i1}
    Secret = {k1}
    Registration = {g1}
    Receiver = {r1}
    Sender = {s1, s2}
    TTL = 1
    MaxTime = 1
SPECIFICATION Spec
CHECK_DEADLOCK FALSE
INVARIANT
    OneSenderPerReceiver
