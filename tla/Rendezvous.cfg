CONSTANTS
    None = None
    Zeroed = Zeroed
    Token = {t1, t2}
    Secret = {k1, k2}
    Host <- MCHost
    HostLength <- MCHostLength
    DefaultHost = "d"
    NotUtf8 = {"x"}
    Base <- MCBase
    Ttl = {0, 1, 2}
    SessionTtl = 1
    ClockMax = 2
SPECIFICATION Spec
CHECK_DEADLOCK FALSE
INVARIANTS
    ListensWhenUsable
    NothingInClear
    LinkLeadsHere
    OverMatchesNothing
PROPERTIES
    NoLateTransfer
