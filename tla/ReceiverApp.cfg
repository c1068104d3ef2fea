CONSTANTS
    Faults = {"prepare", "thread", "url", "curl", "register", "connect", "handler", "post", "timer"}
    MaxSessions = 3
    MaxQueue = 4
SPECIFICATION FairSpec
CHECK_DEADLOCK FALSE
INVARIANTS
    SessionNotShared
    NoStaleMessage
    CredentialsWiped
    ReadyMeansListening
    OutcomeShown
PROPERTY
    Rotates
