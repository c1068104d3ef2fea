CONSTANTS
    None = None
    j1 = j1
    j2 = j2
    Name = {"a"}
    FileName = {"a", "a.part"}
    Part <- MCPart
    Byte = {0, 1}
    Size <- MCSize
    Payload <- MCPayload
    Digest <- MCDigest
    Sha256 <- MCSha256
    MaxPayload = 2
    File <- MCFile
    ChunkSize = 2
    Altered <- MCAltered
    JobId = {j1, j2}
    Faults = {"write", "hash", "flush", "send"}
    Disturbances = {"break", "exit", "power", "timeout", "hide", "altered", "unreadable", "overlong"}
    MaxSessions = 2
SPECIFICATION Spec
CHECK_DEADLOCK FALSE
INVARIANTS
    SentMeansDelivered
    LockStep
