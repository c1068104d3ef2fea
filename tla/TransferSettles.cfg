CONSTANTS
    None = None
    j1 = j1
    j2 = j2
    Name = {"a"}
    FileName = {"a", "a.part"}
    Part <- MCPart
    Byte = {0, 1}
    Size <- MCSize
    Payload <- MCPayload
    Digest <- MCDigest
    Sha256 <- MCSha256
    MaxPayload = 2
    File <- MCFiles
    ChunkSize = 2
    Altered <- MCAltered
    JobId = {j1}
    Faults = {"send"}
    Disturbances = {"timeout", "hide", "unreadable", "overlong"}
    MaxSessions = 2
SPECIFICATION FairSpec
CHECK_DEADLOCK FALSE
PROPERTIES
    SenderSettles
    ReceiverSettles
    CalmDelivers
