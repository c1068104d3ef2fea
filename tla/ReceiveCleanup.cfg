CONSTANTS
    None = None
    j1 = j1
    JobId <- MCJobId
    Name <- MCName
    FileName <- MCFileName
    Part <- MCPart
    Byte <- MCByte
    Size <- MCSize
    Payload <- MCPayload
    Digest <- MCDigest
    Sha256 <- MCSha256
    MaxPayload = 2
    Faults = {"init", "create", "hash", "write", "flush", "close", "move", "send"}
SPECIFICATION FairSpec
INVARIANT
    ReleasedAtEnd
PROPERTY
    FrameIsAnswered
