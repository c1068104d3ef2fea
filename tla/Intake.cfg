CONSTANTS
    None = None
    Base = 14
    Magic <- MCMagic
    Sha256Bytes = 2
    FilenameMax = 5
    MessageMax = 30
    FrameMax = 20
    Forbidden = {0, 1, 12}
    Dot = 2
    Space = 3
    Underscore = 4
    Backslash = 1
    Slash = 12
    Upper <- MCUpper
    Device <- MCDevice
    NumberedDevice <- MCNumberedDevice
    Digit1to9 = {7}
    Lead = {10}
    Continuation = {11, 13}
    Fallback <- MCFallback
    PartSuffix <- MCPartSuffix
    HexDigit = {7}
    JobIdChars = 1
    PathCapacity = 15
    Utf8 <- MCUtf8
    Wide <- MCWide
    Request <- MCRequest
    Root <- MCRoot
    Foreign <- MCForeign
    ForeignAnswer <- MCForeignAnswer
    Count <- MCCount
SPECIFICATION Spec
CHECK_DEADLOCK FALSE
INVARIANTS
    PageIsUnderstood
    AckIsUnderstood
    OneEncoding
    NameIsSafe
    SinkAgrees
    PageFileIsTaken
