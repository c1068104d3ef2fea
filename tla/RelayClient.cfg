CONSTANTS
    Message <- MCMessage
    Answer <- MCAnswer
    Ping <- MCPing
    Magic = 9
    HeaderSize = 2
    MaxMessage = 4
    Faults = {"init", "stall", "curl"}
    MaxSent = 3
    MaxWire = 2
SPECIFICATION FairSpec
CHECK_DEADLOCK FALSE
INVARIANTS
    ReceivedInOrder
    AnswersWhole
    GoodMessagesAccepted
PROPERTY
    MessageArrives
