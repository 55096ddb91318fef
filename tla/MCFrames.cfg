CONSTANTS
    MaxConnections = 2
    MaxMessages = 2
    MaxPackets = 2
    Texts <- MCTexts
    Counts <- MCCounts
    MaxCounts = 1
    Command <- MCCommand
SPECIFICATION FramesSafety
INVARIANTS
    TypeOK
    StatusFollowsSession
    LogInOrder
    LiveExactlyOnce
    OpenSaidHello
    FramesTypeOK
    PacketsRead
CHECK_DEADLOCK FALSE
