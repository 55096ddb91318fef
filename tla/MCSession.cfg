CONSTANTS
    MaxConnections = 2
    MaxMessages = 1
    MaxPackets = 1
    RoomIds = {1}
    EveryTick = 1
    MaxFetchers = 2
SPECIFICATION SessionSafety
INVARIANTS
    SessionTypeOK
    ParsedExactlyOnce
    ClosedComesLast
    OneLiveConnection
PROPERTY FailedIsFinal
CHECK_DEADLOCK FALSE
