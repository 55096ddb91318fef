CONSTANTS
    MaxConnections = 1
    MaxMessages = 2
    MaxPackets = 1
    RoomIds = {1}
    EveryTick = 1
    MaxFetchers = 2
SPECIFICATION SessionSpec
PROPERTIES
    QuitEndsPolling
    FirstIsShown
CHECK_DEADLOCK FALSE
