CONSTANTS
    MaxConnections = 2
    MaxMessages = 0
    MaxPackets = 1
    RoomIds = {1}
    EveryTick = 2
SPECIFICATION LivingSpec
INVARIANTS
    RoomTypeOK
    OpenHasHeartBeat
PROPERTIES
    ClosedStopsHeartBeats
    OpenKeepsBeating
CHECK_DEADLOCK FALSE
