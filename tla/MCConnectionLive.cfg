CONSTANTS
    MaxConnections = 2
    MaxMessages = 1
    MaxPackets = 1
SPECIFICATION Spec
PROPERTIES
    FeedSpec
    CloseIsReported
    DestructorReturns
CHECK_DEADLOCK FALSE
