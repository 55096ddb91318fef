CONSTANTS
    Fetchers = {"f"}
    Times <- MCTimes
    Zones <- MCZones
    MaxMessages = 3
    MaxDisconnects = 0
    MaxRuns = 1
SPECIFICATION Safety
INVARIANT SameDaySameFile
CHECK_DEADLOCK FALSE
