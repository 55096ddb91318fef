CONSTANTS
    Fetchers = {"f"}
    Times <- MCTimes
    Zones <- MCZones
    MaxMessages = 3
    MaxDisconnects = 2
    MaxRuns = 2
SPECIFICATION Safety
INVARIANTS
    HistoryTypeOK
    FormatOfFile
    EveryRowSaved
    ReopensAfterDisconnect
    HeaderOnTop
CHECK_DEADLOCK FALSE
