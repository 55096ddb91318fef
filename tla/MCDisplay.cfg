CONSTANTS
    Fetchers = {"f"}
    Texts = {"a", "b"}
    Patterns = {"a", "."}
    find <- MCfind
    search <- MCsearch
    Page = 1
    MaxMessages = 3
    MaxFilters = 2
SPECIFICATION Spec
INVARIANTS
    DisplayTypeOK
    NoMatchMissed
    IdsIncrease
    FollowsNewest
PROPERTIES
    RowsAreListed
    ParseReturns
CHECK_DEADLOCK FALSE
