CONSTANTS
    Fetchers = {"f"}
    Texts = {"a", "b"}
    Patterns = {"a", "."}
    find <- MCfind
    search <- MCsearch
    Page = 1
    MaxMessages = 2
    MaxFilters = 1
SPECIFICATION Safety
INVARIANT RegexFilters
CHECK_DEADLOCK FALSE
