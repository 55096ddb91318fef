CONSTANTS
    Keys <- MCKeys
    Default <- MCDefault
    Values = {"w", "other", "white", "red", "system", "zone", "zo", "1", "3", "on", "off", "csv", "", "x"}
    Contents <- MCContents
    Colors = {"red", "white"}
    Sheets = {"a", "b"}
    Listed = {"system", "zone"}
    Typed = {"zo"}
    Finds <- MCFinds
    Levels = {"1", "3"}
    Edits = {"", "x"}
    Visits <- MCVisits
    Offers <- MCOffers
    Rooms = {0, 1}
    Lines = {"", "t", "u"}
    Surrogates = {"u"}
SPECIFICATION CommandsSafety
INVARIANTS
    CommandsTypeOK
    CredentialsWhole
    RoundTrip
    CheckedIsSent
    MenuInStep
PROPERTIES
    DefaultsComplete
    ChosenStays
    ClearedWhenTaken
