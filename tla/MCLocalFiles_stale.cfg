SPECIFICATION LSpec
CONSTANTS
    MaxDocs = 3
    Host <- MCHost
    Filters <- MCFilters
    Inside <- MCInside
    Refused = {"key"}
    Changing = {"a"}
INVARIANT LoadedIsOurs
