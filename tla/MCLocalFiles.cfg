SPECIFICATION LFairSpec
CONSTANTS
    MaxDocs = 3
    Host <- MCHost
    Filters <- MCFilters
    Inside <- MCInside
    Refused = {"key"}
    Changing = {"a"}
INVARIANTS LoadIsNotMissed WorksOnOpened
PROPERTIES TimeoutsAreReal ShowsOnlyOpened BlockedOnlyByPlace LoadsAreJudged
