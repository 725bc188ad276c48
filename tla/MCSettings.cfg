SPECIFICATION CSpec
CONSTANTS
    Overrides = {"on"}
    Keys = {"viewport", "attach", "profile", "allow_hosts", "headless"}
    FlagSets <- MCFlagSets
    Lists <- MCLists
    Strings <- MCStrings
    MaxLines = 2
INVARIANTS StartsAsConfigured AppliedIsEffective
CHECK_DEADLOCK FALSE
