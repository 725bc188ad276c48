SPECIFICATION SFairSpec
CONSTANTS
    Modes = {"temp", "persistent", "attach"}
    MaxLaunches = 3
    MaxBackground = 2
    MaxRead = 3
INVARIANTS RemovedAfterExit NothingLeft EachAnsweredOnce
PROPERTIES RequestsAnswered StopEnds
CHECK_DEADLOCK FALSE
