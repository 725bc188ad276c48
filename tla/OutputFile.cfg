SPECIFICATION FileSpec
CONSTANT MaxChanges = 2
INVARIANTS StaysInRoot TargetIsWhole NothingLeftBehind LandsWhereReported
CHECK_DEADLOCK FALSE
