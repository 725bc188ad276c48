SPECIFICATION FairSpec
CONSTANTS
  s1 = s1
  s2 = s2
  Sessions = {s1}
  Tools = {"press_key", "drag", "handle_dialog"}
  MaxCalls = 3
  MaxDialogs = 2
INVARIANT TypeOK
PROPERTY ToolEnds
CHECK_DEADLOCK FALSE
