SPECIFICATION Spec
CONSTANTS
  s1 = s1
  s2 = s2
  Sessions = {s1}
  Tools = {"press_key"}
  MaxCalls = 2
  MaxDialogs = 2
INVARIANT NoSilentWait
CHECK_DEADLOCK FALSE
