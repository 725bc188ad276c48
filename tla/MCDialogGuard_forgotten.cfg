SPECIFICATION Spec
CONSTANTS
  s1 = s1
  s2 = s2
  Sessions = {s1}
  Tools = {"handle_dialog"}
  MaxCalls = 2
  MaxDialogs = 2
INVARIANT DialogsTracked
CHECK_DEADLOCK FALSE
