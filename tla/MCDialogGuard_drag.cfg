SPECIFICATION Spec
CONSTANTS
  s1 = s1
  s2 = s2
  Sessions = {s1}
  Tools = {"drag"}
  MaxCalls = 2
  MaxDialogs = 2
INVARIANT CallHearsItsDialog
CHECK_DEADLOCK FALSE
