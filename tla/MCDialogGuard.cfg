SPECIFICATION Spec
CONSTANTS
  s1 = s1
  s2 = s2
  Sessions <- Pages
  Tools = {"click", "drag", "handle_dialog"}
  MaxCalls = 3
  MaxDialogs = 2
SYMMETRY Swap
INVARIANTS NoPhantomDialog GuardHearsItsDialog CallsAreSeparate
CHECK_DEADLOCK FALSE
