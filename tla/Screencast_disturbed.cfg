SPECIFICATION Spec
CONSTANTS
  Pages = {"p1"}
  MaxRecordings = 2
  MaxSent = 1
  FrameLimits = {2}
  MaxBytes = 2
  Window = 1
INVARIANT CollectingIsCast
CHECK_DEADLOCK FALSE
