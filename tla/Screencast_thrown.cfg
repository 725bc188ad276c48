SPECIFICATION Spec
CONSTANTS
  Pages = {"p1"}
  MaxRecordings = 1
  MaxSent = 1
  FrameLimits = {2}
  MaxBytes = 2
  Window = 1
INVARIANT NoFramesToThrowAway
CHECK_DEADLOCK FALSE
