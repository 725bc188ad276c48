SPECIFICATION Spec
CONSTANTS
  Pages = {"p1"}
  MaxRecordings = 2
  MaxSent = 2
  FrameLimits = {1, 2}
  MaxBytes = 1
  Window = 1
INVARIANTS LimitsAreKept RecordingsAreSeparate NoRootLeak
CHECK_DEADLOCK FALSE
