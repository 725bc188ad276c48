SPECIFICATION FairSpec
CONSTANTS
  Pages = {"p1"}
  MaxRecordings = 1
  MaxSent = 2
  FrameLimits = {2}
  MaxBytes = 2
  Window = 1
PROPERTIES DeadlineEndsCollection FramesAcknowledged
CHECK_DEADLOCK FALSE
