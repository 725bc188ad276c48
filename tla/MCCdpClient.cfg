SPECIFICATION FairSpec
CONSTANTS
  Calls = {"timed", "plain", "broken"}
  Bounded = {"timed"}
  Unencodable = {"broken"}
  Results <- MCResults
  MaxWire = 1
INVARIANTS OwnReply NoOrphan NoLeak
PROPERTIES CloseUnblocks ImplementsCallSpec
CHECK_DEADLOCK FALSE
