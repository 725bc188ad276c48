SPECIFICATION Spec
CONSTANTS
  Requests = {r1, r2, r3}
  MaxHops = 2
  MaxNetworkRequests = 2
INVARIANT ReportIsARecordState
SYMMETRY Symmetric
CHECK_DEADLOCK FALSE
