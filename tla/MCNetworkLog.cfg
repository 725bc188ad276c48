SPECIFICATION Spec
CONSTANTS
  Requests = {r1, r2, r3}
  MaxHops = 2
  MaxNetworkRequests = 2
INVARIANTS TableWithinBuffer RecordsAreTrue
SYMMETRY Symmetric
CHECK_DEADLOCK FALSE
