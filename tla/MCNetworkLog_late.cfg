SPECIFICATION Spec
CONSTANTS
  Requests = {r1, r2, r3}
  MaxHops = 2
  MaxNetworkRequests = 2
PROPERTY FailuresAreTold
CHECK_DEADLOCK FALSE
