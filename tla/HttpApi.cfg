CONSTANTS
  MaxRequests = 2
  MaxCuts = 1
  Parts = 2
  MaxOpen = 0
  MaxSend = 1
  MaxReceive = 2
  MaxClose = 0
SPECIFICATION HttpSpec
INVARIANT Balanced
PROPERTY BodyIsExact
PROPERTY WaitsEnd
CHECK_DEADLOCK FALSE
