CONSTANTS
  MaxRequests = 1
  MaxCuts = 1
  Parts = 1
  MaxOpen = 0
  MaxSend = 1
  MaxReceive = 1
  MaxClose = 0
SPECIFICATION HttpSpec
PROPERTY FailureIsReported
CHECK_DEADLOCK FALSE
