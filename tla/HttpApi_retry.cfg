CONSTANTS
  MaxRequests = 2
  MaxCuts = 0
  Parts = 1
  MaxOpen = 0
  MaxSend = 1
  MaxReceive = 1
  MaxClose = 0
SPECIFICATION HttpSpec
PROPERTY BodyDespiteRetry
CHECK_DEADLOCK FALSE
