SPECIFICATION Spec
CONSTANTS
  Ios = {"socket", "proxy"}
  MaxOpens = 1
  Sends = 0
  Records = 0
  MaxFailures = 1
INVARIANT HandshakeFailedIsBrief
CHECK_DEADLOCK FALSE
