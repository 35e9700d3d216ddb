SPECIFICATION FairSpec
CONSTANTS
  Ios = {"socket"}
  Kinds = {"close"}
  MaxFrames = 1
  Sends = 0
  MaxOpens = 1
  OpensFrom = {}
  MaxDepth = 1
  Malloc = FALSE
  UserOps = {"user"}
INVARIANT CloseToldOnce
CHECK_DEADLOCK FALSE
