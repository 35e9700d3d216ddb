SPECIFICATION WsSpec
CONSTANTS
  Ios = {"tls"}
  Kinds = {"data"}
  MaxFrames = 1
  Sends = 0
  MaxOpens = 1
  OpensFrom = {"open"}
  MaxDepth = 1
  UserOps = {"user", "app", "wsOpenFails", "wsCloseFails", "wsCancel", "wsSendFails", "wsSent",
             "wsDestroy", "wsNotOpen"}
  Malloc = FALSE
INVARIANT PendingOpenIsClosed
CHECK_DEADLOCK FALSE
