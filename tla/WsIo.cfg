SPECIFICATION WsFairSpec
CONSTANTS
  Ios = {"socket", "tls"}
  Kinds = {"data", "close", "masked"}
  MaxFrames = 1
  Sends = 2
  MaxOpens = 2
  OpensFrom = {"open", "closed", "sent"}
  MaxDepth = 1
  UserOps = {"user", "app", "wsOpenFails", "wsCloseFails", "wsCancel", "wsSendFails", "wsSent",
             "wsDestroy", "wsNotOpen"}
  Malloc = FALSE
INVARIANT WsTypeOK
INVARIANT WsSendsAccounted
INVARIANT ClosedBelow
PROPERTY WsOpenEnds
CHECK_DEADLOCK FALSE
