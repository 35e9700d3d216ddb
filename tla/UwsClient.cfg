SPECIFICATION FairSpec
CONSTANTS
  Ios = {"socket", "tls", "proxy"}
  Kinds = {"data", "ping", "pong", "close", "badReason", "bad", "masked"}
  MaxFrames = 2
  Sends = 1
  MaxOpens = 2
  OpensFrom = {"open", "frame"}
  MaxDepth = 1
  Malloc = TRUE
  UserOps = {"user"}
INVARIANT CallbacksRunOnce
INVARIANT FramesComeThrough
INVARIANT ClosesComplete
PROPERTY OpenIsAnswered
CHECK_DEADLOCK FALSE
