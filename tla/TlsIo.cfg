SPECIFICATION Spec
CONSTANTS
  Ios = {"socket", "proxy"}
  MaxOpens = 2
  Sends = 2
  Records = 2
  MaxFailures = 1
INVARIANT OpenAnswered
INVARIANT SslFollowsState
INVARIANT RecordsIntact
PROPERTY Progresses
CHECK_DEADLOCK FALSE
