SPECIFICATION FairClientSpec
CONSTANTS
  ErrorTimeForRetrySecs = 1
  Limits = {0}
  Faults = {"malloc"}
  Transports = {x1, x2}
  None = None
  KeepAlive = 1
  ConnectTimeout = 2
  TickFaults = TRUE
  Ticks = {1}
  MaxTime = 4
  UshrtMax = 3
  MaxCalls = 4
  Nested = TRUE
  FreedLinks = {"kept", "lost"}
INVARIANT TransportOwned
INVARIANT ConnectedIsTrue
PROPERTY DisconnectIsFinal
PROPERTY FreshAfterLoss
PROPERTY AttemptsEnd
INVARIANT CallsAccounted
PROPERTY AcksAnswerTheirCall
PROPERTY FlushAnswers
PROPERTY ImplementsContract
CHECK_DEADLOCK FALSE
