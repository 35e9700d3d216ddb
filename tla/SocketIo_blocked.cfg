SPECIFICATION Spec
CONSTANTS
  Messages = 2
  Size = 2
  MaxOpens = 1
  Malloc = FALSE
INVARIANT NothingIsLost
CHECK_DEADLOCK FALSE
