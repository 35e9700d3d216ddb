SPECIFICATION Spec
CONSTANTS
  MaxOpens = 2
  Malloc = TRUE
INVARIANT NoMemoryNoOpen
CHECK_DEADLOCK FALSE
