SPECIFICATION Spec
CONSTANTS
  MaxOpens = 2
  Malloc = FALSE
INVARIANT RefusalFailsTheOpen
CHECK_DEADLOCK FALSE
