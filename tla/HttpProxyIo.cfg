SPECIFICATION FairSpec
CONSTANTS
  MaxOpens = 3
  Malloc = TRUE
INVARIANT StandsOnUnderlying
INVARIANT PayloadIntact
PROPERTY OpenIsAnswered
CHECK_DEADLOCK FALSE
