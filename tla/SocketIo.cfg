SPECIFICATION FairSpec
CONSTANTS
  Messages = 4
  Size = 2
  MaxOpens = 3
  Malloc = TRUE
INVARIANT MessagesAccounted
PROPERTY QueueDrains
CHECK_DEADLOCK FALSE
