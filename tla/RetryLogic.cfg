SPECIFICATION FairRetrySpec
CONSTANTS
  ErrorTimeForRetrySecs = 2
  Limits = {0, 9}
  Faults = {"clock", "malloc"}
  StartTimes = {3}
  Ticks = {1, 3}
  MaxTime = 16
INVARIANT TimerTracksOutage
PROPERTY AttemptsBackOff
PROPERTY GivesUpOnlyAtLimit
PROPERTY RetriesEventually
