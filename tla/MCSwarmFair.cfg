SPECIFICATION FairSpec
CONSTANTS
  Size = 3
  Concurrency = 2
  MaxFaults = 0
  MaxStalls = 1
  MaxAttempts = 2
  CanAbort = FALSE
PROPERTY SwarmCloses
CHECK_DEADLOCK FALSE
