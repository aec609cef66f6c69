SPECIFICATION Spec
CONSTANTS
  Size = 2
  Concurrency = 1
  MaxFaults = 2
  MaxStalls = 1
  MaxAttempts = 2
  CanAbort = TRUE
INVARIANT AggregateOnlyWhenAllClosed
INVARIANT AbortIsFinal
PROPERTY KeepsPromise
CHECK_DEADLOCK FALSE
