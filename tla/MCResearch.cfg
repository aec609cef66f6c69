SPECIFICATION Spec
CONSTANTS
  Cortices = {"a", "b"}
  Plans <- MCPlans
  MaxIters = {0, 4}
  MaxCost = 2
  Gaps = {"g"}
  NoGaps = "none"
INVARIANTS
  UpstreamIsComplete
  StopReasonHolds
  LoopStops
  AbortIsHeeded
  RowTellsOutcome
PROPERTIES
  QuietAfterAbort
  CycleEnds
CHECK_DEADLOCK FALSE
