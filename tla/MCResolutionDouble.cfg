SPECIFICATION ResolutionSpec
CONSTANTS
  Requests = {c1, c2}
  Nobody = nobody
  NumActions = 1
  Selections = {}
  MaxTrouble = 0
INVARIANT DispatchIsExclusive
CHECK_DEADLOCK FALSE
