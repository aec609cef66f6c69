SPECIFICATION ResolutionFairSpec
CONSTANTS
  Requests = {c1, c2, c3}
  Nobody = nobody
  NumActions = 1
  Selections = {c3}
  MaxTrouble = 1
INVARIANT NothingBeforeReview
PROPERTY OnlyOwnerReleases
PROPERTY LockIsFreed
PROPERTY AcceptedIsResolved
CHECK_DEADLOCK FALSE
