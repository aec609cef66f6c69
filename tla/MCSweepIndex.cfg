SPECIFICATION FairSpec
CONSTANTS
  Ids = {1, 2}
  Legacy = {1}
  Calls = {l1, l2}
  Reviewers = {r1}
  l1 = l1
  l2 = l2
  r1 = r1
  SampleSize = 1
  Asked = {"pending"}
  Batch = 1
INVARIANT LoneListingIsComplete
INVARIANT RebuiltIndexIsWhole
PROPERTY PendingComesBack
CHECK_DEADLOCK FALSE
