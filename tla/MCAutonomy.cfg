SPECIFICATION FairSpec
CONSTANTS
  Ticks = {t1, t2}
  Configs <- MCConfigs
  NoConfig = noConfig
  Intervals = {15, 45}
  Span = 2
  MaxCost = 1
  MaxUsd = 2
  MaxCalls = 2
  MaxStarts = 2
  MaxChanges = 1
INVARIANT OverspendBounded
INVARIANT AtMostOneLateAction
PROPERTY RotationIsFair
CHECK_DEADLOCK FALSE
