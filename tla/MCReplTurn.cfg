SPECIFICATION Spec
CONSTANTS
  Turn = "turn"
  NoEntity = "none"
  Automatic <- Launched
  Offered <- Proposed
  MaxRuns = 2
INVARIANT SettledTurnIsNotRunning
PROPERTY CancelAbortsAll
CHECK_DEADLOCK FALSE
