SPECIFICATION FairSpec
CONSTANTS
  Streams = {s1, s2}
  Impatient = {s1}
  Queries = {q1}
  Signals <- SomeSignals
  MaxSteps = 1
  Turn = "turn"
  NoEntity = "none"
  s1 = s1
  s2 = s2
  q1 = q1
INVARIANT TypeOK
INVARIANT WireIsInOrder
INVARIANT StepsAllDelivered
INVARIANT BriefingIsComplete
INVARIANT SecondResearchOnlyByRace
PROPERTY AbortStopsWork
PROPERTY StreamEnds
CHECK_DEADLOCK FALSE
