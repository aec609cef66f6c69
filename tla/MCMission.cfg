SPECIFICATION FairSpec
CONSTANTS
  MaxMissions = 2
  MaxTasks = 2
  MaxCalls = 2
INVARIANT NoTaskTwice
INVARIANT CountedOnce
PROPERTY MissionRunsItsTasks
CHECK_DEADLOCK FALSE
