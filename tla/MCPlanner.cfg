SPECIFICATION Spec
CONSTANTS
  Cortices <- MCCortices
  Registry <- MCRegistry
  UserScoped = {"u"}
  Strategist = "s"
  JobDag <- MCJobDag
  Fallback <- MCFallback
  Requests <- MCRequests
  Manual <- MCManual
  Settings <- MCSettings
INVARIANT TypeOK
INVARIANT StaysExecutable
PROPERTY KeepsOrder
PROPERTY SettingsRespected
