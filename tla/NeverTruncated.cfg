SPECIFICATION Spec
CONSTANTS
  p1 = p1
  p2 = p2
  app = app
  web = web
  Pipelines = {p1}
  Containers = {app}
  Server = host
  Former = former
  WindowDays = 1
  TriggerCount = 2
  TrendRuns = 1
  Settings <- Quiet
  Large <- NoneLarge
  MaxRuns = 2
  MaxFaults = 0
  MaxClock = 1
  None = None
INVARIANTS
  RecommendedWereCleaned
CHECK_DEADLOCK FALSE
