SPECIFICATION Spec
CONSTANTS
  p1 = p1
  p2 = p2
  app = app
  web = web
  Pipelines = {p1, p2}
  Containers = {app, web}
  Server = host
  Former = former
  WindowDays = 1
  TriggerCount = 2
  TrendRuns = 1
  Settings <- MCSettings
  Large <- LargeApp
  MaxRuns = 3
  MaxFaults = 1
  MaxClock = 2
  None = None
INVARIANTS
  TypeOK
  RecommendationsAreBacked
  NoneMissed
  OwnRunInTrend
  LossesAreCounted
SYMMETRY Symmetry
CHECK_DEADLOCK FALSE
