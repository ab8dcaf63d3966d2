SPECIFICATION Spec
CONSTANTS
  Procs = {startup}
  Deadlined = {startup}
  app = app
  db = db
  Files = {app, db}
  Names <- MCNames
  NameOf <- MCNameOf
  Excluded <- MCExcluded
  ShortIds = {app}
  Rotating = {}
  Threshold = 1
  TopConsumers = 1
  Configs <- TruncateOnly
  DbMayFail = FALSE
  MaxSize = 2
  MaxCalls = 1
  MaxCrashes = 0
  MaxEvents = 0
  None = None
INVARIANTS
  CompletedRunIsRecorded
CHECK_DEADLOCK FALSE
