SPECIFICATION FairSpec
CONSTANTS
  Procs = {startup, tick}
  Deadlined = {startup}
  app = app
  db = db
  Files = {app}
  Names <- MCNames
  NameOf <- OneName
  Excluded <- MCExcluded
  ShortIds = {app}
  Rotating = {}
  Threshold = 1
  TopConsumers = 1
  Configs <- TruncateOnly
  DbMayFail = FALSE
  MaxSize = 1
  MaxCalls = 2
  MaxCrashes = 0
  MaxEvents = 0
  None = None
PROPERTIES
  EveryRunEnds
CHECK_DEADLOCK FALSE
