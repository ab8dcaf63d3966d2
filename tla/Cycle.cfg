SPECIFICATION Spec
CONSTANTS
  Procs = {startup}
  Deadlined = {startup}
  app = app
  db = db
  Files = {app, db}
  Names <- MCNames
  NameOf <- MCNameOf
  Excluded <- MCExcluded
  ShortIds = {app}
  Rotating = {db}
  Threshold = 2
  TopConsumers = 1
  Configs <- Several
  DbMayFail = TRUE
  MaxSize = 3
  MaxCalls = 1
  MaxCrashes = 0
  MaxEvents = 2
  None = None
INVARIANTS
  TypeOK
  ExcludedIsSpared
  EverythingAccounted
  TotalsMatchRows
  ReclaimedWasFreed
PROPERTIES
  ShrinksOnlyByPolicy
CHECK_DEADLOCK FALSE
