SPECIFICATION FairSpec
CONSTANTS
  Procs = {startup, tick}
  Deadlined = {startup}
  app = app
  db = db
  Files = {app}
  Names <- MCNames
  NameOf <- OneName
  Excluded <- MCExcluded
  ShortIds = {app}
  Rotating = {app}
  Threshold = 1
  TopConsumers = 1
  Configs <- RealRuns
  DbMayFail = FALSE
  MaxSize = 2
  MaxCalls = 2
  MaxCrashes = 1
  MaxEvents = 2
  None = None
INVARIANTS
  MutualExclusion
  RecordedUnlessExpired
  SnapshotsCoverHistory
  ReclaimedOnce
PROPERTIES
  ImplementsGate
  DeadlinedRunEnds
CHECK_DEADLOCK FALSE
