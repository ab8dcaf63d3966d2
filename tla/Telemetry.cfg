SPECIFICATION Spec
CONSTANTS
  Volumes = {data, cache}
  Containers = {app, web}
  Unit = 4
  Modulus = 8192
  Sizes = {0, 4, 16, 8191}
  MaxEvents = 3
  None = None
INVARIANTS
  TypeOK
  SummaryIsPossible
  UnusedIsExact
  NothingWraps
  SuffixFits
CHECK_DEADLOCK FALSE
