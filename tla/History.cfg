SPECIFICATION Spec
CONSTANTS
  host = host
  clone = clone
  app = app
  web = web
  Servers = {host, clone}
  Names = {app, web}
  DefaultLimit = 1
  MaxLimit = 1
  DefaultWindow = 1
  MaxWindow = 2
  MaxRuns = 2
  MaxFails = 1
  MaxClock = 2
  Junk = Junk
  None = None
INVARIANTS
  TypeOK
  RunsAreWhole
  NewestListed
  WhatWasReadStays
  FrequenciesWithinRuns
PROPERTIES
  ImplementsRunLog
SYMMETRY Symmetry
CHECK_DEADLOCK FALSE
