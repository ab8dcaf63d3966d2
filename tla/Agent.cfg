SPECIFICATION FairAgentSpec
CONSTANTS
  Startup = startup
  Procs = {startup, tick1, tick2}
  Requests = {req}
  MaxTicks = 2
INVARIANTS
  TypeOK
  NoJobOutlivesStop
  OutcomesCounted
  GaugesLagOnlyByOverlap
PROPERTIES
  StartupEnds
  QuietShutdownEnds
CHECK_DEADLOCK FALSE
