SPECIFICATION Spec
CONSTANTS
  Dirs <- MCDirs
  Keys <- MCKeys
  Defaulted = {"mode", "port", "excluded"}
  Bound = {"webhook"}
  Typed = {"port"}
  Validated = {"mode", "port"}
  MaxEdits = 3
  None = None
INVARIANTS
  TypeOK
PROPERTIES
  NoFileIsIgnored
  PanicsForCause
CHECK_DEADLOCK FALSE
