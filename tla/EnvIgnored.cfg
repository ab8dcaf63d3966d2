SPECIFICATION Spec
CONSTANTS
  Dirs <- MCDirs
  Keys <- MCKeys
  Defaulted = {"mode", "port", "excluded"}
  Bound = {"webhook"}
  Typed = {"port"}
  Validated = {"mode", "port"}
  MaxEdits = 1
  None = None
PROPERTIES
  EverySettingFromEnv
CHECK_DEADLOCK FALSE
