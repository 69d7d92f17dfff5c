SPECIFICATION LiveSpec
CONSTANTS
  MaxEnvs = 1
  MaxChildren = 2
  Held = 1
  CancelLimit = 1
  MaxCommands = 1
  MaxFaults = 2
PROPERTIES FillsGetAttributed ExpiredWindsDown
CHECK_DEADLOCK FALSE
