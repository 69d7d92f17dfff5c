SPECIFICATION Spec
CONSTANTS
  MaxEnvs = 1
  MaxChildren = 1
  Held = 2
  CancelLimit = 1
  MaxCommands = 1
  MaxFaults = 1
INVARIANTS FillCountedOnce
CHECK_DEADLOCK FALSE
