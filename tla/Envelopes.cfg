SPECIFICATION Spec
CONSTANTS
  MaxEnvs = 2
  MaxChildren = 2
  Held = 2
  CancelLimit = 1
  MaxCommands = 2
  MaxFaults = 1
INVARIANTS SellsAtVenueAreOwned ReleasedDelegationIsDead RemainingMatchesLedger OverfillIsLatched
PROPERTIES CancelRequestHolds
CHECK_DEADLOCK FALSE
