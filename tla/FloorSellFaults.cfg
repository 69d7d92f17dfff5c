SPECIFICATION Spec
CONSTANTS
  b1 = b1
  s1 = s1
  f1 = f1
  NoOrder = NoOrder
  Orders = {f1}
  Buys = {}
  Floors = {f1}
  Qty = 2
  Days = 2
  MaxRedrive = 2
  MaxQuery = 2
  MaxLag = 1
  OperatorWaits = TRUE
  MaxCommands = 1
  MaxCrashes = 1
  MaxFaults = 2
INVARIANTS
  NoUntrackedLiveOrder
  TerminalIsSettled
  NoInventedFill
  ReleasedIsSettled
  LedgerInv
PROPERTIES
  ImplementsOwnership
