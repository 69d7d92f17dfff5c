SPECIFICATION Spec
CONSTANTS
  b1 = b1
  s1 = s1
  f1 = f1
  NoOrder = NoOrder
  Orders = {f1}
  Buys = {}
  Floors = {f1}
  Qty = 2
  Days = 1
  MaxRedrive = 1
  MaxQuery = 1
  MaxLag = 0
  OperatorWaits = FALSE
  MaxCommands = 0
  MaxCrashes = 0
  MaxFaults = 0
INVARIANTS
  NoInventedFill
