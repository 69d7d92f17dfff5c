SPECIFICATION FairSpec
CONSTANTS
  b1 = b1
  s1 = s1
  f1 = f1
  NoOrder = NoOrder
  Orders = {f1}
  Buys = {}
  Floors = {f1}
  Qty = 1
  Days = 1
  MaxRedrive = 1
  MaxQuery = 2
  MaxLag = 1
  OperatorWaits = TRUE
  MaxCommands = 0
  MaxCrashes = 0
  MaxFaults = 2
PROPERTIES
  SubmittingNotStranded
