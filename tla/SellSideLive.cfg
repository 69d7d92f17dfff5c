SPECIFICATION FairSpec
CONSTANTS
  c1 = c1
  c2 = c2
  MaxOrders = 3
  Held = 1
  BuyQty = 1
  Cands = {c1}
  MaxDays = 1
  MaxTries = 2
  MaxCommands = 2
  MaxOver = 1
CHECK_DEADLOCK FALSE
PROPERTIES
  ProtectionReaches
