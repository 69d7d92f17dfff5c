SPECIFICATION FairSpec
CONSTANTS
  b1 = b1
  s1 = s1
  f1 = f1
  NoOrder = NoOrder
  Orders = {b1}
  Buys = {b1}
  Floors = {}
  Qty = 1
  Days = 1
  MaxRedrive = 1
  MaxQuery = 2
  MaxLag = 1
  OperatorWaits = TRUE
  MaxCommands = 1
  MaxCrashes = 1
  MaxFaults = 1
INVARIANTS
  TypeOK
  CreatedNeverSent
  ClaimShields
  NoZombieBuy
PROPERTIES
  LifecycleGuarded
  QuarantineResolves
  SubmittingNotStranded
  RecoveryConverges
  CancelSettles
