CONSTANTS
  Effects = {"order", c1, c2}
  c1 = c1
  c2 = c2
  Legs = {"L1"}
  Kind <- MCKind
  Target <- MCTarget
  Capacity <- MCCapacity
  Prices = {1, 2, 3}
  Grid <- MCGrid
  FillInputs <- MCFillInputs
  RevisionInputs <- MCRevisionInputs
  HumanFills <- MCHumanFills
  Openings <- MCOpenings
  MaxCumulative = 2
  MaxSeen = 3
SPECIFICATION Spec
SYMMETRY CancelSymmetry
CHECK_DEADLOCK FALSE
INVARIANTS
  BasisIsFold
  SharesCountedOnce
  OverCapacityIsQuarantined
  RestartReproduces
  VenueWorkBlocks
  OneCancelPerLeg
