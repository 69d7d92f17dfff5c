SPECIFICATION Spec
CONSTANTS
  p1 = p1
  p2 = p2
  e1 = e1
  e2 = e2
  i1 = i1
  i2 = i2
  i3 = i3
  NoProc = NoProc
  NoEffect = NoEffect
  Procs = {p1, p2}
  Effects = {e1}
  Ids = {i1, i2}
  MaxOrdinal = 2
  MaxOccurrences = 2
  MaxStarts = 2
  MaxReports = 2
SYMMETRY Symmetry
INVARIANTS PublishedOnce OwnClaimsOnly
PROPERTIES ServesFresh
CHECK_DEADLOCK FALSE
