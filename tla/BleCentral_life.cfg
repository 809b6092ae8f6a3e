SPECIFICATION Spec
CONSTANTS
  Null = Null
  Centrals = {c1, c2, c3}
  Gatts = {g1, g2}
  MaxResults = 1
  MaxEvents = 2
SYMMETRY Symmetry
VIEW View
INVARIANTS
  TypeOK
  ClosedForGood
  NeverStranded
  ReadyIsTrue
CHECK_DEADLOCK FALSE
