SPECIFICATION MigrationsSpec
CONSTANTS
  s1 = s1
  s2 = s2
  Sends = {s1, s2}
  Amounts = {2}
  Reserve = 1
  Msats = 4
  Scale = 4
  Standard = 1
  High = 2
  OpeningSats <- Opens
  MaxRequests = 2
  MaxFlags = 1
  MaxStops = 1
CONSTRAINT Apart
SYMMETRY Symmetry
INVARIANTS
  FrozenStays
  ReversalMakesWhole
  MigratedExactly
CHECK_DEADLOCK FALSE
