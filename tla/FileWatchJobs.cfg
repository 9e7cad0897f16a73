SPECIFICATION FairSpec
CONSTANTS
  Roots = {r1}
  Jobs = {j1, j2}
  Controllers = {c1}
  MaxStarts = 2
  SlowTicks = FALSE
INVARIANTS
  OneScanPerRoot
  ScansKeepTheirCursor
  ReservationsBacked
  QuietAfterStop
PROPERTIES
  StopDrains
  StopsEnd
CHECK_DEADLOCK FALSE
