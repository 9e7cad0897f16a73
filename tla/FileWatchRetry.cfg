SPECIFICATION Spec
CONSTANTS
  Roots = {r1}
  Jobs = {j1}
  Controllers = {c1, c2}
  MaxStarts = 2
  SlowTicks = FALSE
PROPERTY RetryMeansScanning
CHECK_DEADLOCK FALSE
