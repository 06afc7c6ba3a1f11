SPECIFICATION Spec
CONSTANTS
  Jobs = {j1, j2, j3}
  Limits = {1, 2}
  Filters <- AllOrRunning
  MaxScan = 2
  MaxCrashes = 1
SYMMETRY Symmetry
CONSTRAINT Bounds
INVARIANTS TypeOK
PROPERTIES ReportsWereTrue ListHoldsNewest CancelSettles RecordedIsFound
CHECK_DEADLOCK FALSE
