CONSTANTS
  MaxItems = 3
  BatchSize = 2
  MaxAge = 2
  Horizon = 3
  MaxFaults = 0
SPECIFICATION Spec
INVARIANTS
  WrittenRowsStored
CHECK_DEADLOCK FALSE
