CONSTANTS
  Request = {r1, r2}
  PerRequest = 2
  QueueSize = 1
  Id <- MCId
  BatchSize = 2
  MaxAge = 1
  Horizon = 1
  MaxFaults = 1
  TornWrites = FALSE
  Fragment = Fragment
  Garbled = Garbled
SPECIFICATION Spec
SYMMETRY RequestSymmetry
INVARIANTS
  PipelineTypeOK
  WrittenRowsOnDisk
  FirstCopiesInOrder
  FifoConservation
  NoSilentDrops
  DrainedBeforeReturn
  StrandedFitQueue
PROPERTIES
  ImplementsItemStore
CHECK_DEADLOCK FALSE
