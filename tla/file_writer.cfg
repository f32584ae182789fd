CONSTANTS
  Id = {i1, i2, i3}
  BatchSize = 2
  MaxAge = 2
  Horizon = 3
  MaxFaults = 2
  TornWrites = TRUE
  Fragment = Fragment
  Garbled = Garbled
SPECIFICATION WriterSpec
SYMMETRY IdSymmetry
INVARIANTS
  BufferIsUnwritten
  FaultsCostOneRow
  FileNamedByFirstRow
  AgeMeasuredFromName
CHECK_DEADLOCK FALSE
