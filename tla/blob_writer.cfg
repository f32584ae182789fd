CONSTANTS
  MaxItems = 4
  BatchSize = 2
  MaxAge = 2
  Horizon = 3
  MaxFaults = 2
SPECIFICATION FairSpec
INVARIANTS
  BlobTypeOK
  BufferIsUnwritten
  LostOnlyByReplacement
  BlobNameAndAge
PROPERTIES
  AddedIsWritten
CHECK_DEADLOCK FALSE
