CONSTANTS
  Request = {r1, r2}
  PerRequest = 1
  QueueSize = 1
  Id <- MCId
  BatchSize = 2
  MaxAge = 1
  Horizon = 1
  MaxFaults = 1
  TornWrites = FALSE
  Fragment = Fragment
  Garbled = Garbled
SPECIFICATION FairSpec
PROPERTIES
  EndReturns
  AcceptedIsWritten
CHECK_DEADLOCK FALSE
