\* The real queue of eight events, an interrupted wait, and a driver that may
\* say that a reservation changes nothing.
CONSTANTS
  Requests <- SomeRanges
  Answers <- Again
  Failing = {}
  MaxFound = 2
  MaxStatus = 1
  MaxInterrupts = 1
  QueueSize = 8
  ClearsOnScan = TRUE
SPECIFICATION Spec
INVARIANTS
  LockIsSaved
  BandScannedToEnd
  OnlyRangeScanned
  LnbAlwaysOnPass
