\* Up to two passes; a queue of two events that overflows.
CONSTANTS
  Requests <- BothBands
  Spectra <- FewSpectra
  MaxStatus = 2
  MaxInterrupts = 1
  QueueSize = 2
  ClearsOnScan = TRUE
SPECIFICATION Spec
INVARIANTS
  FilesHoldTheirPasses
  MarksAreCandidates
  AcquiredIsWritten
