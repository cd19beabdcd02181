\* Two passes of up to two transponders; a queue of two events that overflows.
CONSTANTS
  Requests <- BothBands
  Answers <- AllAnswers
  Failing <- AllFailing
  MaxFound = 2
  MaxStatus = 2
  MaxInterrupts = 1
  QueueSize = 2
  ClearsOnScan = TRUE
SPECIFICATION FairSpec
INVARIANTS
  ReadMeansSaved
PROPERTIES
  LinesAreFound
  SessionEnds
