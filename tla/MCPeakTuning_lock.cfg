\* One peak, the ten reads and the queue of eight events of the real program.
CONSTANTS
  NumPeaks = 1
  MaxCount = 10
  QueueSize = 8
  MaxStatus = 6
  ClearsOnTune = TRUE
SPECIFICATION Spec
INVARIANT LockIsSaved
