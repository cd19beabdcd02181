\* Two peaks; a queue of three events that six events may overflow.
CONSTANTS
  NumPeaks = 2
  MaxCount = 3
  QueueSize = 3
  MaxStatus = 5
  ClearsOnTune = TRUE
SPECIFICATION FairSpec
INVARIANTS
  NoStaleLock
  LostLockIsUnread
PROPERTY ImplementsContract
