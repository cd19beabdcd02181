\* Nothing fails.
CONSTANTS
  Requests <- OneRequest
  Answers <- AllAnswers
  Failing = {}
  MaxCount = 3
  NumRepeats = 2
  QueueSize = 2
  MaxStatus = 3
  MaxFaults = 0
  Offset = 5000
SPECIFICATION Spec
INVARIANTS
  EndsAfterTuner
  LockIsReported
