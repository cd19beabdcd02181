\* Seven command lines; the tuner changes its status three times before it settles.
CONSTANTS
  Requests <- AllRequests
  Answers <- AllAnswers
  Failing <- AllFailing
  MaxCount = 3
  NumRepeats = 2
  QueueSize = 2
  MaxStatus = 3
  MaxFaults = 1
  Offset = 5000
SPECIFICATION FairSpec
INVARIANTS
  TunedToRequest
  LockIsOfThisRequest
PROPERTY ComesToAnEnd
