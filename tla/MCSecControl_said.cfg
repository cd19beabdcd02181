\* A tone burst, a string that begins with a pause, no switch at all, a busy input.
CONSTANTS
  Settings <- FullScan
  Requests <- UnusualRequests
  Answers <- WillingOrBusy
  MaxAttempts = 10
  NumRepeats = 2
  QuietCap = 250
SPECIFICATION Spec
INVARIANTS
  ReturnTellsSent
  EveryCommandSent
  ToneIsBand
  RetriesLater
