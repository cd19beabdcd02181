\* Four passes of a full scan, every answer of the driver, three attempts.
CONSTANTS
  Settings <- FullScan
  Requests <- SwitchRequests
  Answers <- AllAnswers
  MaxAttempts = 3
  NumRepeats = 2
  QuietCap = 250
SPECIFICATION Spec
INVARIANTS
  DiseqcWithToneOff
  LongPauseAfterFirst
  LnbOnSetting
  EveryCommandSent
PROPERTY OnlyMasterControls
