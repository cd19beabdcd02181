\* Two frontends, up to two peaks in a pass, at most two passes.
CONSTANTS
  NumFrontends = 2
  MaxPeaks = 2
  Requests <- TwoPassRequests
SPECIFICATION FairSpec
INVARIANTS
  NoPeakScannedTwice
  JoinedMeansScanned
  TunedToSelectedLnb
  EveryLockSaved
PROPERTIES
  LnbSwitchedOnlyWhenIdle
  SpectrumKept
  ScanEnds
  ImplementsContract
