\* The default step and search range over 40 MHz of two polarisations.
CONSTANTS
  Pols = 2
  start_freq = 10700000
  end_freq = 10740000
  step_freq = 6000
  search_range = 10000
  Carriers <- Found
  Stale <- Unlocked
SPECIFICATION FairSweep
INVARIANTS
  NoGap
PROPERTY SweepEnds
