\* The default step and search range over 12 MHz.
CONSTANTS
  Pols = 1
  start_freq = 10700000
  end_freq = 10712000
  step_freq = 6000
  search_range = 10000
  Carriers = {}
  Stale = {}
SPECIFICATION SweepSpec
INVARIANT WholeRangeSearched
