\* A cable tuner with the default LNB type; a range for a wideband LNB.
CONSTANTS
  CommandLines <- UnusualRequests
  Skies <- AllSkies
  Offsets <- Near
SPECIFICATION PathSpec
INVARIANTS
  RangeIsCovered
  OnlyRangeScanned
