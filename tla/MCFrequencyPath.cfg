\* Every type of LNB, two transponders, candidates up to 1 kHz off.
CONSTANTS
  CommandLines <- SatRequests
  Skies <- SatSkies
  Offsets <- Near
SPECIFICATION PathSpec
INVARIANTS
  AssertionsHold
  SavedIsTrue
  RangeIsCovered
