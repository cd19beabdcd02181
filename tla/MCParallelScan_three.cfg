\* Three frontends and up to three peaks in a single pass.
CONSTANTS
  NumFrontends = 3
  MaxPeaks = 3
  Requests <- OnePass
SPECIFICATION Spec
INVARIANTS
  IInv
  OneMaster
