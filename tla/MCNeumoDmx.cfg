\* Every kind of command line, a ring that overflows, a short write.
CONSTANTS
  Requests <- AllRequests
  RingSize = 2
  MaxPackets = 5
  MaxShort = 1
SPECIFICATION FairSpec
INVARIANTS
  StreamAsRequested
  StreamIsWhole
PROPERTY StreamGoesOn
