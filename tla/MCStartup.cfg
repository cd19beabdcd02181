\* All four programs on one or two adapters, with every driver.
CONSTANTS
  Programs <- AllPrograms
  AdapterLists <- Lists
  RfInputs <- Inputs
  RfIn = 1
  VersionFiles <- AllVersions
  FirstFd = 3
SPECIFICATION MainSpec
INVARIANTS
  PoolIsOpen
PROPERTY
  ClosesOwn
