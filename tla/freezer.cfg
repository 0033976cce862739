\* A behaviour ends when its bounds are used up and freeze sleeps.
CHECK_DEADLOCK FALSE
CONSTANTS
  NTables = 2
  MaxBlock = 4
  Threshold = 1
  BatchLimit = 1
  MaxRewinds = 1
  Environments <- MCEnvironments
  None = None
SPECIFICATION FairSpec
INVARIANTS ChainReadable ReaderFinds FreezerInv
PROPERTY FreezeEnds
