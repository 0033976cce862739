\* The synchronisation ends.
CHECK_DEADLOCK FALSE
CONSTANTS
  N = 2
  Parts <- MCBodies
  FastSync = FALSE
  Peers = {p1, p2}
  Master = p1
  Size = 2
  Initial = 2
  MaxResults = 1
  MaxQueued = 2
  MaxRequest = 1
  MinFails = 1
  MaxLacking = 2
  MaxFaults = 1
SPECIFICATION FairSpec
PROPERTY SyncEnds
