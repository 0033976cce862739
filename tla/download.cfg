\* The synchronisation ends.
CHECK_DEADLOCK FALSE
CONSTANTS
  N = 3
  Parts <- MCParts
  FastSync = TRUE
  Peers = {p1, p2}
  Master = p1
  Size = 2
  Initial = 2
  MaxResults = 1
  MaxQueued = 2
  MaxRequest = 2
  MinFails = 1
  MaxLacking = 1
  MaxFaults = 1
SPECIFICATION Spec
INVARIANTS QueueInv
PROPERTY DeliverySpec
