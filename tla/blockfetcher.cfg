\* The loop may be ended.
CHECK_DEADLOCK FALSE
CONSTANTS
  b1 = b1
  b2 = b2
  Blocks = {b1, b2, c1}
  Genesis = g
  Number <- MCNumber
  Parent <- MCParent
  EmptyBlocks = {c1}
  Peers = {p1, p2}
  None = None
  HashLimit = 1
  BlockLimit = 1
  MaxUncleDist = 0
  MaxQueueDist = 2
  MaxNotify = 2
SYMMETRY Symmetry
SPECIFICATION Spec
INVARIANTS ImportedOnce StagesInv
