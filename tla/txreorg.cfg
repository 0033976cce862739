CONSTANTS
  Callers = {c1}
  SyncCallers = {c1}
  ChainHeads = {h1, h2}
  Other = Other
  Free = Free
SPECIFICATION ReorgFairSpec
INVARIANTS SyncServed HeadsContiguous
PROPERTIES SyncReturns StopEnds
