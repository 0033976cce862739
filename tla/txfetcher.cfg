CONSTANTS
  Peers = {p1, p2}
  Hashes = {h1, h2}
  NoPeer = NoPeer
  MaxTxAnnounces = 2
  MaxTxRetrievals = 2
SPECIFICATION FairSpec
INVARIANTS Inv
PROPERTIES TimeoutNeverReasks FailureCostsOnePeer HashesMove
