\* All Sends and subscriptions may be over.
CHECK_DEADLOCK FALSE
CONSTANTS
  Channels = {c1, c2}
  Senders = {s1, s2}
  Cap = 1
  MaxSends = 2
  MaxSubscribes = 4
SPECIFICATION FairSpec
INVARIANTS CasesInv SameOrder
PROPERTIES SilentAfterwards UnsubscribeReturns SendReturns
