CONSTANTS
  Accounts = {a}
  MaxNonce = 2
  Prices = {1, 2}
  PriceBump = 10
  AccountSlots = 1
  GlobalSlots = 1
  AccountQueue = 1
  GlobalQueue = 1
  Balances = {1, 2}
  Resets = TRUE
  Reorgs = TRUE
SPECIFICATION Spec
INVARIANTS AllTracked FrontExecutable PoolBound ReadyPromoted
PROPERTIES LocalsKept
