CONSTANTS
  Accounts = {a, b}
  MaxNonce = 2
  Prices = {1}
  PriceBump = 10
  AccountSlots = 1
  GlobalSlots = 2
  AccountQueue = 1
  GlobalQueue = 3
  Balances = {1}
  Resets = TRUE
  Reorgs = FALSE
SYMMETRY Symmetry
SPECIFICATION Spec
INVARIANTS NoGaps LimitsHold
PROPERTIES GuaranteedSlots
