CONSTANTS
  a1 = a1
  a2 = a2
  a3 = a3
  b1 = b1
  b2 = b2
  b3 = b3
  c2 = c2
  t = t
  Blocks = {a1, a2, a3, b1, b2, b3, c2}
  Genesis = g
  None = None
  Parent <- MCParent
  Number <- MCNumber
  Td <- MCTd
  Time <- MCTime
  Root <- MCRoot
  Invalid = {b3}
  Txs = {t}
  TxsOf <- MCTxsOf
  MaxChain = 3
  TriesInMemory = 2
  XCap = 4
  Ampl = 1
  Denominator = 2
  MaxEvents = 2
SPECIFICATION Spec
INVARIANTS ChainInv HeadHasState InvalidNeverCanonical LookupRight
PROPERTIES ForkChoice CleanRestart
