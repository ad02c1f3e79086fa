SPECIFICATION Spec
CONSTANTS
  x = x
  y = y
  h1 = h1
  h2 = h2
  NoHash = NoHash
  TxId <- MCTxId
  Output <- MCOutput
  Hash <- MCHash
INVARIANTS BatchWriteAssertion FlagsAreRight
PROPERTY ImplementsMap
