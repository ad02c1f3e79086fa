SPECIFICATION Spec
CONSTANTS
  g = g
  c1 = c1
  c2 = c2
  k = k
  t1 = t1
  t2 = t2
  x = x
  s = s
  Tx = {g, c1, c2, k, t1, t2, x, s}
  Generated = {g, c1, c2, k}
  Vin <- MCVin
  Vout <- MCVout
  Prev <- MCPrev
  Block <- MCBlock
  Genesis <- MCGenesis
  Peer = {1, 2}
  None = None
  Maturity = 2
  MaxHeight = 3
  MaxOrphans = 2
INVARIANTS PoolNotConfirmed PoolCheck OrphansIndexed
PROPERTIES LeavesForCause
