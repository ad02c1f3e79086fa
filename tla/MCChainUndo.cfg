SPECIFICATION Spec
CONSTANTS
  g = g
  a1 = a1
  a2 = a2
  a3 = a3
  b1 = b1
  b2 = b2
  c2 = c2
  Genesis = g
  Block <- LongFork
  Parent <- TreeParent
  Path <- WalkBack
  Work <- TreeWork
  Invalid <- OnlyB2
  Contested <- OnlyA2
  Operators = {"invalidate", "reconsider", "replay"}
  ReplayDepth = 1
INVARIANTS TypeOK ActiveChainNotFailed
