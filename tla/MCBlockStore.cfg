SPECIFICATION Spec
CONSTANTS
  g = g
  a1 = a1
  a2 = a2
  a3 = a3
  b1 = b1
  NoBlock = NoBlock
  Genesis = g
  Block <- Tree
  Parent <- TreeParent
  Path <- WalkBack
  FileSize = 4
  Announced = {a2}
  Refusable = {a2}
CHECK_DEADLOCK FALSE
INVARIANTS TypeOK CoinsPathStored
PROPERTY BehindIsRepaired
