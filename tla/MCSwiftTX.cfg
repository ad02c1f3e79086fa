SPECIFICATION Spec
CONSTANTS
  t1 = t1
  t2 = t2
  o1 = o1
  o2 = o2
  m1 = m1
  m2 = m2
  m3 = m3
  Outpoint <- MCOutpoint
  Self <- MCSelf
  Tx <- TwoTx
  Vin <- TwoVin
  Masternode <- TwoMasternodes
  Height <- OneHeight
  VoteHeight <- OneHeight
  SIGNATURES_REQUIRED = 2
  SIGNATURES_TOTAL = 2
  LOCK_LIFETIME = 1
CHECK_DEADLOCK FALSE
INVARIANT EmptyRequestWasRejected
PROPERTY ReservationsAreStable
