SPECIFICATION FairSpec
CONSTANTS
  t1 = t1
  t2 = t2
  o1 = o1
  o2 = o2
  m1 = m1
  m2 = m2
  m3 = m3
  Outpoint <- MCOutpoint
  Self <- MCSelf
  Tx <- OneTx
  Vin <- OneVin
  Masternode <- ThreeMasternodes
  Height <- TwoHeights
  VoteHeight <- AnyHeight
  SIGNATURES_REQUIRED = 2
  SIGNATURES_TOTAL = 2
  LOCK_LIFETIME = 1
CHECK_DEADLOCK FALSE
INVARIANTS OneVotePerMasternode
PROPERTY LocksExpire
