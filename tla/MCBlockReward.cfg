CONSTANTS
  m1 = m1  m2 = m2  pa = pa  f1 = f1
  NoSpork = NoSpork  NoPayee = NoPayee  NoBlock = NoBlock  NoVote = NoVote
  Height <- MCHeight
  Masternode <- MCMasternode
  Payee <- MCPayee
  Self <- MCSelf
  Winner <- MCWinner
  Rank <- MCRank
  FinalBudget <- MCFinalBudget
  BlockStart <- MCBlockStart
  BudgetPayments <- MCBudgetPayments
  FeeHeight <- MCFeeHeight
  BudgetVote <- MCBudgetVote
  SporkId <- MCSporkId
  SporkDefault <- MCSporkDefault
  SporkMsg <- MCSporkMsg
  SIGNATURES_REQUIRED = 2
  SIGNATURES_TOTAL = 3
  VoteAhead = 2
  PaymentLimit = 1
  Enabled = 10
  FEE_CONFIRMATIONS = 2
  BudgetHistory = 1
  InitHeight = 2
  MaxHeight = 4
  MaxRestarts = 1
  LAST_POW_BLOCK = 2
  Premine = 9
  Subsidy = 4
  MinSubsidy = 1
  HalvingInterval = 100
  BudgetCycle = 4
  BudgetWindow = 1
  BudgetEvery = 3
  OwnVoteAhead = 1
SPECIFICATION FairSpec
INVARIANTS TypeOK TallyIsVotes SporkIsNewest CreatedBlockAccepted RefusalRestsOnVotes
PROPERTIES ChainGrows
