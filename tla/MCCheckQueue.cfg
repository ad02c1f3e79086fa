SPECIFICATION FairSpec
CONSTANTS
  c1 = c1
  c2 = c2
  c3 = c3
  c4 = c4
  w1 = w1
  w2 = w2
  Master = Master
  Check <- Checks
  Failing <- FailingChecks
  Worker <- Workers
  nBatchSize = 2
INVARIANTS IdleBetweenBlocks TodoIsOutstanding
PROPERTIES ImplementsVerdict WaitReturns
