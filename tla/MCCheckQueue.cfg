SPECIFICATION FairSpec
CONSTANTS
  Workers = {w1, w2}
  Master = m
  nBatchSize = 2
  MaxAdd = 2
  MaxChecks = 4
INVARIANTS QueueInv WaitTellsTheTruth
PROPERTIES WaitReturns
