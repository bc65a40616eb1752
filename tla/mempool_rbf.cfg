SPECIFICATION MiningSpec
CONSTANTS
  Txs = {"p", "c", "q"}
  Ins <- FamilyIns
  Outs <- FamilyOuts
  Fee <- FamilyFee
  Roots <- FamilyRoots
  None = None
  MaxPool = 3
  MaxOrphans = 2
  Workers = {w1}
  Submissions <- SubmissionsBatch
  MaxSubmits = 3
  MaxReorgs = 0
INVARIANT NoDoubleSpendInPool
CHECK_DEADLOCK FALSE
