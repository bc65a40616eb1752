SPECIFICATION Spec
CONSTANTS
  Txs = {"p", "c", "e", "r", "q"}
  Ins <- FamilyIns
  Outs <- FamilyOuts
  Fee <- FamilyFee
  Roots <- FamilyRoots
  None = None
  MaxPool = 2
  MaxOrphans = 2
  Workers = {w1, w2}
  Submissions <- SubmissionsAll
  MaxSubmits = 3
  MaxReorgs = 1
INVARIANTS RelationsMirror OrphansWait TemplateIsFresh
SYMMETRY WorkerSymmetry
CHECK_DEADLOCK FALSE
