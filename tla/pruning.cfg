SPECIFICATION FairMixedSpec
CONSTANTS
  PruningDepth = 3
  FinalityDepth = 2
  N = 9
  Side <- LooseSide
  SideParent <- LooseSideParent
  MergedBy <- LooseSideMergedBy
  ProofBlocks <- ProofBlocks1
  Window = 1
  Archival = FALSE
  Retention = 3
  SyncerSinks = {9}
  None = None
  Partial = Partial
  Wrong = Wrong
  MaxCrashes = 2
  MaxIbds = 2
  MaxReads = 1
CHECK_DEADLOCK FALSE
INVARIANTS UtxoSetMatchesPosition RecoveryIsPossible PromisedDataIsKept
PROPERTY PruningCompletes
