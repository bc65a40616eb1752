SPECIFICATION Spec
CONSTANT None = None
INVARIANTS
  GhostdagIsExact WalksAreExact MergesAreBounded PruningPointsAreExact OracleIsExact
  CacheIsCoherent StoresAreExact
CHECK_DEADLOCK FALSE
