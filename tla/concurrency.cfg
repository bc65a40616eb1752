SPECIFICATION Spec
CONSTANTS
  Client = {c1, c2, c3}
  MaxPermits = 3
  Hash <- DiamondHash
  Task <- DiamondTask
  HashOf <- DiamondHashOf
  DirectParents <- DiamondParents
INVARIANTS Exclusive NoLostWakeup ReadersFirst ExactlyOnePlace
PROPERTIES ReadersGetIn EveryTaskEnds ImplementsService
CHECK_DEADLOCK FALSE
