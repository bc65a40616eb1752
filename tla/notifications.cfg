SPECIFICATION Spec
CONSTANTS
  Addrs = {x, y}
  Broadcasters = {b1, b2}
INVARIANTS ParentCatchesUp OwedIsOnItsWay CountsAreExact
SYMMETRY Symmetry
CHECK_DEADLOCK FALSE
