SPECIFICATION Spec
\* Three starts, two syncs from a headers proof, one session.
CONSTANTS
  None = None
  MaxKey = 3
  MaxStarts = 3
  Sessions = {"s"}
INVARIANTS ActiveIsIntact CommittedIsActive
PROPERTY ShutdownGetsThrough
CHECK_DEADLOCK FALSE
