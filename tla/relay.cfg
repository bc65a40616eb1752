SPECIFICATION Spec
CONSTANT None = None
INVARIANTS FreedHaveParents RequestsAreHeld FindsTheHighest
CHECK_DEADLOCK FALSE
