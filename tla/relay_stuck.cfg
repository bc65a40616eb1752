SPECIFICATION ForkSpec
CONSTANT None = None
PROPERTY Resolved
CHECK_DEADLOCK FALSE
