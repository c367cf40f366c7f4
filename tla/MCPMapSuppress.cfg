SPECIFICATION Spec
CONSTANTS
  MaxItems = 2
  MaxConcurrency = 2
INVARIANTS
  SuppressNeverRejects
CHECK_DEADLOCK FALSE
