SPECIFICATION FairSpec
CONSTANTS
  MaxItems = 4
  MaxConcurrency = 5
INVARIANTS
  BoundedConcurrency
  ResultComplete
  ErrorsComplete
PROPERTIES
  NothingTakenAfterAnswer
  EventuallySettled
CHECK_DEADLOCK FALSE
