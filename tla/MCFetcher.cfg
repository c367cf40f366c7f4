SPECIFICATION FairSpec
CONSTANTS
  Requests <- MCRequests
  MaxCount = 2
INVARIANTS
  NoUnwantedRepeat
  GivesUpOnlyWithReason
  OutcomeConsistent
  OkBodyIsNoErrorBody
PROPERTIES
  StoppedSendsNothing
  EventuallyAnswered
CHECK_DEADLOCK FALSE
