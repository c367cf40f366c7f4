SPECIFICATION Spec
CONSTANTS
  Years <- MCYears
  Moves <- MCMoves
  MaxWait = 3
  MaxLate = 1
  MaxTimers = 3
  NoTimer = NoTimer
  MaxAttempts = 4
  r1 = r1
  r2 = r2
  SIGINT = SIGINT
  SIGTERM = SIGTERM
  Request <- MCRequest
  Reason <- MCReason
  RequestLimit = 2
  CustomLimit = 1
  ForceLimit = 2
  MaxDelay = 1
  Stopped = Stopped
SYMMETRY Symmetric
INVARIANTS
  PlusIsByCalendar
  DiffCountsFullUnits
  InvokedInTime
  AnswerIsOfLastAttempt
  AnswerIsTimed
  StopsInTime
  CompletedLosesNothing
CHECK_DEADLOCK FALSE
