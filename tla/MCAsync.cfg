SPECIFICATION Spec
CONSTANTS
  p = p
  q = q
  k1 = k1
  k2 = k2
  Caller <- MCCaller
  Key <- MCKey
  MaxCalls = 3
  MaxClears = 2
  Miss = Miss
  MaxChunks = 4
  PoolSize = 2
  Concurrency = 3
  MaxDeaths = 1
  Null = Null
SYMMETRY Symmetric
INVARIANTS
  AnswersAreCurrent
  OwnResults
PROPERTIES
  ComputedOnce
CHECK_DEADLOCK FALSE
