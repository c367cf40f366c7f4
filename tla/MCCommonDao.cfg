SPECIFICATION Spec
CONSTANTS
  c1 = c1
  c2 = c2
  a = a
  Client <- MCClient
  Id <- MCId
  Call <- MCCall
  MaxCalls = 2
  Nobody = Nobody
  Nothing = Nothing
SYMMETRY Symmetric
INVARIANTS
  PatchesKept
  FreshIds
  FailedLeavesNothing
PROPERTIES
  ProtectedRowsStay
CHECK_DEADLOCK FALSE
