SPECIFICATION SilentServerSpec
CONSTANTS
  Requests <- MCRequests
  MaxCount = 2
PROPERTIES
  TimeoutCoversTheBody
CHECK_DEADLOCK FALSE
