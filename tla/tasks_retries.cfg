SPECIFICATION Spec
CONSTANTS
  MaxIds = 3
  Killers = {}
  Scenarios <- OneRetry
  MaxWire = 2
  MaxQueue = 2
  None = None
CHECK_DEADLOCK FALSE
INVARIANT RetriesAsDocumented
