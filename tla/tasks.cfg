SPECIFICATION Spec
CONSTANTS
  MaxIds = 5
  Killers = {k1}
  Scenarios <- AllScenarios
  MaxWire = 2
  MaxQueue = 2
  None = None
CHECK_DEADLOCK FALSE
INVARIANTS PendingOpen RetryBound OneTaskPerInstance
PROPERTIES WaitersReturn FailedReplaced
