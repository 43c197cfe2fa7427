SPECIFICATION Spec
CONSTANTS
  Reqs = {1, 2, 3}
  Conns = {11, 12}
  IPs = {1}
  Keys <- WebKeys
  Scenarios <- AllScenarios
  None = None
CHECK_DEADLOCK FALSE
INVARIANTS TableSound ServersSound CountersExact
PROPERTIES RequestsReturn RemovedCollected
