SPECIFICATION Spec
CONSTANTS
  Reqs = {1, 2, 3, 4}
  MaxTasks = 3
  MaxVersions = 4
  Scenarios <- AllScenarios
  None = None
CHECK_DEADLOCK FALSE
INVARIANTS OperationShown OneRecordPerInstance WeightsOnNewTasks  VersionsKept
PROPERTIES StatusSettles
