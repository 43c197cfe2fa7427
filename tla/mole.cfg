SPECIFICATION Spec
CONSTANTS
  d1 = d1
  d2 = d2
  Dials <- MCDials
  Scenarios <- MCScenarios
  MaxFaults = 2
  None = None
CHECK_DEADLOCK FALSE
INVARIANTS NoPanic NoForgottenAgent
PROPERTIES AgentReached DialsReturn
