SPECIFICATION Spec
CONSTANTS
  Managers = {a, b}
  MaxSeq = 4
  MaxFaults = 2
  None = None
CHECK_DEADLOCK FALSE
INVARIANTS TypeOK OneLeader
PROPERTIES Succeeds LeaderFollowed
