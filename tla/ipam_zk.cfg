CONSTANTS
  c1 = c1
  c2 = c2
  c3 = c3
  ip1 = ip1
  s1 = s1
  s2 = s2
  r1 = r1
  NoIP = NoIP
  Prefer <- MCPrefer
  IPs = {ip1}
  Containers = {c1, c2, c3}
  Setters = {s1, s2}
  Removers = {r1}
  Scenarios <- ZkScenarios
  MaxRounds = 1
SPECIFICATION Spec
INVARIANTS AddressUnique
CHECK_DEADLOCK FALSE
