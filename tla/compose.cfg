CONSTANTS
  s1 = s1
  s2 = s2
  s3 = s3
  c1 = c1
  c2 = c2
  r1 = r1
  r2 = r2
  None = None
  Services = {s1, s2, s3}
  Creations = {c1, c2}
  Removals = {r1, r2}
  Scenarios <- AllScenarios
SPECIFICATION Spec
INVARIANTS CircledExactly DependenciesReady 
PROPERTY ComposeSettles
CHECK_DEADLOCK FALSE
