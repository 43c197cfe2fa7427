SPECIFICATION Spec
CONSTANTS
  t1 = t1
  t2 = t2
  c1 = c1
  c2 = c2
  Tasks <- MCTasks
  Clients <- MCClients
  Broadcasters <- MCBroadcasters
  Scenarios <- MCDeleteApp
  MaxClients = 1
  MaxBuf = 1
  None = None
CHECK_DEADLOCK FALSE
INVARIANT CleanedUp
