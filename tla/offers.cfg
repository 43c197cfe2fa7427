CONSTANTS
  o1 = o1
  o2 = o2
  a1 = a1
  l1 = l1
  l2 = l2
  None = None
  Offers = {o1, o2}
  Agents = {a1}
  AgentOf <- OneAgent
  Launchers = {l1, l2}
  Need = 1
  MaxEvents = 2
SPECIFICATION Spec
INVARIANTS TypeOK OfferUsedOnce
PROPERTIES OfferReleased SemReleased
CHECK_DEADLOCK FALSE
