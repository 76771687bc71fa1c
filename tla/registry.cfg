CONSTANTS
  Self = 2
  Peers = {3}
  Levels = {1, 2}
  OfferLevel = 2
  LateReady = {1}
  MaxActive = 4
  BackoffSteps = 2
  Links = {l1, l2, l3}
  Ops = {o1, o2}
  Callers = {c1, c2}
  None = None
SPECIFICATION Spec
CHECK_DEADLOCK FALSE
SYMMETRY Symmetry
INVARIANTS TypeOK NoOrphanLink NoDeadCanonical InflightHasWaiter
PROPERTY KeepsSessions
