CONSTANTS
  Self = 2
  Peers = {3}
  Levels = {1, 2}
  OfferLevel = 2
  LateReady = {}
  MaxActive = 4
  BackoffSteps = 1
  Links = {l1, l2, l3}
  Ops = {o1, o2}
  Callers = {c1}
  None = None
SPECIFICATION FairSpec
CHECK_DEADLOCK FALSE
PROPERTY OnlyCanonicalFires
