CONSTANTS
  Self = 2
  Peers = {3}
  Levels = {1}
  OfferLevel = 1
  LateReady = {}
  MaxActive = 1
  BackoffSteps = 1
  Links = {l1, l2}
  Ops = {o1, o2}
  Callers = {c1}
  None = None
SPECIFICATION FairSpec
CHECK_DEADLOCK FALSE
PROPERTY EnsureProceeds
