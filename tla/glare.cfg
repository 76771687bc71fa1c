CONSTANTS
  Nodes = {1, 2}
  SharedLevels = {1, 2}
  Reach <- MCReach
  Conns = {k1, k2, k3}
  Tasks = {t1, t2}
  MaxFaults = 1
  MaxExpiries = 1
  NoOne = NoOne
SPECIFICATION FairGlare
CHECK_DEADLOCK FALSE
INVARIANTS GlareTypeOK QuietAgreement GlareLeavesSurvivor
PROPERTY EventuallyLinked
