\* One dial outlives its callers' deadline, so one node has two dials to the other.
CONSTANTS
  Nodes = {1, 2}
  SharedLevels = {1, 2}
  Reach <- MCReach
  Conns = {k1, k2, k3}
  Tasks = {t1, t2}
  MaxFaults = 0
  MaxExpiries = 1
  NoOne = NoOne
SPECIFICATION FairGlare
CHECK_DEADLOCK FALSE
INVARIANT BothEndsAgree
