SPECIFICATION SpecBook
CONSTANTS
  Relays = {r1, r2, r3}
  Seeds = {r1}
  PoolCap = 2
  LastGoodMax = 1
  Rtts = {1}
  DefaultRtt = 2
  MaxRtt = 9
  FailureWeight = 4
  StaleAfter = 2
  MaxTicks = 1
  MaxAttempts = 2
PROPERTY WorstEvicted
CHECK_DEADLOCK FALSE
