SPECIFICATION SpecChunks
CONSTANTS
  Chunks = {1, 2}
  Paths = {a}
  Contents <- MCContents
  Putters = {w1}
  MaxPuts = 1
  MaxGcs = 1
  MaxStoreCrashes = 0
PROPERTY OnlyOrphansDeleted
CHECK_DEADLOCK FALSE
