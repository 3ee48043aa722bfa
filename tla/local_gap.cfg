SPECIFICATION Spec
CONSTANTS
  Workers = {w1, w2}
  Script = script
  Nobody = nobody
  Horizon = 5
  Traded = {2, 3, 5}
  FirstToday = 4
  ListDate = 2
  FromDates = {1, 4}
  MAX_SYNC_RANGE_DAYS = 5
  MaxRequests = 2
  MaxScripts = 0
  MaxFaults = 0
SYMMETRY WorkerSymmetry
CHECK_DEADLOCK FALSE
INVARIANT Contiguous
