SPECIFICATION FairSpec
CONSTANTS
  Workers = {w1, w2}
  Script = script
  Nobody = nobody
  Horizon = 5
  Traded = {2, 3, 5}
  FirstToday = 4
  ListDate = 2
  FromDates = {1}
  MAX_SYNC_RANGE_DAYS = 5
  MaxRequests = 3
  MaxScripts = 1
  MaxFaults = 1
CHECK_DEADLOCK FALSE
INVARIANTS Contiguous AnswersHaveNoHole CaughtUp
PROPERTY SyncsFinish
