SPECIFICATION Spec
CONSTANTS
  s1 = s1
  s2 = s2
  fund = fund
  Securities <- MCSecurities
  Fetchable <- MCFetchable
  Horizon = 4
  StartDates = {1, 3}
  EndDates = {2, 4}
  Sessions = {1, 2, 4}
  retries = 1
  MaxRuns = 3
  MaxFaults = 2
CHECK_DEADLOCK FALSE
INVARIANT CompletedMeansCached
