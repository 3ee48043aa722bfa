SPECIFICATION Spec
CONSTANTS
  Workers = {w1, w2}
  NoWorker = NoWorker
  Sources = {asharehub}
  Supporting = {asharehub}
  Serialised = {}
  Horizon = 3
  OpenDays = {1, 3}
  Traded = {1, 3}
  FirstToday = 2
  Listings <- OneListing
  MAX_SYNC_RANGE_DAYS = 3
  MaxRequests = 2
  MaxIngests = 1
CHECK_DEADLOCK FALSE
INVARIANT RangesMerged
