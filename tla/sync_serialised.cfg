SPECIFICATION FairSpec
CONSTANTS
  Workers = {w1, w2}
  NoWorker = NoWorker
  Sources = {baostock}
  Supporting = {baostock}
  Serialised = {baostock}
  Horizon = 3
  OpenDays = {1, 3}
  Traded = {1, 3}
  FirstToday = 2
  Listings <- OneListing
  MAX_SYNC_RANGE_DAYS = 3
  MaxRequests = 3
  MaxIngests = 1
CHECK_DEADLOCK FALSE
INVARIANT RangesMerged
PROPERTY RequestsFinish
