SPECIFICATION Spec
CONSTANTS
  Workers = {w1, w2}
  NoWorker = NoWorker
  Sources = {asharehub, baostock, unconfigured}
  Supporting = {asharehub, baostock}
  Serialised = {baostock}
  Horizon = 4
  OpenDays = {1, 2, 4}
  Traded = {2, 4}
  FirstToday = 3
  Listings <- MCListings
  MAX_SYNC_RANGE_DAYS = 4
  MaxRequests = 2
  MaxIngests = 1
SYMMETRY WorkerSymmetry
CHECK_DEADLOCK FALSE
INVARIANTS TypeOK CoverageSound ResponseComplete OnlyMissingFetched
PROPERTY LedgerSpec
