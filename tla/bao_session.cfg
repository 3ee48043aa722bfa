SPECIFICATION Spec
CONSTANTS
  d1 = d1
  d2 = d2
  d3 = d3
  c1 = c1
  DatabaseRequests <- MCDatabaseRequests
  CacheRequests <- MCCacheRequests
  PoolSize = 2
  NoRequest = NoRequest
  Stdout = Stdout
CHECK_DEADLOCK FALSE
INVARIANTS QueriesRunInTheirSession StdoutRestored
PROPERTIES SessionsAreExclusive RequestsFinish
