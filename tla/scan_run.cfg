SPECIFICATION FairSpec
CONSTANTS
  Scans = {s1, s2}
  Nobody = nobody
  cross = cross
  spike = spike
  k1 = k1
  k2 = k2
  Stocks = {k1, k2}
  FirstStocks = {k1}
  Rules = {cross, spike}
  Builds = {b1, b2}
  NoBuild = nobuild
  Selections <- BothOrders
  StockChoices <- AllOrOne
  Shapes <- AllShapes
  FirstShape <- Matching
  MaxChanges = 1
  MaxLost = 1
CHECK_DEADLOCK FALSE
INVARIANTS NoPartialResults SummaryAgrees SignalsTraceable
PROPERTY VerdictReached
