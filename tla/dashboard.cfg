SPECIFICATION FairSpec
CONSTANTS
  k1 = k1
  k2 = k2
  every = every
  some = some
  Stocks = {k1, k2}
  NoStock = nostock
  Queries = {every, some}
  FirstQuery = every
  FirstOfPage <- TwoPages
  Ranges = {r1, r2}
  FirstRange = r1
  Frequencies = {"daily", "60m"}
  Runs = {a, b}
  NoRun = norun
  MaxClicks = 4
CHECK_DEADLOCK FALSE
INVARIANTS ChartIsCurrent MessagesAreCurrent ListIsCurrent PanelIsCurrent
PROPERTIES SearchSynchronises LoadingEnds
