SPECIFICATION MCSpec
CONSTANTS
  Horizon = 4
  MaxRows = 3
  TextLength = 6
  Inputs <- MCInputs
  Missing = Missing
  Unreadable = Unreadable
  Unencodable = Unencodable
  Fraction = 10
  NameLength = 2
  PriceLimit = 2
  AmountLimit = 1
  VolumeLimit = 10
  ParameterLimit = 18
  NoAmount = NoAmount
  MonthStarts = {0, 9, 13}
  Exchanges = {1, 2}
  SHORT_MA_WINDOW = 2
  LONG_MA_WINDOW = 3
  BREAKOUT_LOOKBACK = 2
  VOLUME_LOOKBACK = 2
  VOLUME_MULTIPLIER = 2
  NotGiven = NotGiven
CHECK_DEADLOCK FALSE
INVARIANTS CoverScanCorrect GroupScanCorrect AcceptedBatchesAreStored LoadIsComplete TextIsKept BarsSummarisePrices PagesListEveryStock SignalsFollowPrices
