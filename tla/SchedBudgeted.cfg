CONSTANTS
  c1 = c1
  c2 = c2
  NoMark = NoMark
  NoOne = NoOne
  Collectors = {c1}
  First = c1
  FirstKind = "budgeted"
  OtherKind = "plain"
  Second = 1
  Window0 = 0
  Lookback0 = 0
  Lags0 = {0}
  Margin0 = 1
  Retention0 = 5
  Capacity0 = 2
  ConfiguredBudget = 5
  ChunkBudget = 2
  Recovery = 1
  MaxWindowsPerTick = 2
  Rejections = 2
  StartTime = 2
  MaxTime = 6
  MaxRestarts = 0
  Kind <- MCKind
  MaxWindow <- MCMaxWindow
  Lookback <- MCLookback
  Lags <- MCLags
  Margin <- MCMargin
  Retention <- MCRetention
  Capacity <- MCCapacity
SPECIFICATION FairSpec
PROPERTIES CatchUp
