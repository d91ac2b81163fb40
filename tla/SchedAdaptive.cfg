CONSTANTS
  c1 = c1
  c2 = c2
  NoMark = NoMark
  NoOne = NoOne
  Collectors = {c1}
  First = c1
  FirstKind = "adaptive"
  OtherKind = "plain"
  Second = 1
  Window0 = 3
  Lookback0 = 4
  Lags0 = {0}
  Margin0 = 1
  Retention0 = 5
  Capacity0 = 1
  ConfiguredBudget = 4
  ChunkBudget = 1
  Recovery = 2
  MaxWindowsPerTick = 2
  Rejections = 2
  StartTime = 4
  MaxTime = 6
  MaxRestarts = 1
  Kind <- MCKind
  MaxWindow <- MCMaxWindow
  Lookback <- MCLookback
  Lags <- MCLags
  Margin <- MCMargin
  Retention <- MCRetention
  Capacity <- MCCapacity
SPECIFICATION FairSpec
INVARIANTS WithinLimit
PROPERTIES CatchUp ShutdownCompletes
