CONSTANTS
  c1 = c1
  c2 = c2
  NoMark = NoMark
  NoOne = NoOne
  Collectors = {c1}
  First = c1
  FirstKind = "plain"
  OtherKind = "plain"
  Second = 2
  Window0 = 3
  Lookback0 = 3
  Lags0 = {1}
  Margin0 = 1
  Retention0 = 5
  Capacity0 = 9
  ConfiguredBudget = 4
  ChunkBudget = 1
  Recovery = 2
  MaxWindowsPerTick = 2
  Rejections = 3
  StartTime = 8
  MaxTime = 14
  MaxRestarts = 1
  Kind <- MCKind
  MaxWindow <- MCMaxWindow
  Lookback <- MCLookback
  Lags <- MCLags
  Margin <- MCMargin
  Retention <- MCRetention
  Capacity <- MCCapacity
SPECIFICATION Spec
INVARIANTS NoSilentLoss Settled
PROPERTIES DropJustified KeepsPromise
