SPECIFICATION Spec
CONSTANTS
  Bucket = 2
  Minute = 1
  Holdback = 1
  Margin = 2
  MaxTime = 8
  MaxWindow = 4
  Starts = {0, 1}
  Kinds <- MCKinds
  Worlds <- MCWorlds
  Configs <- MCConfigs
  Foreign = {3}
  Settings <- MCSettings
  HostLimit = 2
  SeriesLimit = 48
  FirewallLimit = 3
  TopLimit = 1
  RowLimit = 3
  SeriesBudget = 3
  SourceLimit = 2
INVARIANT ZonesExact
INVARIANT ZonesAddUp
INVARIANT SeriesForLife
INVARIANT ZonesMove
CHECK_DEADLOCK FALSE
