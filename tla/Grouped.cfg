SPECIFICATION Spec
CONSTANTS
  Bucket = 2
  Holdback = 2
  MaxTime = 10
  MaxWindow = 8
  Starts = {0, 1}
  Kinds <- MCKinds
  Worlds <- MCWorlds
  Settings <- MCSettings
  Directory <- MCDirectory
  MaxNames = 1
  SeriesCap = 3
  QueryLimit = 4
  Rolling = 3
INVARIANT CountsExact
INVARIANT SeriesBounded
PROPERTY GaugeNewest
INVARIANT NeverStuck
CHECK_DEADLOCK FALSE
