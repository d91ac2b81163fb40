CONSTANTS
  Cap = 2
  NoBatch = NoBatch
  MaxRecords = 3
  MaxFailures = 3
  n1 = n1
  n2 = n2
  NoOne = NoOne
  Torn = Torn
  Names = {n1, n2}
  MaxTime = 2
  MaxCrashes = 2
SPECIFICATION BothSpec
INVARIANTS CommitDelivered PowerSafe
PROPERTIES VerdictExact FlushReturns IsAtomicStore
