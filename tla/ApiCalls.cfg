CONSTANTS
  a = a
  b2 = b2
  d = d
  z1 = z1
  z2 = z2
  Callers = {a, b2, d}
  Together = {{a, b2}, {b2, d}}
  Method <- MixedMethod
  Scope <- OneScope
  Resources = {z1}
  None = None
  Origins = {"api", "other"}
  Home = "api"
  Configs <- FractionalOnly
  Default <- Fractional
  Unit = 3
  SafeRate = 1
  BudgetPause = 2
  Asks = {0, 2}
  Backoff <- Doubling
  MaxDelay = 1
  Attempts = 2
  Hops = 2
  MaxCalls = 1
  Horizon = 2
SPECIFICATION LiveSpec
INVARIANTS WithinQuota
PROPERTIES Returns
