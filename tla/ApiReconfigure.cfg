CONSTANTS
  a = a
  b2 = b2
  d = d
  z1 = z1
  z2 = z2
  Callers = {a, b2}
  Together = {{a, b2}}
  Method <- GraphMethod
  Scope <- OneScope
  Resources = {z1}
  None = None
  Origins = {"api", "other"}
  Home = "api"
  Configs <- BothMeters
  Default <- Account
  Unit = 2
  SafeRate = 1
  BudgetPause = 1
  Asks = {0}
  Backoff <- Doubling
  MaxDelay = 2
  Attempts = 2
  Hops = 2
  MaxCalls = 1
  Horizon = 4
SPECIFICATION Spec
INVARIANTS Idempotent
