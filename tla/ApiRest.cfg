CONSTANTS
  a = a
  b2 = b2
  d = d
  z1 = z1
  z2 = z2
  Callers = {a, b2}
  Together = {{a, b2}}
  Method <- RestMethod
  Scope <- OneScope
  Resources = {z1}
  None = None
  Origins = {"api", "other"}
  Home = "api"
  Configs <- EvenOrMore
  Default <- Even
  Unit = 1
  SafeRate = 1
  BudgetPause = 1
  Asks = {0, 2}
  Backoff <- Doubling
  MaxDelay = 1
  Attempts = 2
  Hops = 3
  MaxCalls = 2
  Horizon = 2
SPECIFICATION Spec
PROPERTIES TokenStaysHome NoAdmissionDuringPause
