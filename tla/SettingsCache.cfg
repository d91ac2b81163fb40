CONSTANTS
  Callers = {c1, c2}
  Keys = {zone, account}
  ZoneKeys = {zone}
  None = None
  Backoff = 2
  TTLs = {1}
SPECIFICATION LiveSpec
INVARIANTS SingleRead
PROPERTIES BackoffHonoured Returns GrantNoticed
