\* What the documentation says of the cache, which the code does not do.
CONSTANTS
  a1 = a1
  a2 = a2
  l1 = l1
  Asks = {a1, a2}
  Listings = {l1}
  ToolCalls = 1
  TTL = 2
  Horizon = 3
  None = None
SPECIFICATION Spec
INVARIANT LoadedOncePerTTL
CHECK_DEADLOCK FALSE
