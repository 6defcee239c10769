\* One agent request with two tool calls beside two listings that share a registry,
\* over two lifetimes of the catalogue; liveness of callers queued behind failing loads.
\* Every request ends and the clock is bounded: no deadlock check.
CONSTANTS
  a1 = a1
  l1 = l1
  l2 = l2
  Asks = {a1}
  Listings = {l1, l2}
  ToolCalls = 2
  TTL = 2
  Horizon = 2
  None = None
SPECIFICATION FairSpec
INVARIANT TypeOK
INVARIANT OfferedToolsResolve
INVARIANT ListingOfOneLifetime
PROPERTY SnapshotsLast
PROPERTY RefreshEnds
CHECK_DEADLOCK FALSE
