\* Three users of two blocks each, a pool of one connection and room for a pool
\* per creation that may overlap.
\* Everything may end, so the system may stop: no deadlock check.
CONSTANTS
  u1 = u1
  u2 = u2
  u3 = u3
  Users = {u1, u2, u3}
  MaxPools = 4
  PoolSize = 1
  MaxBlocks = 2
SPECIFICATION FairSpec
INVARIANT TypeOK
INVARIANT OnePool
PROPERTY WaitersEnd
PROPERTY ShutdownEnds
CHECK_DEADLOCK FALSE
