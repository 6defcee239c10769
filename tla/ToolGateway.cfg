\* Three calls over two runs and one key, and a pool one short of the calls.
\* Every call ends, so the system stops: no deadlock check.
CONSTANTS
  c1 = c1
  c2 = c2
  c3 = c3
  Calls = {c1, c2, c3}
  g1 = g1
  g2 = g2
  RunIds = {g1, g2}
  k1 = k1
  Keys = {k1}
  NoKey = NoKey
  PoolSize = 2
SPECIFICATION MCSpec
INVARIANT TypeOK
INVARIANT OneToolPerRun
INVARIANT NoDeadlock
PROPERTY KeepsToolContract
PROPERTY CallsEnd
CHECK_DEADLOCK FALSE
