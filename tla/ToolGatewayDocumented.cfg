\* What the documentation says of the audit trail, which the code does not keep.
CONSTANTS
  c1 = c1
  c2 = c2
  Calls = {c1, c2}
  g1 = g1
  RunIds = {g1}
  k1 = k1
  Keys = {k1}
  NoKey = NoKey
  PoolSize = 2
SPECIFICATION Spec
INVARIANT EveryExecutionAudited
CHECK_DEADLOCK FALSE
