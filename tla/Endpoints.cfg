\* One question to one of the endpoints, JSON or SSE, with the full tool budget
\* and up to two tokens.
\* Everything may end, so the system may stop: no deadlock check.
CONSTANTS
  r1 = r1
  Runs = {r1}
  MaxToolCalls = 4
  MaxTokens = 2
SPECIFICATION ServiceSpec
INVARIANT ServiceTypeOK
INVARIANT TruthfulService
INVARIANT SettledService
INVARIANT StreamMirrorsGraph
INVARIANT ToolsPaired
INVARIANT FoodAccountsAgree
INVARIANT AskedIsRecorded
PROPERTY ServiceKeepsContract
PROPERTY ServiceEnds
PROPERTY ServiceSettles
PROPERTY OrphansFinish
CHECK_DEADLOCK FALSE
