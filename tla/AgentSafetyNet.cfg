\* Without an LLM, understanding and planning a question never fail: TLC refutes it.
CONSTANTS
  ExtraTools = {"waro.analytics.cohort", "waro.analytics.waros", "waro.queries.run"}
  ProfileSteps = 3
  Questions <- Exchange
  Turns = 2
  i1 = i1
  Items = {i1}
  RowCap = 2
SPECIFICATION Spec
INVARIANT SafetyNetHolds
