\* The cohort question gets the cohort tool: TLC refutes it for a second question.
CONSTANTS
  ExtraTools = {"waro.analytics.cohort", "waro.analytics.waros", "waro.queries.run"}
  ProfileSteps = 3
  Questions <- Exchange
  Turns = 2
  i1 = i1
  Items = {i1}
  RowCap = 2
SPECIFICATION Spec
INVARIANT CohortQuestionsAnswered
