\* Conversations of three questions over all topics, with every tool of the
\* CLI, one row per successful call, and a cap of two rows.  The first question
\* ranges over all sets of up to three words; CONSTRAINT stops after planning
\* one that is not of the talk.
CONSTANTS
  ExtraTools = {"waro.analytics.cohort", "waro.analytics.waros", "waro.queries.run"}
  ProfileSteps = 3
  Questions <- Conversations
  Turns = 3
  i1 = i1
  Items = {i1}
  RowCap = 2
SPECIFICATION Spec
CONSTRAINT InTalk
INVARIANT TypeOK
INVARIANT SelectionLosesNothing
INVARIANT StandaloneQuestionsPlanAlike
INVARIANT SafeMeansData
INVARIANT PlansBringWhatIsShown
PROPERTY RowsHaveTheirTurn
