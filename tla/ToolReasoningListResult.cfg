SPECIFICATION Spec
CONSTANTS
  Questions <- MCQuestions
  Grants <- MCGrants
  Names <- MCNames
  MAX_TOOL_CALLS = 4
  MAX_PROMPT_TOOLS = 5
CONSTRAINT Explored
INVARIANT ResultReachesPlan
