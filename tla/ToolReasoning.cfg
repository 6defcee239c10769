SPECIFICATION Spec
CONSTANTS
  Questions <- MCQuestions
  Grants <- MCGrants
  Names <- MCNames
  MAX_TOOL_CALLS = 3
  MAX_PROMPT_TOOLS = 5
CONSTRAINT Explored
INVARIANTS
  TypeOK
  ObservedStayOffered
  PreferredToolYieldsToWords
  OfferedIsAdmitted
  SameToolSameFields
