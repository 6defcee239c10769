\* Three runs in one conversation and a window they can overflow.
\* Every run ends, so the system stops: no deadlock check.
CONSTANTS
  r1 = r1
  r2 = r2
  r3 = r3
  Runs = {r1, r2, r3}
  Limit = 3
SYMMETRY RunSymmetry
SPECIFICATION Spec
INVARIANT TypeOK
INVARIANT OwnQuestionHeard
INVARIANT AnsweredTurnsPrecede
INVARIANT StateNotStale
CHECK_DEADLOCK FALSE
