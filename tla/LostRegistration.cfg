SPECIFICATION Spec
CONSTANTS
  Token = {t1, t2}
  MaxRegistrations = 2
  MaxMishaps = 1
CHECK_DEADLOCK FALSE
INVARIANT RegisteredAgentsSurvive
