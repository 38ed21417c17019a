SPECIFICATION LaunchSpec
CONSTANTS
  Token = {t1}
  MaxRegistrations = 2
  MaxMishaps = 1
  MaxAttempts = 2
  MaxOthers = 1
CHECK_DEADLOCK FALSE
INVARIANTS FileIsCurrent DeploysAreExplained ShownIsAttached DeploysAreWorkedOn
PROPERTIES FinanceStays DeploysRunDown DeploysEnd
