SPECIFICATION LaunchSpec
CONSTANTS
  Token = {t1}
  MaxRegistrations = 2
  MaxMishaps = 0
  MaxAttempts = 2
  MaxOthers = 0
CHECK_DEADLOCK FALSE
INVARIANT RetryIsSafe
