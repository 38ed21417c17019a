SPECIFICATION Spec
CONSTANTS
  Holder = {alice, bob}
  NoHolder = NoHolder
  TotalSupply = 3
  MaxBlock = 2
  MaxRevenue = 3
  MaxSnapshots = 2
SYMMETRY HolderSymmetry
CHECK_DEADLOCK FALSE
INVARIANTS
  VotesMatchDelegations
  HoldersAreCounted
  PaidWithinSnapshot
  PaidOnceInFull
  ShortfallIsOthersDraw
PROPERTIES LaterTradesDoNotDilute PaysDividends
