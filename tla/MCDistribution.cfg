SPECIFICATION DistributionSpec
CONSTANTS
  Holder = {creator, buyer}
  NoHolder = NoHolder
  Creator = creator
  TotalSupply = 2
  MaxBlock = 2
  MaxRevenue = 2
  MaxSnapshots = 2
  WholeShare = 2
  PricePerShare = 1
  MaxShares = 2
  StartsAt = 1
  EndsAt = 2
  MaxClicks = 2
CHECK_DEADLOCK FALSE
INVARIANTS
  SaleRoundsDown
  ReportedIsPaid
