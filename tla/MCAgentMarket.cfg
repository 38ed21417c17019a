SPECIFICATION Spec
CONSTANTS
  Person = {alice, bob}
  Market = market
  Locker = locker
  NoAccount = NoAccount
  Renter = {renter}
  Approvable = {alice, bob, market, locker}
  Operator = {market, locker}
  MaxToken = 1
  MaxVersion = 2
  MaxTime = 1
  Budget = 2
  ShareSupply = 2
SYMMETRY Symmetry
CHECK_DEADLOCK FALSE
INVARIANTS
  GrantsEndWithAcquisition
  SharesAreBacked
  EscrowCoversBids
PROPERTY DeliveryAgainstPayment
