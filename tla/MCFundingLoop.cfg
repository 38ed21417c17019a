SPECIFICATION Spec
CONSTANTS
  Threshold = 1
  DesiredTopup = 2
  Floor = 1
  PerTopupCap = 3
  DailyCap = 3
  Window = 2
  Price = 4
  SliceBps = 5000
  GasFloat = 1
  MaxTime = 3
  MaxCalls = 3
  MaxSwaps = 3
CHECK_DEADLOCK FALSE
INVARIANTS OverrunIsUnrecorded GasMoneyKept
PROPERTY TopupsKeepFloor
