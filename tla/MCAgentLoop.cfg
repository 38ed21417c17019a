SPECIFICATION Spec
CONSTANTS
  auditor = auditor
  oracle = oracle
  Agent <- Agents2
  Listed <- ListedOnly
  EnsRecords <- EnsOf
  Call = {c1, c2}
  Nobody = Nobody
  MaxTurns = 2
  MinTools = 2
  MemoryCap = 2
  Funds <- Purse
  Outside = 2
SYMMETRY Symmetry
CHECK_DEADLOCK FALSE
INVARIANTS
  SecondChargeFollowsLoss
  NobodyIsStuck
PROPERTIES
  NotesAreKept
  VersionsCountWrites
  TasksRunDown
