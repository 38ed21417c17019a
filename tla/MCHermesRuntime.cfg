SPECIFICATION Spec
CONSTANTS
  Task = {t0, t1, t2}
  NoTask = NoTask
  NoBlob = NoBlob
  MaxStops = 1
  First = t0
  MaxFaults = 1
  MaxMishaps = 1
SYMMETRY Symmetry
CHECK_DEADLOCK FALSE
CONSTRAINT FewMishaps
INVARIANTS
  RunningAgentRemembers
  PublishedLoads
  TapeFollowsBrain
PROPERTIES
  PointerForgetsNothing
  GracefulStopKeepsWork
