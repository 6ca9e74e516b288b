SPECIFICATION Spec
CONSTANTS
  IndexLimit = 4
  GenerationMax = 1
  MaxGroups = 2
  Capacities = {0, 1, 3}
  MaxBatch = 2
INVARIANT AdmissionIsExact
INVARIANT OverflowIsReal
INVARIANT SeedsAreDense
CHECK_DEADLOCK FALSE
