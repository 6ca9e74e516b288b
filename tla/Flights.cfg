SPECIFICATION Spec
CONSTANTS
  IndexLimit = 3
  GenerationMax = 2
  MaxGroups = 2
  Capacities = {1, 2}
  MaxBatch = 2
INVARIANT TypeOK
INVARIANT HandlesNeverDangle
INVARIANT VacancyIsFresh
PROPERTY ImplementsLedger
