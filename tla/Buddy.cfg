CONSTANTS
  MaxLog = 2
  InitialPages = 3
  PerPage = 1
  MallocAt <- MallocPlaces
  AfterAll = 20
  Requests = {1, 3}
  MaxBlocks = 3
  MaxGroups = 2
SPECIFICATION Spec
INVARIANTS BlocksTile GrowsOnlyWhenFull AllocSucceeds
PROPERTY KeepsPromise
CHECK_DEADLOCK FALSE
