\* More items than tokens, every kind of request, and a process that may die.
CONSTANTS
  Total = 4
  Requests = {0, 1, 2, 5}
  DefaultConcurrency = 1
  MaxConcurrency = 3
  MayCrash = TRUE
SPECIFICATION FairSpec
INVARIANTS
  WorkersMatchRow
PROPERTIES
  LifecycleSpec
  BatchEnds
CHECK_DEADLOCK FALSE
