\* Two runs with a flow each, the second possibly a retry of the first,
\* launched, cancelled and cleaned up at the same time.
CONSTANTS
  Run = {r1, r2}
  Flow = {f1, f2}
  Target = {t1, t2}
  NULL = NULL
  PrefectEnabled = TRUE
  MaxRetries = 0
  ZombieAge = 1
  MaxTime = 0
  FinalReport = {}
  MayCrash = FALSE
  CleanupRequests <- TerminalOnly
SPECIFICATION FairSpec
INVARIANTS
  LinksSound
  StoppedRunSettled
PROPERTIES
  LaunchResolves
