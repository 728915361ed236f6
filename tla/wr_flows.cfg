\* One run, two flow runs born of its retries, every kind of clean-up.
CONSTANTS
  Run = {r1}
  Flow = {f1, f2}
  Target = {t1}
  NULL = NULL
  PrefectEnabled = TRUE
  MaxRetries = 1
  ZombieAge = 1
  MaxTime = 2
  FinalReport = {"completed", "failed", "cancelled"}
  MayCrash = TRUE
  CleanupRequests <- AllRequests
SPECIFICATION Spec
SYMMETRY FlowSymmetry
INVARIANTS
  TimesMatchStatus
PROPERTIES
  HistoryStands
  CleanupSparesActive
  LifecycleSpec
