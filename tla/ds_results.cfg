\* Two trigger requests, two callbacks and a status query at the same time.
CONSTANTS
  Event = {e1, e2}
  Handler = {h1, h2}
  Poller = {p1}
  NULL = NULL
  PrefectEnabled = TRUE
  Reports = {"success", "skipped"}
  MaxCrashes = 0
SPECIFICATION Spec
SYMMETRY Symmetry
INVARIANTS
  SuccessIsReported
  TablesInStep
PROPERTIES
  VerdictsStand
CHECK_DEADLOCK FALSE
