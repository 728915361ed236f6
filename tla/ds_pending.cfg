\* A sync whose callback may be lost and whose process may die.
CONSTANTS
  Event = {e1, e2}
  Handler = {h1}
  Poller = {p1}
  NULL = NULL
  PrefectEnabled = TRUE
  Reports = {"failed"}
  MaxCrashes = 1
SPECIFICATION FairSpec
PROPERTIES
  PendingEnds
CHECK_DEADLOCK FALSE
