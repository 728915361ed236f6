\* A status query and a callback that arrives at the end of the minute.
CONSTANTS
  Event = {e1}
  Handler = {h1}
  Poller = {p1}
  NULL = NULL
  PrefectEnabled = TRUE
  Reports = {"success"}
  MaxCrashes = 0
SPECIFICATION Spec
PROPERTIES
  TimeoutSparesResult
CHECK_DEADLOCK FALSE
