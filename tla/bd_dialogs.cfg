SPECIFICATION FairSpec
CONSTANTS
    Targets <- MCTargets
    Keys = {wf}
    SyncKey = sync
    Configs = {plain, other}
    Default = plain
    None = None
    MaxRuns = 2
    MaxBatches = 3
INVARIANTS SerialAsShown ResultsFollowNodes
PROPERTIES ConfirmedStart Finishes
CHECK_DEADLOCK FALSE
