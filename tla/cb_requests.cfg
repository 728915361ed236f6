SPECIFICATION MCSpec
CONSTANTS
    Existing = 3
    MaxNode = 8
    BaseName = {x}
    MaxCopies = 2
    MaxSources = 2
    NULL = NULL
    MaxTree = 4
    Doc = {1, 2}
    PageSize = 1
INVARIANTS
    TreeStands
    CopiesStand
    RollbackUndoes
    PlacedAsAsked
CHECK_DEADLOCK FALSE
