SPECIFICATION Spec
SYMMETRY Symmetry
CONSTANTS
    None = None
    Asked = Asked
    Refs = {r1, r2}
    MaxEdits = 1
    MaxWrites = 2
    n1 = n1
    n2 = n2
    n3 = n3
    v1 = v1
    v2 = v2
    Node <- MCNode
    View <- MCView
    NodeOf <- MCNodeOf
    Matches <- MCMatches
    Doc = {d1}
    MaxTasks = 2
    MaxStarts = 2
    Versioned = {h1, h2}
    PageSize = 2
    MaxVersions = 3
    MaxRestores = 1
    Statuses = {success, running}
    Active = {running}
    Key = {wa}
INVARIANTS CacheCurrent ReferencesKept ListFollows NeverNowhere
PROPERTIES DraftKept DoneAsShown
CHECK_DEADLOCK FALSE
