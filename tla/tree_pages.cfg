SPECIFICATION Spec
SYMMETRY Symmetry
CONSTANTS
    None = None
    Asked = Asked
    Cat = {c1, c2}
    MaxCalls = 2
    Node = {n1, n2}
    Doc = {d1, d2}
    MaxTasks = 2
    MaxStarts = 2
    PageSize = 1
    MaxCopies = 2
    MaxPastes = 1
    MaxClicks = 2
    t1 = t1
    t2 = t2
    t3 = t3
    u1 = u1
    u2 = u2
    Token <- MCToken
    Owner <- MCOwner
    MaxRequests = 2
INVARIANTS TreeFollows PanelsCurrent CopiedWhole PasteKept SessionAgrees
PROPERTIES SelectionStaysAlike
CHECK_DEADLOCK FALSE
