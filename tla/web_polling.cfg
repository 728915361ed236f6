SPECIFICATION FairSpec
CONSTANTS
    Run = {1, 2}
    wa = wa
    Key <- MCKey
    KeyOf <- MCKeyOf
    None = None
    Asked = Asked
    MaxFilters = 2
    MaxCalls = 1
    MaxPolls = 4
    MaxStarts = 2
INVARIANTS SettledIsSettled ResultIsShown
PROPERTIES ActiveIsFollowed EndIsShown
CHECK_DEADLOCK FALSE
