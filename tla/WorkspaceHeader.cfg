\* One tab and two workspaces: a read, a switch, and a replay after a 401.
CONSTANTS
    Workspaces = {w1, w2}
    Slugs = {x1, x2}
    Nothing = Nothing
    Tabs = {t1}
    MaxChanges = 0
    MaxCalls = 1
SPECIFICATION PagesSpec
INVARIANT CallsReachTheirWorkspace
CHECK_DEADLOCK FALSE
