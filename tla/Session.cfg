CONSTANTS
    Tokens = {k1, k2, k3}
    NoToken = NoToken
    Tabs = {t1, t2}
    Requests = {r1, r2}
    NoTab = NoTab
    MaxExpiries = 2
    MaxLogins = 2
    MaxLost = 1
    NoRequest = NoRequest
    Settled = Settled
SPECIFICATION Spec
SYMMETRY Symmetry
INVARIANTS
    OneSuccessor
    
    RefusedOnlyIfOver
    WaitersAreWoken
CHECK_DEADLOCK FALSE
