SPECIFICATION FairBrowserSpec
CONSTANTS
    Pair = {p1, p2, p3}
    Req = {r1, r2}
    User = {u1}
    Tab = {b1}
    NoPair = NoPair
    NoReq = NoReq
    NoTab = NoTab
    Settled = Settled
    AccessLife = 2
    RefreshLife = 3
    Grace = 1
    Buffer = 1
PROPERTY SilentRefreshSettles
