SPECIFICATION PartsSpec
CONSTANTS
    Pair = {p1, p2, p3}
    Req = {r1, r2}
    User = {u1}
    NoPair = NoPair
    AccessLife = 1
    RefreshLife = 3
    Grace = 1
    Tab = {t1, t2}
    MaxBusy = 3
    ZoteroFlows = {1, 2, 3}
    Finish = {z1, z2}
    Object = {d1, d2}
    Upload = {q1, q2}
    Quota = 1
SYMMETRY Symmetry
CHECK_DEADLOCK FALSE
INVARIANTS
    GraceBound InviteKept GoogleAsAsked OpenFlowCanFinish ToldStored
PROPERTY RefusalIsFinal
