SPECIFICATION RequestsSpec
CONSTANTS
    User = {u1}
    Linked = {u1}
    Invitation = {i1}
    Call = {k1, k2}
    NoUser = NoUser
    NoInv = NoInv
    IsPublic = FALSE
    MaxUses = 1
    Path = {p1, p2}
    Writer = {w1, w2}
    Put = {f1, f2}
    NoOne = NoOne
    Original = Original
SYMMETRY Symmetry
CHECK_DEADLOCK FALSE
INVARIANTS UsesBounded RemovalSticks AnsweredIsPushed LockedPathsRest
PROPERTIES RevocationHolds GrantLostOnlyByRevoking PushesNeverRevert
