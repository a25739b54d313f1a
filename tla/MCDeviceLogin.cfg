SPECIFICATION FairSpec
CONSTANTS
    Code = {c1, c2}
    User = {u1}
    Approval = {a1, a2}
    Poll = {k1, k2}
    NoUser = NoUser
    NoCode = NoCode
    CodeLife = 1
CHECK_DEADLOCK FALSE
INVARIANTS OnePairPerCode
PROPERTIES SpentCodeNotAuthorized PollingEnds
