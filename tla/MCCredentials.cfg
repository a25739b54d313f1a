SPECIFICATION Spec
CONSTANTS
    Token = {t1, t2, t3, t4, t5}
    Call = {k1, k2, k3}
    NoTok = NoTok
    LegacyTok = t1
    Locking = TRUE
    LegacyLocking = FALSE
    Rotates = TRUE
    CanDisconnect = TRUE
    MaxRow = 3
SYMMETRY Symmetry
CHECK_DEADLOCK FALSE
INVARIANT StoredTokenAlive
PROPERTIES DeleteOnlyInvalid RefreshNeverReconnects
