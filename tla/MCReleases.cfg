SPECIFICATION Spec
CONSTANTS
    User = {u1, u2}
    Call = {k1, k2}
    Name = {n1, n2}
    Art = {a1}
    External = External
    NoArt = NoArt
    NoUser = NoUser
    NoName = NoName
    Overlap = FALSE
    MaxTorn = 1
SYMMETRY Symmetry
INVARIANTS StoresAgree OneReleasePerArtifact
PROPERTY KeepsLedger
