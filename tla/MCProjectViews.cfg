SPECIFICATION ViewsSpec
CONSTANTS
    Source = {s1, s2, s3}
    Broken = {s3}
    NoSource = NoSource
    MaxEdits = 3
    Issue = {i1, i2, n1}
    NewIssue = {n1}
    MaxReconcile = 2
    MaxIssueChanges = 2
    NumPages = 3
    LastTop = 2
    SearchText = {"once", "twice"}
    NoText = "blank"
    Hits <- MCHits
    MaxSearches = 2
    Artifact = {a1, a2}
    WholeProject = WholeProject
    DefaultPath = a1
    StaleArtifact = {a1, a2}
    MaxReleases = 1
    MaxChanges = 2
INVARIANTS
    ViewsTypeOK
    SearchShowsQuery StaleOnlyAcknowledged ListShowsChanges
PROPERTIES
    ImplementsService PreviewCatchesUp
    ReconcileKeepsExpected ShownListSettles
CHECK_DEADLOCK FALSE
