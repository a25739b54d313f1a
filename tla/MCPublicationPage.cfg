SPECIFICATION PageSpec
CONSTANTS
    File = {f1, f2}
    Mine = {m1, m2}
    Others = {o1}
    Mark = Mark
    MaxCommits = 4
    Overlap = FALSE
    MaxComments = 2
SYMMETRY Symmetry
INVARIANTS
    PageTypeOK
     
    PanelShowsComments ThreadInStep
PROPERTY SeenPushesSurvive
