SPECIFICATION EditorSpec
CONSTANTS
    File = {f1}
    Mine = {m1, m2}
    Others = {o1}
    Mark = Mark
    MaxCommits = 4
    Overlap = TRUE
PROPERTY PullKeepsEdits
