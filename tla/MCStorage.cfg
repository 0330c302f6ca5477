SPECIFICATION MCSpec
CONSTANTS
    None = None
    Names <- MCNames
    Paths <- MCPaths
    Untitled <- MCUntitled
    Panes = {p1, p2}
    Hosts = {h1, h2}
    Restores = {r1}
    MaxEdit = 1
    MaxRev = 3
    MaxJobs = 3
    MaxEditSteps = 5
    MaxNamingSteps = 4
    MaxRestoreEdits = 1
    MaxInputs = 3
SYMMETRY Symmetry
INVARIANTS EditorsSound NoSelfFork
PROPERTIES EditsKept RestorePointIsTree
CHECK_DEADLOCK FALSE
