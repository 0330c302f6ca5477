SPECIFICATION Spec
CONSTANTS
    r1 = r1
    Dispatches = {d1, d2}
    Repos = {r1}
    Codes = {0, 1}
    NoRepo = NoRepo
    NoCode = NoCode
    RepoOf <- MCRepoOf
    Exits <- MCExits
    FaultKinds = {"crash", "db", "ploom", "launch", "tmux", "relay"}
    MaxFaults = 1
    MaxReclaims = 1
CHECK_DEADLOCK FALSE
INVARIANT RuntimeInv
INVARIANT TruthfulOutcome
