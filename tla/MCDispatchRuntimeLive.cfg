SPECIFICATION OperatedSpec
CONSTANTS
    r1 = r1
    Dispatches = {d1}
    Repos = {r1}
    Codes = {0}
    NoRepo = NoRepo
    NoCode = NoCode
    RepoOf <- MCRepoOf
    Exits <- MCExits
    FaultKinds = {"crash", "ploom", "launch", "tmux"}
    MaxFaults = 2
    MaxReclaims = 1
CHECK_DEADLOCK FALSE
PROPERTY RunsDecided
