SPECIFICATION Spec
CONSTANTS
    r1 = r1
    Dispatches = {d1, d2}
    Repos = {r1}
    Codes = {0, 1}
    NoRepo = NoRepo
    NoCode = NoCode
    RepoOf <- MCRepoOf
    Exits <- MCExits
    FaultKinds = {"crash", "db", "ploom", "relay"}
    MaxFaults = 2
    MaxReclaims = 0
CHECK_DEADLOCK FALSE
INVARIANT OneAgentPerRepo
