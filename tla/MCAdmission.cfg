SPECIFICATION MCSpec
CONSTANTS
    c1 = c1
    c2 = c2
    c3 = c3
    d1 = d1
    d2 = d2
    r1 = r1
    Callers = {c1, c2, c3}
    Dispatches = {d1, d2}
    Repos = {r1}
    Codes = {k1, k2}
    NoRepo = NoRepo
    NoCode = NoCode
    Nobody = Nobody
    DispatchOf <- MCDispatchOf
    RepoPath <- MCRepoOf
CHECK_DEADLOCK FALSE
INVARIANTS StoreTypeOK ReportsMatchRow LaunchFence SingleLive
PROPERTIES OutcomeFinal StreamSpec Returns
