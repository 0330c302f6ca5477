SPECIFICATION MCSpec
CONSTANTS
    Fields = {"p", "q", "h"}
    Mods = {"prefs", "hosts"}
    Owner <- MCOwner
    HostField = "h"
    Values = {v0, v1, v2}
    Null = Null
    PreOpMax = 2
    MonthlyMax = 1
    HourTier = 1
    DayTier = 2
    WeekTier = 3
    MaxSnaps = 4
    MaxNow = 3
    SnapHosts = {"g1", "g2"}
    Codes = {1, 2}
    Names = {n1, n2}
    SnapTabs = {t1, t2}
    None = None
    TplHosts = {"h1", "h2"}
    Rows = {"exact", "fallback"}
    Words = {"a", "b"}
    NoWord = NoWord
    MaxTests = 3
    MaxRuns = 2
    HostEndpoints = {"e1", "e2"}
    Tokens = {"k1", "k2"}
    NoToken = "none"
    MaxDialogs = 2
    MaxHosts = 3
    MonHosts = {"h1", "h2"}
    MonAddrs = {"a1", "a2"}
    NoAddr = "noaddr"
    NoMonHost = "nohost"
    MaxMonSteps = 3
    MaxSyncSteps = 4
    MaxSnapSteps = 6
    MaxTplSteps = 5
    MaxTestSteps = 3
    MaxAddSteps = 7
SYMMETRY Symmetry
INVARIANTS StoredStateSafe NavigationSound HostPagesSound
PROPERTIES EditsSurvivePull RestoreKeepsWork FinishedRunStands
CHECK_DEADLOCK FALSE
