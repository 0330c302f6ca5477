SPECIFICATION MCSpec
CONSTANTS
    t1 = t1
    t2 = t2
    t3 = t3
    w1 = w1
    w2 = w2
    session = session
    browser = browser
    settings1 = settings1
    settings2 = settings2
    newtab = newtab
    TabIds = {t1, t2, t3}
    WsIds = {w1, w2}
    Contents = {session, browser, settings1, settings2, newtab}
    Sessions = {session}
    Browsers = {browser}
    NewTab = newtab
    None = None
    CLOSED_TABS_MAX = 1
    MaxLeaves = 3
    SettingsOf <- MCSettingsOf
    Panes = {"p1", "p2", "p3"}
    Minis = {"m1"}
    Wins = {"A", "B"}
    Owner <- MCOwner
    Pages = {"a", "b"}
    NoPage = NoPage
    MaxBackground = 1
    MaxCalls = 2
    Links = {"l1", "l2"}
    MaxWins = 3
    Parts = {"main", "preload", "renderer"}
    SlotHosts = {"h1", "h2"}
    NoHost = "none"
    Cmds = {"c1"}
    MaxClicks = 2
    MaxSessionTabs = 3
    OpenHosts = {"h1"}
    OpenWss = {"w1", "w2"}
    NoWs = "nows"
    Dirs = {"d1", "d2"}
    OpenSessions = {"s1"}
    NoSession = "nosession"
    MAX_DIRS_PER_SCOPE = 2
    MaxOpens = 2
    NamePanes = {"p1", "p2"}
    NameCodes = {1}
    SessNames = {"a", "b", "c"}
    NoPane = "nopane"
    MaxServers = 2
    MaxNameFrames = 2
    MaxOpenSteps = 4
    MaxNameSteps = 4
    MaxTabSteps = 3
    MaxViewSteps = 5
    MaxAppSteps = 6
    MaxSlotSteps = 6
INVARIANTS TabsSound ViewsSound DeliveredOnce InstallWhole ClicksSound
PROPERTIES LockedTabKept 
CHECK_DEADLOCK FALSE
