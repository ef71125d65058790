SPECIFICATION BrowserSpec
CONSTANTS
    k1 = k1
    k2 = k2
    x1 = x1
    x2 = x2
    p1 = p1
    p2 = p2
    McpKey = {k1, k2}
    McpProfileOf <- MCProfileOf
    McpCaller = {x1, x2}
    NoSession = NoSession
    MaxMcpSessions = 2
    PwPage = {p1, p2}
    PwCaller = {x1, x2}
    AnyPage = AnyPage
    NoConn = NoConn
    MaxConns = 2
    MaxRefusals = 1
    TabSession = {s1, s2}
    PrimarySession = {s1}
    AgentTab = {p1, p2, p3}
    Sweep = {w1}
    MaxTabsPerSession = 1
    LaunchCaller = {x1, x2}
    Chrome = {p1, p2}
    NoChrome = NoChrome
    NoCaller = NoCaller
    LaunchThreshold = 2
    MaxLaunchFaults = 2
    MaxResets = 1
    MaxReloads = 1
    TabTarget = {p1, p2}
    TabUrl = {u1, u2}
    TabLabel = {l1}
    TabCaller = {x1, x2}
    NoLabel = NoLabel
    NoTarget = NoTarget
    Unborn = Unborn
    Shut = Shut
    ArmCall = {x1, x2, x3}
    PageEvent = {p1, p2}
    NoEvent = NoEvent
SYMMETRY Interchangeable
INVARIANTS
    BrowserTypeOK
    
    
    
    
    NoChromeOrphaned
    
    ArmedHandledOnce
CHECK_DEADLOCK FALSE
