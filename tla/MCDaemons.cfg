SPECIFICATION DaemonsSpec
CONSTANTS
    b1 = b1
    b2 = b2
    h1 = h1
    h2 = h2
    k1 = k1
    k2 = k2
    v1 = v1
    v2 = v2
    Msg = {m1, m2}
    Bot = {b1, b2}
    Dest <- MCDest
    Roster <- MCRoster
    Tick = {t1}
    NoId = NoId
    MaxFaults = 2
    VetHost = {h1, h2}
    VetBot = {b1}
    Global = Global
    ProviderHosts = {h2}
    SharedInfra = {}
    AdversarialBots = {b1}
    RoleFiles <- MCRoleFiles
    NoFile = NoFile
    Unreadable = Unreadable
    Uncached = Uncached
    MaxDenials = 2
    MaxVetEvents = 2
    Skill = {k1, k2}
    Version = {v1, v2}
    Bad = {v1}
    Missing = Missing
    MaxInstalls = 3
    MaxAuditFaults = 2
INVARIANTS
    OneWake
    
    WokenOnce
PROPERTIES
    
    VetEventuallyJudged
    
CHECK_DEADLOCK FALSE
