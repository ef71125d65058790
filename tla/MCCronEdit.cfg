SPECIFICATION ComponentsSpec
CONSTANTS
    h1 = h1
    h2 = h2
    b1 = b1
    b2 = b2
    s1 = s1
    s2 = s2
    r1 = r1
    r2 = r2
    k1 = k1
    k2 = k2
    v1 = v1
    v2 = v2
    m1 = m1
    m2 = m2
    Msg = {m1, m2}
    MonthOf <- MCMonthOf
    LastMonth = 3
    MaxFaults = 2
    VetHost = {h1, h2}
    VetBot = {b1, b2}
    Global = Global
    ProviderHosts = {h2}
    SharedInfra = {}
    AdversarialBots = {b1}
    RoleFiles <- MCRoleFiles
    NoFile = NoFile
    Unreadable = Unreadable
    Uncached = Uncached
    MaxDenials = 2
    MaxVetEvents = 2
    SleepSession = {s1, s2}
    Matching = {s1, s2}
    MaxCycles = 2
    MaxEpoch = 1
    MaxSleepFaults = 1
    Skill = {k1, k2}
    Version = {v1, v2}
    Bad = {v1}
    Missing = Missing
    MaxInstalls = 3
    MaxAuditFaults = 2
    ReviewRun = {r1, r2}
    UnattendedRun = {r2}
    ToolCall <- MCToolCall
    ReviewConfig <- MCConfig
    RequestCap = 1
    InflightCap = 1
    NoAnswer = NoAnswer
    MaxPrompts = 2
    MaxCalls = 2
    ApiRequest <- MCRequest
    ApiPolicy <- MCPolicy
    CaptchaId = {"c1"}
    YesIds = {"a2"}
    MaxReplies = 2
INVARIANTS
    CronEditFailsClosed
CHECK_DEADLOCK FALSE
