SPECIFICATION ServicesSpec
CONSTANTS
    k1 = k1
    old = old
    new1 = new1
    new2 = new2
    a1 = a1
    a2 = a2
    a3 = a3
    Subjects = {k1}
    Windows <- MCWindows
    DowngradeSustained = 2
    RecoverSustained = 3
    MinSamples = 2
    MaxVerdicts = 5
    Clients = {c1, c2}
    SessionIds = {s1, s2}
    NoSession = NoSession
    SessionTTL = 2
    MaxClock = 4
    Programs = {old, new1, new2}
    Known <- MCKnown
    NoProgram = NoProgram
    MaxEvents = 5
    Answerers = {a1, a2, a3}
    Orders <- MCOrders
    MaxSent = 3
    Calls = {h1, h2}
    Providers = {p1}
    Accounts = {a1}
    Policies = {i1}
    Keys = {key1, key2}
    NoKey = NoKey
    Nothing = Nothing
    Desks = {d1, d2, d3}
    ProjectIds = {j1, j2}
    TokenIds = {t1, t2}
    NoProject = NoProject
    PricedModels = {m1, m2}
    Attempts = {r1, r2}
    Nanos = {1, 3}
    TokenCounts = {1}
    MaxTime = 1
    MaxPrices = 2
CHECK_DEADLOCK FALSE
INVARIANT OldCredentialKept
