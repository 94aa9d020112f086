SPECIFICATION FairSpec
CONSTANTS
    r1 = r1
    r2 = r2
    r3 = r3
    t1 = t1
    t2 = t2
    m1 = m1
    m2 = m2
    NoToken = NoToken
    Requests = {r1, r2, r3}
    Tokens = {t1, t2}
    Models = {m1, m2}
    Expiring = {t2}
    MaxUse = 2
    Limit <- MCLimit
    Whitelist <- MCWhitelist
INVARIANTS
    SlotAccounting
    ConcurrencyCap
PROPERTIES
    RevocationDrains
    SlotComesBack
