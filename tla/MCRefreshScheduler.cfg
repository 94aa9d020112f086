SPECIFICATION FairSpec
CONSTANTS
    c1 = c1
    c2 = c2
    c3 = c3
    c4 = c4
    models = models
    capabilities = capabilities
    NoRun = NoRun
    Calls = {c1, c2, c3, c4}
    Keys = {models, capabilities}
    KeyOf <- MCKeyOf
INVARIANTS
    SingleFlight
    RunningRowHasRun
    RetriesCountFailures
PROPERTIES
    ClaimComesBack
