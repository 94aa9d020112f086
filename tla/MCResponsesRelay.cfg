SPECIFICATION Spec
CONSTANTS
    r1 = r1
    r2 = r2
    a1 = a1
    a2 = a2
    mon = mon
    h1 = h1
    NoHandle = NoHandle
    NoAccount = NoAccount
    Requests = {r1, r2}
    Accounts = {a1, a2, mon}
    MonitorOnly = {mon}
    Order <- MCOrder
    Handles = {h1}
    Failures = {"status429", "silent"}
INVARIANTS
    TypeOK
    ConversationAffinity
    UsageTellsWhoAnswered
PROPERTIES
    BindingNeverMoves
    HandleKnownAfterReply
