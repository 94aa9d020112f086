SPECIFICATION Spec
CONSTANTS
    f1 = f1
    f2 = f2
    c1 = c1
    c2 = c2
    c3 = c3
    NoFlow = NoFlow
    Flows = {f1, f2}
    Completers = {c1, c2, c3}
INVARIANTS
    StateRedeemedOnce
    AccountsHaveTokens
    CompletedFlowHasAccount
