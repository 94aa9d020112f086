SPECIFICATION Spec
CONSTANTS
    r1 = r1
    a1 = a1
    a2 = a2
    mon = mon
    NoAccount = NoAccount
    Requests = {r1}
    Accounts = {a1, a2, mon}
    MonitorOnly = {mon}
    Serving = {mon, a1, a2}
    Priorities = {1, 2}
    Failures = {"status429", "statusAuth", "status404", "status5xx", "status4xx", "connect", "reset", "timeout", "malformed"}
    Listing <- MCListing
    Policies <- MCPolicies
INVARIANT
    DocumentedFailover
