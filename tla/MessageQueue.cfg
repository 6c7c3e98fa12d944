SPECIFICATION Spec
CONSTANTS
    s1 = s1
    s2 = s2
    r = r
    Procs = {s1, s2, r}
    CallsOf <- MCCallsOf
    Calls <- MCCalls
    Capacity = 2
    MaxIds = 3
INVARIANTS
    Delivered
    NothingOverlooked
    SendReported
