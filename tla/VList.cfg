SPECIFICATION Spec
CONSTANTS
    Threads = {t1, t2}
    Values = {1, 2}
    MaxNodes = 4
INVARIANTS
    LinkedBothWays
    Ordered
    VisitsOnce
