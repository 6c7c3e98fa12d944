SPECIFICATION Spec
CONSTANTS
    Threads = {t1, t2}
    Values = {1}
    MaxNodes = 2
    DeleteFrom = {1}
INVARIANTS
    OneInside
