SPECIFICATION Spec
CONSTANTS
    Threads = {main}
    Values = {1, 2, 3}
    MaxNodes = 5
    DeleteFrom = {1}
INVARIANTS
    InOrder
    ItemsKept
    VisitsAll
