SPECIFICATION Spec
CONSTANTS
    Threads = {t1, t2}
    Paths = {a, b}
    NoPath = NoPath
    Settings <- MCSettings
    Sizes = {1, 2}
    MaxLines = 3
    MaxTime = 4
    PerTick = 3
    MaxRestarts = 2
INVARIANTS
    LostInReplacedOnly
    LinesInOrder
    Rotated

    
