SPECIFICATION SpecH
CONSTANTS
    a = a
    b = b
    long = long
    clipped = clipped
    Keys = {a, long}
    Clip <- MCClip
    Putters = {t1, t2}
    Getters = {t2}
    Counters = {t2}
    Calls = 3
    NoItem = NoItem
    NoKey = NoKey
INVARIANTS
    RetryFinds
    SizeBetween
    AllLinked
    OneListPerKey
PROPERTIES
    InTurn
    ImplementsTurns
