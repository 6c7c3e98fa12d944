SPECIFICATION Spec
CONSTANTS
    Threads = {t1, t2, t3}
    Calls = 2
    Settings <- MCSettings
    NoItem = NoItem
INVARIANTS
    ChainWellLinked
    IndInv
PROPERTIES
    ImplementsSequence
