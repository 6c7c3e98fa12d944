SPECIFICATION Spec
CONSTANTS
    k1 = k1
    k2 = k2
    k3 = k3
    k4 = k4
    NoName = NoName
    NoArg = NoArg
    Absent = Absent
    Keys <- MCKeys
    Hash <- MCHash
    Args <- MCArgs
    nMaxBucket = 2
    NUM = 3
    Rounds = 2
    Ids = {499, 500}
    Draws <- MCDraws
    Bound = 500
INVARIANTS
    ChainsWellLinked
    UniqueKeys
    NoDanglingSlot
    OneOwner
    IndInv
    CountersExact
    LoopsExact
PROPERTIES
    TallyExact
    ImplementsMap
    Termination
