SPECIFICATION Spec
CONSTANTS
    a = a
    b = b
    c = c
    d = d
    Keys = {a, b, c, d}
    Values = {1, 2}
    NULL = NULL
    HashOf <- MCHashOf
    INITIAL_SIZE = 8
    MAX_CHAIN_LENGTH = 2
    MaxTable = 32
    Scarce = TRUE
    Usages = {"overwrite", "remove"}
INVARIANTS
    Findable
    HalfFree
    IndInv
PROPERTIES
    ImplementsKeyMap
    PutReturns
