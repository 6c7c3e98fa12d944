SPECIFICATION Spec
CONSTANTS
    Cipher <- MCCipher
    InvCipher <- MCInvCipher
    Keys = {1, 37}
    Ivs <- MCIvs
    Chars = {0, 97, 126, 233}
    Filler = 97
    MaxFill = 64
    MaxAdded = 2
INVARIANTS
    WordsExact
