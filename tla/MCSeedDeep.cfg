CONSTANTS
    Declared <- MCDeclared
    Malformed <- MCMalformed
    Program <- MCProgram
    CI <- MCCI
    Alphabet <- MCAlphabet
    Told = {"deep"}
    Today = 2423
    MaxCalls = 0
    MaxSkew = 1000000000
    AdvanceStep = 315360000
    GenesisTime = 1000
SPECIFICATION Spec
CHECK_DEADLOCK FALSE
INVARIANT MinedStoriesLand
