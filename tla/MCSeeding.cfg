CONSTANTS
    Declared <- MCDeclared
    Malformed <- MCMalformed
    Program <- MCProgram
    CI <- MCCI
    Alphabet <- MCAlphabet
    Told = {"smoke", "dispute", "rewards", "assoc", "covid", "privacy", "covid_demo", "written"}
    Today = 2423
    MaxCalls = 4
    MaxSkew = 1000000000
    AdvanceStep = 315360000
    GenesisTime = 1000
SPECIFICATION Spec
CHECK_DEADLOCK FALSE
INVARIANTS SeedsAgree EmittersAgree ClockIsTold StoriesLand
