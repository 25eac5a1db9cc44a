SPECIFICATION FairSpec
CONSTANTS
    Codes <- MCCodes
    MaxTsx = 2
    BatchMax = 2
    ExpiresValues <- MCExpires
INVARIANTS
    TypeOK
    SaidIsTrue
PROPERTIES
    RegisterEnds
