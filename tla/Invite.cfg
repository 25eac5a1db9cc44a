SPECIFICATION FairSpec
CONSTANTS
    Codes <- MCCodes
    MaxTsx = 4
    BatchMax = 2
INVARIANTS
    TypeOK
    StopMeansOver
    AnsweredCallIsClosed
PROPERTIES
    InviteTerminates
