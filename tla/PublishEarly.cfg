SPECIFICATION Spec
CONSTANTS
    Codes <- MCCodes
    MaxTsx = 3
    BatchMax = 3
    TriesRange = 65536
INVARIANTS
    FailureIsEarned
