SPECIFICATION FairSpec
CONSTANTS
    Codes <- MCCodes
    MaxTsx = 3
    BatchMax = 3
PROPERTIES
    TimedOutRunEnds
