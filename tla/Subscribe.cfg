SPECIFICATION FairSpec
CONSTANTS
    Codes <- MCCodes
    MaxTsx = 3
    BatchMax = 3
INVARIANTS
    TypeOK
    TimeoutIsTrue
    FailureIsEarnedOverTcp
PROPERTIES
    StopHasOutcome
    SubscribeEnds
