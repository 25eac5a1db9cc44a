SPECIFICATION FairSpec
CONSTANTS
    Codes <- MCCodes
    MaxTsx = 3
    BatchMax = 3
    TriesRange = 4
INVARIANTS
    TypeOK
    StopMeansVerdict
    ReportIsLatest
    AnswerIsHeeded
    FailureIsEarnedOverTcp
PROPERTIES
    PublishEnds
