SPECIFICATION FairSpec
CONSTANTS
    Codes <- MCCodes
    MaxTsx = 3
    BatchMax = 3
INVARIANTS
    TypeOK
    StopMeansAnswer
    FailureNeedsTwoChallenges
    RetryIsAwaited
PROPERTIES
    OnlyChallengeStartsRetry
    AnsweredRunEnds
    RefusedRunEnds
    RequestEnds
    ImplementsOneShot
