SPECIFICATION Spec
CONSTANTS
    MaxHeaders = 2
    MaxProxies = 2
    MaxArgs = 5
    Garbage <- MCGarbage
INVARIANTS
    TypeOK
    RouteIsSound
    NotifyIsCoherent
    AliasIsUnderstood
CHECK_DEADLOCK FALSE
