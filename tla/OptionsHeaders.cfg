SPECIFICATION Spec
CONSTANTS
    MaxHeaders = 2
    MaxProxies = 2
    MaxArgs = 5
    Garbage <- MCGarbage
INVARIANTS
    HeadersFit
CHECK_DEADLOCK FALSE
