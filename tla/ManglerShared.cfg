SPECIFICATION ManglerSpec
CONSTANTS
    HeaderName <- MCHeaderName
    MaxCustom = 2
    CustomLists <- MCCustomLists
    MaxMsg = 5
INVARIANTS
    HeadersCanBeAdded
CHECK_DEADLOCK FALSE
