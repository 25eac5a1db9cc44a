SPECIFICATION ManglerSpec
CONSTANTS
    HeaderName <- MCHeaderName
    MaxCustom = 2
    CustomLists <- MCCustomLists
    MaxMsg = 5
INVARIANTS
    ManglerTypeOK
    WireCarriesHeaders
    LossNeedsNewerMessage
CHECK_DEADLOCK FALSE
